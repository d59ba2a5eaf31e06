---------------------------- MODULE ReviewTarget ----------------------------
(***************************************************************************)
(* git-diff.mjs: what a review is about, read from the repository in       *)
(* several git calls and file reads while somebody may be working in it.   *)
(* A rename is its deletion and its addition; a file's content is a value. *)
(***************************************************************************)
EXTENDS Naturals, FiniteSets

CONSTANTS
  Paths,
  Repositories,     \* the repositories a run may start in
  Edits,            \* what somebody may put in the index or on disk
  MaxEdits          \* bound: commits and edits made during a run

(* Three commits, each the parent of the next; HEAD, and the branch a       *)
(* --commit may name, is at "new" and may move on to "newer".  A tree maps  *)
(* every path to a content, Gone where it holds no such file.               *)
Gone == "gone"
Binary == "binary"
Unmerged == "unmerged"      \* in the index only: a path in conflict
Modes == {"commit", "base", "staged", "worktree"}
ParentOf == [new |-> "old", newer |-> "new"]

(* A repository is its trees, its HEAD, its index and its disk.             *)
ASSUME RepositoriesAssumption ==
  \A r \in Repositories : r = [trees |-> r.trees, head |-> r.head, index |-> r.index, disk |-> r.disk]

VARIABLES
  repo,         \* [trees, head, index, disk]
  edits,        \* how often it has changed
  mode, diffOnly,   \* what the user asked for
  phase,        \* this run's next step, "idle" outside of this stage
  base, tip,    \* the revisions it resolved
  diff,         \* the changes it was shown
  pinned,       \* untracked files, whole: [path, content]
  status,       \* the changes git listed
  tracked,      \* changed files, whole
  unreadable,   \* listed paths with no body to send
  toRead        \* paths still to be read

targetVars == <<repo, edits, mode, diffOnly, phase, base, tip, diff, pinned, status, tracked,
                unreadable, toRead>>

-----------------------------------------------------------------------------
(* What git shows between two trees.                                        *)
Changes(from, to) ==
  {[path |-> p, from |-> from[p], to |-> to[p]] : p \in {p \in Paths : from[p] # to[p]}}

(* Tracked files as they are on disk; a path that is only untracked is      *)
(* gone as far as git diff is concerned.                                    *)
Worktree(r) == [p \in Paths |-> IF r.index[p] = Gone THEN Gone ELSE r.disk[p]]
Untracked(r) == {p \in Paths : r.index[p] = Gone /\ r.disk[p] # Gone}

(* `selectDiff`: the two sides of the change, now.  A commit was resolved   *)
(* to an id; HEAD, the index and the disk are read afresh each time.        *)
ReviewedByName(r) == r.head \* mutant: the branch is followed while it moves
Reviewed(r) == tip

Side(r) ==
  CASE mode = "commit"   -> r.trees[Reviewed(r)]
    [] mode = "base"     -> r.trees[r.head]
    [] mode = "staged"   -> r.index
    [] mode = "worktree" -> Worktree(r)
Against(r) ==
  CASE mode = "commit" -> r.trees[ParentOf[Reviewed(r)]]
    [] mode = "base"   -> r.trees[base]
    [] OTHER           -> r.trees[r.head]

(* `readContent`, the reader that goes with the diff.                       *)
ContentOf(r, p) == IF mode = "worktree" THEN r.disk[p] ELSE Side(r)[p]
Sendable(content) == content \notin {Gone, Binary, Unmerged}
Removed == {c.path : c \in {c \in status : c.to = Gone}}
ChangedPaths == {c.path : c \in status} \ Removed
Block(p, content) == [path |-> p, content |-> content]
PathsOf(blocks) == {b.path : b \in blocks}

-----------------------------------------------------------------------------

NoRepository == [head |-> "none"]

TargetIdle ==
  /\ repo = NoRepository /\ edits = 0 /\ mode = "worktree" /\ diffOnly = FALSE
  /\ phase = "idle" /\ base = "old" /\ tip = "new"
  /\ diff = {} /\ pinned = {} /\ status = {} /\ tracked = {} /\ unreadable = {} /\ toRead = {}

BeginTarget ==
  /\ repo' \in Repositories
  /\ mode' \in Modes /\ diffOnly' \in BOOLEAN
  /\ phase' = "resolve"
  /\ UNCHANGED <<edits, base, tip, diff, pinned, status, tracked, unreadable, toRead>>

(* What was read is let go.                                                 *)
EndTarget ==
  /\ repo' = NoRepository /\ edits' = 0 /\ mode' = "worktree" /\ diffOnly' = FALSE
  /\ phase' = "idle" /\ base' = "old" /\ tip' = "new"
  /\ diff' = {} /\ pinned' = {} /\ status' = {} /\ tracked' = {} /\ unreadable' = {} /\ toRead' = {}

(* `singleCommit`, or merge-base; what names no one commit is refused.      *)
Resolve ==
  /\ phase = "resolve"
  /\ \/ phase' = "diff"
     \/ mode \in {"commit", "base"} /\ phase' = "refused"
  /\ tip' = repo.head
  /\ UNCHANGED <<repo, edits, mode, diffOnly, base, diff, pinned, status, tracked, unreadable, toRead>>

ReadDiff ==
  /\ phase = "diff"
  /\ diff' = Changes(Against(repo), Side(repo))
  /\ phase' = IF mode = "worktree" THEN "others" ELSE "status"
  /\ UNCHANGED <<repo, edits, mode, diffOnly, base, tip, pinned, status, tracked, unreadable, toRead>>

(* `untrackedBlocks` lists, then reads one file at a time.                  *)
ListUntracked ==
  /\ phase = "others"
  /\ toRead' = Untracked(repo) /\ phase' = "pin"
  /\ UNCHANGED <<repo, edits, mode, diffOnly, base, tip, diff, pinned, status, tracked, unreadable>>

ReadUntracked ==
  /\ phase = "pin" /\ toRead # {}
  /\ \E p \in toRead :
       /\ toRead' = toRead \ {p}
       /\ IF Sendable(repo.disk[p])
            THEN pinned' = pinned \cup {Block(p, repo.disk[p])} /\ UNCHANGED unreadable
            ELSE unreadable' = unreadable \cup {p} /\ UNCHANGED pinned
  /\ UNCHANGED <<repo, edits, mode, diffOnly, phase, base, tip, diff, status, tracked>>

(* Nothing to review is refused; otherwise git lists the changes again, and *)
(* every path with a body is read one at a time.                            *)
ListChanges ==
  /\ phase = "status" \/ (phase = "pin" /\ toRead = {})
  /\ IF diff = {} /\ pinned = {}
       THEN phase' = "refused" /\ UNCHANGED <<status, toRead>>
       ELSE /\ phase' = "read"
            /\ status' = Changes(Against(repo), Side(repo))
            /\ toRead' = IF diffOnly THEN {} ELSE ChangedPaths'
  /\ UNCHANGED <<repo, edits, mode, diffOnly, base, tip, diff, pinned, tracked, unreadable>>

ReadChanged ==
  /\ phase = "read" /\ toRead # {}
  /\ \E p \in toRead :
       /\ toRead' = toRead \ {p}
       /\ IF Sendable(ContentOf(repo, p))
            THEN tracked' = tracked \cup {Block(p, ContentOf(repo, p))} /\ UNCHANGED unreadable
            ELSE unreadable' = unreadable \cup {p} /\ UNCHANGED tracked
  /\ UNCHANGED <<repo, edits, mode, diffOnly, phase, base, tip, diff, pinned, status>>

(* The target, and the claim the whole-file request makes of it.            *)
Collected == phase = "read" /\ toRead = {}
Changed == {b \in tracked : b.path \notin PathsOf(pinned)}
PinnedRemoved == Removed \cap PathsOf(pinned) # {}
DeletionsOnly == status # {} /\ ChangedPaths = {}

ClaimsAnyPinned == \* mutant: a file git says is gone is sent as the changed one
  Changed # {} /\ diff # {} /\ unreadable = {}
ClaimsWhole == Changed # {} /\ diff # {} /\ unreadable = {} /\ ~PinnedRemoved

-----------------------------------------------------------------------------
(* Somebody commits, stages or edits.                                       *)
Commit ==
  /\ edits < MaxEdits /\ repo.head = "new"
  /\ repo' = [repo EXCEPT !.head = "newer"]

Edit ==
  /\ edits < MaxEdits
  /\ \E p \in Paths, content \in Edits :
       \/ repo' = [repo EXCEPT !.disk[p] = content]
       \/ repo' = [repo EXCEPT !.index[p] = content]
  /\ repo' # repo

Others ==
  /\ phase \notin {"idle", "refused"} /\ ~Collected
  /\ Commit \/ Edit
  /\ edits' = edits + 1
  /\ UNCHANGED <<mode, diffOnly, phase, base, tip, diff, pinned, status, tracked, unreadable, toRead>>

TargetNext ==
  \/ Resolve \/ ReadDiff \/ ListUntracked \/ ReadUntracked \/ ListChanges \/ ReadChanged \/ Others

-----------------------------------------------------------------------------
(* A request that says it holds the complete content of every changed file  *)
(* after the change does: a body for each path the change leaves a file at, *)
(* in the version under review, and none for a path it takes away.  For a   *)
(* commit that is so while branches move, the index and the disk change;    *)
(* for the other targets, when nothing was changed during the reads.        *)
(* (git-diff.mjs collectTarget, review-ladder.mjs build)                    *)
PromiseIsKept ==
  Collected /\ ClaimsWhole /\ (mode = "commit" \/ edits = 0) =>
    LET sent   == pinned \cup Changed
        change == IF mode = "commit" THEN Changes(repo.trees[ParentOf[tip]], repo.trees[tip])
                  ELSE Changes(Against(repo), Side(repo))
    IN  \A c \in change :
          /\ c.to # Gone => Block(c.path, c.to) \in sent
          /\ \A b \in sent : b.path = c.path => b.content = c.to
=============================================================================
