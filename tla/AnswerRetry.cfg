\* A cap shorter than the work, with retries and follow-ups inside it, and
\* every way a request may die.
SPECIFICATION FairSpec
CONSTANTS
  MaxAttempts = 2
  Cap = 2
  SalvageCap = 1
  RetryDelay = 2
  Durations = {0, 1}
  DeathReasons = {"empty-completion", "blank-completion", "stream-unfinished", "transport",
    "first-byte-timeout", "first-token-timeout", "idle-timeout", "deadline-timeout",
    "token-reserve-cutoff", "non-retryable-transport", "stream-error-frame",
    "protocol", "bad-json"}
INVARIANTS CapBoundsAll RecordIsTrue OneAnswer NeverReoffered
PROPERTY CommandEnds
