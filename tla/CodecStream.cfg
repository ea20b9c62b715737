SPECIFICATION Spec
CONSTANTS
  Cuts = {18, 19}
  Malformed <- MCMalformed
INVARIANTS
  StreamStaysAligned
  LengthsAreExact
  ReadBackExactly
  RefusedForCause
  AsnWidthAgreed
  ErrorsAreNamed
  NothingIsLeftUnread
CHECK_DEADLOCK FALSE
