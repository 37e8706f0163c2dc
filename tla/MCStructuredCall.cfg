\* The three callers with and without function calling; a value that violates the
\* schema, one that satisfies it and fails the caller's checks, and a good one,
\* as tool arguments, fenced or bare, beside text that does not parse.
SPECIFICATION SCSpec
CONSTANTS
  Docs = {misfit, unsound, good}
  Conforming = {unsound, good}
  Sound = {good}
  NoDoc = NoDoc
INVARIANTS
  QuotesLastRejection
  GivenUpOnlyAfterAll
PROPERTY
  ImplementsContract
