---- MODULE ReportText ----
(***************************************************************************)
(* The limits of the texts sent to GitHub (internal/github/status.go,      *)
(* checkrun.go).  A text is modelled by the lengths of its parts: runes    *)
(* for the description of a status, bytes for the output of a check run.   *)
(***************************************************************************)
EXTENDS Naturals

CONSTANTS
    MaxDescription,     \* maxStatusDescription, 140
    HintLength,         \* runes of " | shitty-ci logs ", 18
    MaxText,            \* MaxCheckTextOutput, 65535
    MaxError,           \* bound on the error in the table, 2000
    NoErrorText         \* runes of "(no error text)", 15

ASSUME LimitsAssumption ==
    /\ MaxDescription \in Nat /\ HintLength \in Nat /\ MaxText \in Nat
    /\ MaxError \in Nat /\ NoErrorText \in Nat

AtMost(n, m) == IF n <= m THEN n ELSE m
Minus(n, m) == IF n >= m THEN n - m ELSE 0

\* truncateToRunes of a body followed by a hint: how much of each is left.
Truncate(body, hint) ==
    [body |-> AtMost(body, MaxDescription),
     hint |-> AtMost(hint, Minus(MaxDescription, body))]

\* StatusDescriptionWithLogsHint: a body, and the id of the build (0 runes
\* for none); the hint is kept whole if at least 8 runes of body remain.
WithLogsHint(body, id) ==
    IF id = 0 THEN Truncate(body, 0)
    ELSE IF body + HintLength + id <= MaxDescription
         THEN [body |-> body, hint |-> HintLength + id]
    ELSE IF MaxDescription < HintLength + id + 8
         THEN Truncate(body, HintLength + id)
    ELSE [body |-> AtMost(body, MaxDescription - (HintLength + id)),
          hint |-> HintLength + id]

\* StepFailureDescription: "step: error", with words for what is empty.
StepFailure(name, err, id) ==
    WithLogsHint((IF name = 0 THEN 4 ELSE name) + 2
                 + (IF err = 0 THEN NoErrorText ELSE err), id)

\* Bug: the room for the line end and the fence is not reserved.
BudgetWhole(head) == Minus(MaxText, head)

\* BuildFailureOutput: what is left for the log after the head of the text.
Budget(head) == Minus(MaxText, head + 10)

\* The head: fixed wording, the id, the name of the step, the error. Then,
\* if there is a log, the fence opens (part of the head), the end of the log
\* follows, a line end if it lacks one, and the fence closes.  The text is
\* cut at MaxText.
HeadLength(fixed, id, name, err) == fixed + id + name + AtMost(err, MaxError)

LogLength(head, tail, skip) ==
    IF Budget(head) = 0 THEN 18        \* "(output too large)"
    ELSE IF tail > Budget(head) THEN Minus(Budget(head), skip) ELSE tail

FailureText(head, tail, skip, newline) ==
    IF tail = 0 THEN head
    ELSE head + LogLength(head, tail, skip) + newline + 4

----------------------------------------------------------------------------
\* Properties

\* A description never exceeds what GitHub accepts, whatever the lengths, and
\* keeps the hint to the log whole as long as an id fits at all.
DescriptionFits(name, err, id) ==
    LET d == StepFailure(name, err, id) IN
    /\ d.body + d.hint <= MaxDescription
    /\ id > 0 /\ HintLength + id + 8 <= MaxDescription => d.hint = HintLength + id

\* The final cut never falls into the log or its fence, whatever the lengths
\* of the log and of its first line, as long as the head leaves room for any
\* log (checkrun.go: the budget of the log; newline is 1 if the log lacks a
\* line end).
FenceIsClosed(head, tail, skip, newline) ==
    Budget(head) > 0 => FailureText(head, tail, skip, newline) <= MaxText

====
