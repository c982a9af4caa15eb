---------------------------- MODULE SessionState ----------------------------
(***************************************************************************)
(* The session state service: what the wrapper remembers of the settings   *)
(* the application made on its session (autocommit, read-only, catalog,    *)
(* schema, isolation), and how it replays them on a connection it moves to *)
(* and takes them back on a connection it leaves.                          *)
(*                                                                         *)
(* The five fields are handled by five copies of the same code, in a fixed *)
(* order: here one operator works on every field of Fields, in the order   *)
(* of the sequence.  Operators only; WrapperConnection holds the state.    *)
(***************************************************************************)
EXTENDS Naturals, Sequences

CONSTANTS
    Fields,                  \* the settings, a sequence in the order they are replayed
    Values,                  \* the values a setting can have
    Nil,                     \* an absent value, connection or host (Go's nil)
    TransferSessionState,    \* transferSessionStateOnSwitch
    ResetSessionState        \* resetSessionStateOnClose

ASSUME SessionAssumption ==
    /\ Fields \in Seq(STRING) /\ Nil \notin Values /\ Values # {}
    /\ TransferSessionState \in BOOLEAN /\ ResetSessionState \in BOOLEAN

FieldSet == {Fields[i] : i \in 1 .. Len(Fields)}

\* f is replayed before g.
Before(f, g) == \E i, j \in 1 .. Len(Fields) : i < j /\ Fields[i] = f /\ Fields[j] = g

\* A field remembers the value the application set and the one it replaced.
Field == [val : Values \cup {Nil}, pri : Values \cup {Nil}]

Session == [FieldSet -> Field]

\* Reset: nothing is remembered.
NoSession == [f \in FieldSet |-> [val |-> Nil, pri |-> Nil]]

Recorded(ses) == {f \in FieldSet : ses[f].val # Nil}

\* SetupPristine*: the first value of a field that was recorded before is kept.
SetupPristine(ses, f) ==
    IF ~TransferSessionState \/ ses[f].pri # Nil THEN ses
    ELSE [ses EXCEPT ![f].pri = ses[f].val]

\* Set*: the value the application's statement sets.
SetValue(ses, f, v) ==
    IF TransferSessionState THEN [ses EXCEPT ![f].val = v] ELSE ses

\* Begin: the copy the transfer works from, which has the values and not the
\* pristine values.
Copy(ses) == [f \in FieldSet |-> [val |-> ses[f].val, pri |-> Nil]]

CanRestorePristine(field) ==
    field.pri # Nil /\ (field.val # Nil => field.val # field.pri)

(***************************************************************************)
(* ApplyCurrentSessionState: the recorded fields are replayed in order;    *)
(* the statement of field bad fails and ends the transfer (bad = Nil: none *)
(* does).  The result is the session, whose pristine values restart from   *)
(* the recorded ones, and the settings of the new connection.              *)
(***************************************************************************)
ReplayedOnSession(ses, bad) ==
    [f \in FieldSet |->
        IF /\ TransferSessionState /\ f \in Recorded(ses)
           /\ bad = Nil \/ f = bad \/ Before(f, bad)
        THEN [ses[f] EXCEPT !.pri = ses[f].val] ELSE ses[f]]

ReplayedOnServer(ses, settings, bad) ==
    [f \in FieldSet |->
        IF /\ TransferSessionState /\ f \in Recorded(ses)
           /\ bad = Nil \/ Before(f, bad)
        THEN ses[f].val ELSE settings[f]]

\* The fields whose replay can fail, Nil for no failure.
ReplayFailures(ses) ==
    {Nil} \cup IF TransferSessionState THEN Recorded(ses) ELSE {}

\* ApplyPristineSessionState: the settings of a connection that is left behind.
RestoredOnServer(copy, settings) ==
    [f \in FieldSet |->
        IF ResetSessionState /\ CanRestorePristine(copy[f])
        THEN copy[f].pri ELSE settings[f]]

=============================================================================
