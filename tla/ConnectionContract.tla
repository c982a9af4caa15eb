------------------------- MODULE ConnectionContract -------------------------
(***************************************************************************)
(* What one wrapper connection promises an application that uses           *)
(* transactions: the session behind it may be replaced, but never under an *)
(* open transaction without the answer saying so.                          *)
(***************************************************************************)
CONSTANT Nil        \* no session, no transaction

VARIABLES
    session,        \* the session that serves the connection
    bound,          \* the session of the transaction the application counts on
    answer          \* what the last call returned

\* The answers that tell the application its transaction may be gone.  "transfer", the
\* error of a setting that could not be replayed on the new session, is the weak one:
\* the application cannot tell it from an error of its own statement.
Told == {"unknown", "failed", "transfer"}

ContractInit == session = Nil /\ bound = Nil /\ answer = "none"

\* Outside a transaction the session may be opened, replaced or closed at any time;
\* a transaction begins on the session that serves the call that opens it.
Free ==
    /\ bound = Nil
    /\ bound' # Nil => bound' = session' /\ answer' = "ok"

\* A transaction goes on in its own session.
Continue ==
    /\ bound # Nil /\ bound' = bound
    /\ session' = session /\ session = bound

\* It ends in its own session, with the connection, or by an answer that says so.
End ==
    /\ bound # Nil /\ bound' = Nil
    /\ session' \in {session, Nil} \/ answer' \in Told

ContractNext == Free \/ Continue \/ End

Contract == ContractInit /\ [][ContractNext]_<<session, bound, answer>>

=============================================================================
