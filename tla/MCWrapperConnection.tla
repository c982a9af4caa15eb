------------------------- MODULE MCWrapperConnection -------------------------
(* Small instances of WrapperConnection for TLC. *)
EXTENDS WrapperConnection, TLC

CONSTANTS h1, h2, h3

MCHosts == {h1, h2, h3}
MCHome == {h1, h2}
MCFields == <<"readOnly">>

Cfg(k, m, w, s, i, M, O) ==
    [kind |-> k, mode |-> m, away |-> w, split |-> s, initial |-> i,
     members |-> M, ops |-> O]

Tx == {"exec", "begin", "commit"}

All == {"exec", "begin", "rollback", "prepare", "stmt", "reset"}

MCAllowed == {h1, h2}

MCConfigs ==
    {Cfg("rds", "strict-writer", "strict-writer", TRUE, h1, {h1, h2}, Tx),
     Cfg("rds", "strict-reader", "strict-writer", FALSE, h2, {h1, h2, h3}, Tx),
     Cfg("gdb", "strict-writer", "strict-home-reader", FALSE, h1, {h1, h2, h3}, Tx),
     Cfg("gdb", "home-reader-or-writer", "strict-any-reader", FALSE, h2, {h1, h2, h3}, All),
     Cfg("gdb", "home-reader-or-writer", "strict-any-reader", TRUE, h1, {h1, h3}, Tx)}

MCOneConfig == {Cfg("rds", "strict-writer", "strict-writer", FALSE, h1, {h1, h2}, Tx)}

=============================================================================
