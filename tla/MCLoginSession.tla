---------------------------- MODULE MCLoginSession ----------------------------
(***************************************************************************)
(* Small instances of LoginSession.                                        *)
(***************************************************************************)
EXTENDS LoginSession

CONSTANTS c1, c2,          \* two WebSocket connections
          good, bad, nobroker \* an account that works, one CTP refuses, one
                              \* whose broker is not configured
=============================================================================
