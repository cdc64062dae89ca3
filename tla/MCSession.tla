----------------------------- MODULE MCSession -----------------------------
(* Three requests that may wait, which can take all the threads of a pool  *)
(* of three, and two that connect, of which one fails.                     *)
EXTENDS Session, TLC

CONSTANTS bp, up, read, con, bad

MCRequests == {bp, up, read, con, bad}

MCKind ==
    bp :> "breakpoint" @@ up :> "update" @@ read :> "read"
    @@ con :> "connect" @@ bad :> "broken"
=============================================================================
