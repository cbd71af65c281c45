----------------------------- MODULE MCReadPath -----------------------------
(***************************************************************************)
(* ReadPath for TLC.  The query asks for key 1 in [1, 3).  Between them    *)
(* the memtables have: rows out of order, rows equal in key and timestamp, *)
(* another key, timestamps at both ends of the range, empty payloads and   *)
(* payloads of different lengths.                                          *)
(***************************************************************************)
EXTENDS ReadPath

Row(k, t, p) == [keyHash |-> k, timestamp |-> t, payload |-> p]

MCBatches ==
    {<<Row(1, 2, <<7>>), Row(1, 1, <<>>)>>,
     <<Row(2, 1, <<5>>), Row(1, 3, <<4>>), Row(1, 1, <<8, 9>>), Row(1, 0, <<>>)>>,
     <<Row(2, 2, <<>>), Row(2, 2, <<6>>)>>}

\* zstd frames of short inputs are a few bytes longer than the input.
MCZstdLen(n) == n + 9
=============================================================================
