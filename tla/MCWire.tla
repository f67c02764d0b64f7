------------------------------- MODULE MCWire -------------------------------
(***************************************************************************)
(* Wire with short digests and low limits, so that each of the limits can  *)
(* be met and be passed.                                                   *)
(***************************************************************************)
EXTENDS Wire

MCHeader == <<7, 1>>
Digest == [i \in 1..DigestSize |-> 5]
Zeros(n) == [i \in 1..n |-> 0]

(* A stream that was not captured, one of which n bytes were counted, and   *)
(* one of which they were kept.                                             *)
NoStream == [i \in 1..5 |-> IF i = 1 THEN <<0>> ELSE <<>>]
Observed(n) == <<<<1>>, Append(Zeros(7), n), Digest, <<0>>, <<>>>>
Kept(n) == <<<<1>>, Append(Zeros(7), n), Digest, <<1>>, [i \in 1..n |-> 9]>>

(* Not started; ended by a signal; stopped by a limit, which failed. *)
NotStarted == <<<<0>>, <<0>>, <<>>, <<0>>, <<>>, <<>>, <<>>, <<>>, <<>>>>
Signaled ==
  <<<<1>>, <<1>>, Digest, <<1>>, <<1>>, <<1>>, <<0, 0, 0, 9>>, <<0>>, <<>>>>
Limited == <<<<1>>, <<1>>, Digest, <<1>>, <<3>>, <<0>>, <<>>, <<1>>, <<4>>>>

Ends ==
  {[process |-> NotStarted, failure |-> <<<<1>>, <<2>>>>],
   [process |-> Signaled, failure |-> <<<<0>>, <<>>>>],
   [process |-> Limited, failure |-> <<<<1>>, <<11>>>>]}

(* The last two are beyond a limit. *)
Reports ==
  {[list |-> <<>>, diagnostic |-> 0], [list |-> <<0, 17>>, diagnostic |-> 2],
   [list |-> <<0, 1, 17>>, diagnostic |-> 0], [list |-> <<>>, diagnostic |-> 3]}

ResultRecords ==
  {<<MCHeader, Digest, Digest, Digest, <<1>>>> \o end.process \o out \o err
     \o <<report.list, <<2>>>> \o end.failure \o <<Zeros(report.diagnostic)>> :
     end \in Ends, report \in Reports,
     out \in {NoStream, Observed(1), Kept(2)},
     err \in {NoStream, Kept(0), Kept(1)}}
=============================================================================
