----------------------------- MODULE MCDelivery -----------------------------
(***************************************************************************)
(* Delivery on small instances.  The limits are Graph's, in quarters of a  *)
(* MiB: 4 MiB a request, 2.25 MiB of scan in a sendMail, 3 MiB the least   *)
(* for an upload session and 3.75 MiB a chunk.                             *)
(***************************************************************************)
EXTENDS Delivery, TLC

\* A notice; a scan that fits; one that only the composed message shows to be
\* too large; one between the limits; one in a single chunk, one in two; two
\* small scans that are large together; and a large one with a small one.
Shapes == {<< >>, <<8>>, <<9>>, <<11>>, <<12>>, <<16>>, <<5, 5>>, <<16, 1>>,
           <<1>>, <<1, 1>>}

\* Searchable, two small scans together are too large for one request.
Plain == {<<1>>, <<1, 1>>}
Searchable == {8}

\* Nothing; a negative, a zero; what comes close to overflowing a duration, and
\* what does; a date that has passed.
RetryHeaders == {NoHeader,
                 [kind |-> "seconds", value |-> -1],
                 [kind |-> "seconds", value |-> 0],
                 [kind |-> "seconds", value |-> 63],
                 [kind |-> "seconds", value |-> 64],
                 [kind |-> "date", value |-> -5]}
=============================================================================
