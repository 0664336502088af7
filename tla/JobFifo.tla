-------------------------------- MODULE JobFifo --------------------------------
(***************************************************************************)
(* What a job queue promises, whatever locks and condition variables it is *)
(* made of: jobs form one line.  A call adds a block of jobs nobody has    *)
(* seen before at the back, in one step; jobs leave from the front only,   *)
(* in the order they stand in; none is lost, repeated or overtaken.        *)
(***************************************************************************)
EXTENDS Integers, Sequences

CONSTANT MaxBatch

VARIABLES
    line,   \* the jobs in the queue, oldest first
    out     \* the jobs that have left it, in order

Seen == {line[i] : i \in DOMAIN line} \cup {out[i] : i \in DOMAIN out}

Init == line = <<>> /\ out = <<>>

\* The jobs behind the old line are new to the queue and differ from each other.
Put ==
    /\ out' = out
    /\ Len(line') \in Len(line) + 1 .. Len(line) + MaxBatch
    /\ SubSeq(line', 1, Len(line)) = line
    /\ \A i \in Len(line) + 1 .. Len(line') :
          /\ line'[i] \notin Seen
          /\ \A k \in Len(line) + 1 .. i - 1 : line'[k] # line'[i]

Take ==
    \E n \in 1..Len(line) :
        /\ out' = out \o SubSeq(line, 1, n)
        /\ line' = SubSeq(line, n + 1, Len(line))

Next == Put \/ Take

Spec == Init /\ [][Next]_<<line, out>>
================================================================================
