---------------------------- MODULE StatusCounter ----------------------------
(***************************************************************************)
(* probe/status_counter.go: the last maxLen outcomes of a prober and the   *)
(* number of trailing equal ones, which CheckStatusThreshold compares with *)
(* the thresholds.  The messages of the history are left out.              *)
(***************************************************************************)
EXTENDS Integers, Sequences

StatusCounterData ==
  [history : Seq(BOOLEAN), maxLen : Nat \ {0}, current : BOOLEAN, count : Nat]

NewStatusCounter(maxLen) ==
  [history |-> << >>, maxLen |-> maxLen, current |-> TRUE, count |-> 0]

\* Mutant: a changed outcome does not restart the count.
AppendStatusNoRestart(s, status) ==
  LET count == IF s.count < s.maxLen THEN s.count + 1 ELSE s.count
      full  == Append(s.history, status)
  IN  [s EXCEPT !.current = status, !.count = count,
                !.history = IF Len(full) > s.maxLen THEN Tail(full) ELSE full]

\* One outcome: a change restarts the count, the count stops at maxLen, and
\* the oldest outcome gives way once the history is longer than maxLen.
AppendStatus(s, status) ==
  LET run   == IF status # s.current THEN 0 ELSE s.count
      count == IF run < s.maxLen THEN run + 1 ELSE run
      full  == Append(s.history, status)
  IN  [s EXCEPT !.current = status, !.count = count,
                !.history = IF Len(full) > s.maxLen THEN Tail(full) ELSE full]

\* Mutant: the oldest outcomes are kept instead of the newest.
SetMaxLenKeepsOldest(s, maxLen) ==
  [s EXCEPT !.maxLen = maxLen,
            !.history = IF Len(s.history) > maxLen
                        THEN SubSeq(s.history, 1, maxLen) ELSE s.history]

\* A new length keeps the newest outcomes; the count is left as it is, even
\* when it is larger than the new length.
SetMaxLen(s, maxLen) ==
  [s EXCEPT !.maxLen = maxLen,
            !.history =
              IF Len(s.history) > maxLen
              THEN SubSeq(s.history, Len(s.history) - maxLen + 1, Len(s.history))
              ELSE s.history]

-----------------------------------------------------------------------------
(***************************************************************************)
(* What a counter promises: the newest `count' outcomes are the current    *)
(* one, the outcome before them differs, and no more than maxLen are kept. *)
(***************************************************************************)
MatchesHistory(c) ==
  /\ Len(c.history) <= c.maxLen
  /\ \A i \in 1 .. Len(c.history) :
       i > Len(c.history) - c.count => c.history[i] = c.current
  /\ 0 < c.count /\ c.count < Len(c.history) =>
       c.history[Len(c.history) - c.count] # c.current
=============================================================================
