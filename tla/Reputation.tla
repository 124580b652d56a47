----------------------------- MODULE Reputation -----------------------------
(***************************************************************************)
(* What the blacklist promises its callers: one score per address that     *)
(* outlives the process, and three operations on it, each of which takes   *)
(* effect once, at one moment between its call and its return.  A crash    *)
(* ends every call in progress and no score; a call it ends has either     *)
(* taken effect or not.  A process that fails to read some scores when it  *)
(* starts takes those addresses for new until it ends, and rates none of   *)
(* them.  Blacklist.tla is shown to implement it.                          *)
(***************************************************************************)
EXTENDS Integers

CONSTANTS Callers,              \* the threads that call
          Addrs,                \* client addresses
          NoScore,              \* the score of an address never rated
          Nothing,              \* no call, or no answer
          blacklist_threshold

VARIABLES score,    \* what the database holds
          unread,   \* the addresses whose score this process has not read
          call,     \* each caller's call, or Nothing
          answer    \* its answer once it took effect, or Nothing

repVars == <<score, unread, call, answer>>

Calls == [op : {"listed", "score", "update"}, addr : Addrs, good : BOOLEAN]

\* The score of an address after one more request of it.
Rated(s, good) ==
  LET by == IF good THEN 1 ELSE -1
  IN  IF s = NoScore THEN by ELSE s + by

\* is_ipaddr_blacklisted of a score.
Listed(s) == s # NoScore /\ s < blacklist_threshold

\* update_ip_addr_stats answers whether the address is good for now.  At the
\* threshold it says no and Listed says no too, against the comment on it
\* (FalseMeansListed in Blacklist.tla): both are here as the code has them.
GoodForNow(s) == s > blacklist_threshold

\* The score of an address as this process knows it.
Known(a) == IF a \in unread THEN NoScore ELSE score[a]

Init ==
  /\ score = [a \in Addrs |-> NoScore]
  /\ unread = {}
  /\ call = [t \in Callers |-> Nothing]
  /\ answer = [t \in Callers |-> Nothing]

Call(t, c) ==
  /\ call[t] = Nothing
  /\ call' = [call EXCEPT ![t] = c]
  /\ UNCHANGED <<score, unread, answer>>

\* A lookup takes effect.
Look(t) ==
  /\ call[t] # Nothing /\ answer[t] = Nothing
  /\ LET s == Known(call[t].addr) IN
       \/ call[t].op = "listed" /\ answer' = [answer EXCEPT ![t] = Listed(s)]
       \/ call[t].op = "score" /\ answer' = [answer EXCEPT ![t] = s]
  /\ UNCHANGED <<score, unread, call>>

\* An update takes effect.
Update(t) ==
  /\ call[t] # Nothing /\ answer[t] = Nothing
  /\ call[t].op = "update" /\ call[t].addr \notin unread
  /\ LET s == Rated(score[call[t].addr], call[t].good) IN
       /\ score' = [score EXCEPT ![call[t].addr] = s]
       /\ answer' = [answer EXCEPT ![t] = GoodForNow(s)]
  /\ UNCHANGED <<unread, call>>

Return(t) ==
  /\ answer[t] # Nothing
  /\ call' = [call EXCEPT ![t] = Nothing]
  /\ answer' = [answer EXCEPT ![t] = Nothing]
  /\ UNCHANGED <<score, unread>>

\* A process ends and the next one reads the scores, or some of them.
Restart ==
  /\ call' = [t \in Callers |-> Nothing]
  /\ answer' = [t \in Callers |-> Nothing]
  /\ unread' \in SUBSET Addrs
  /\ UNCHANGED score

Next ==
  \/ \E t \in Callers :
       (\E c \in Calls : Call(t, c)) \/ Look(t) \/ Update(t) \/ Return(t)
  \/ Restart

Spec == Init /\ [][Next]_repVars
=============================================================================
