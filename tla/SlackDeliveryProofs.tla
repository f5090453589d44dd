------------------------- MODULE SlackDeliveryProofs -------------------------
(***************************************************************************)
(* Proofs about SlackDelivery, for any relays, failures, lost leases and   *)
(* requests that land late.                                                *)
(*                                                                         *)
(* What keeps two relays apart is the claim of the row, of which at most   *)
(* one is live (OneLiveClaim), and what keeps a relay and the handler      *)
(* apart is the grace of a young row (GraceOfTheReply).  What keeps one    *)
(* message from being posted twice is the search before a post, which      *)
(* finds whatever was posted (SearchFinds); the one post without a search  *)
(* is that of a young row that is no run's reply, and such a row is        *)
(* claimed once (OneClaimInTheGrace).                                      *)
(***************************************************************************)
EXTENDS SlackDelivery, TLAPS, FiniteSetTheorems

Rows ==
    [state : {"none", "pending", "expired", "delivered"}, claimed : BOOLEAN,
     age : {"young", "old", "overaged"}]

Messages == [posted : Nat, found : Nat, stray : Nat]

Memory ==
    [mine : BOOLEAN, again : BOOLEAN, lost : BOOLEAN, failures : Nat, posted : BOOLEAN,
     dead : BOOLEAN]

Places ==
    {"out", "expire", "claim", "leave", "done", "check", "verify", "unsure", "idle", "post",
     "sent", "limited", "ack"}

DeliveryTypeOK ==
    /\ home \in Home \cup {"none"}
    /\ row \in Rows
    /\ slack \in Messages
    /\ pc \in [Senders -> Places]
    /\ relay \in [Relays -> Memory]
    /\ enqueues \in Nat

\* A row has at most one live claim, and a row that is opened anew has none.
OneLiveClaim ==
    /\ \A r \in Relays : relay[r].mine => row.claimed /\ row.state \in {"pending", "delivered"}
    /\ \A r, t \in Relays : relay[r].mine /\ relay[t].mine => r = t
    /\ row.state = "none" => ~row.claimed /\ row.age = "young"

\* A relay delivers the reply of a run only after its grace, which starts once.
GraceOfTheReply ==
    /\ \A r \in Relays : pc[r] # "idle"
    /\ ~run => pc["handler"] = "done"
    /\ row.state \in {"pending", "expired"} => enqueues > 0
    /\ run => \A r \in Relays : Delivering(r) /\ pc[r] \notin {"check", "ack"}
                                    => row.age # "young"

ClaimInv == DeliveryTypeOK /\ OneLiveClaim /\ GraceOfTheReply

\* While the handler has still to come, what was posted or is on its way was sent by a
\* relay, after the grace.
LateReply ==
    /\ pc["handler"] = "idle" /\ (slack.posted > 0 \/ slack.stray > 0) => row.age # "young"
    /\ late => run /\ row.age # "young"

\* A search finds whatever was posted, and once something was nobody is about to post
\* and no request is under way.
SearchFinds ==
    ~overlap /\ ~late =>
        /\ slack.found = slack.posted /\ slack.posted <= 1
        /\ slack.posted > 0 => slack.stray = 0 /\ \A s \in Senders : ~Posting(s)

\* Within its grace a row that is no run's reply is claimed once: whoever comes to deliver
\* it is the only one, and the first.
OneClaimInTheGrace ==
    (~overlap /\ ~run /\ row.age = "young") =>
        /\ ~row.claimed => /\ slack.posted = 0 /\ slack.stray = 0
                           /\ \A r \in Relays : ~Delivering(r)
        /\ \A r, t \in Relays : Delivering(r) /\ Delivering(t) => r = t
        /\ \A r \in Relays : pc[r] = "check" => slack.posted = 0 /\ slack.stray = 0

PostInv == SearchFinds /\ OneClaimInTheGrace

-----------------------------------------------------------------------------
(* Types, and what a step leaves of the claims                             *)

\* What a relay remembers of a failure is not its claim.
LEMMA FailedKeepsTheClaim ==
    ASSUME NEW m \in Memory
    PROVE  Failed(m) \in Memory /\ (Failed(m).mine => m.mine)
<1>1. MaxAttempts \in Nat
  BY DeliveryAssumption
<1>2. CASE m.failures + 1 >= MaxAttempts
  BY <1>2 DEF Failed, Memory
<1>3. CASE ~(m.failures + 1 >= MaxAttempts)
  BY <1>3 DEF Failed, Memory
<1> QED BY <1>2, <1>3

\* markPosted leaves the claim.
LEMMA PostedIsNoClaim ==
    ASSUME NEW m \in Memory
    PROVE  [m EXCEPT !.posted = TRUE] \in Memory /\ [m EXCEPT !.posted = TRUE].mine = m.mine
BY DEF Memory

\* A failed delivery leaves the claims.
LEMMA FailsKeepsTheClaims ==
    ASSUME DeliveryTypeOK, NEW s \in Senders, Fails(s)
    PROVE  /\ relay' \in [Relays -> Memory]
           /\ \A r \in Relays : relay'[r].mine => relay[r].mine
           /\ Goes(s, IF s \in Relays THEN "leave" ELSE "done")
<1>1. CASE s \in Relays
  <2>1. relay' = [relay EXCEPT ![s] = Failed(relay[s])] /\ Goes(s, "leave")
    BY <1>1 DEF Fails
  <2>2. Failed(relay[s]) \in Memory /\ (Failed(relay[s]).mine => relay[s].mine)
    BY <1>1, FailedKeepsTheClaim DEF DeliveryTypeOK
  <2> QED BY <1>1, <2>1, <2>2 DEF DeliveryTypeOK
<1>2. CASE s \notin Relays
  BY <1>2 DEF Fails, DeliveryTypeOK
<1> QED BY <1>1, <1>2

\* So does one that succeeded.
LEMMA SucceedsKeepsTheClaims ==
    ASSUME DeliveryTypeOK, NEW s \in Senders, Succeeds(s)
    PROVE  /\ relay' \in [Relays -> Memory]
           /\ \A r \in Relays : relay'[r].mine => relay[r].mine
           /\ Goes(s, "ack")
<1>1. CASE s \in Relays
  <2> DEFINE m == [relay[s] EXCEPT !.posted = TRUE]
  <2>1. relay' = [relay EXCEPT ![s] = m] /\ Goes(s, "ack")
    BY <1>1 DEF Succeeds
  <2>2. relay[s] \in Memory
    BY <1>1 DEF DeliveryTypeOK
  <2>3. m \in Memory /\ m.mine = relay[s].mine
    BY <2>2, PostedIsNoClaim
  <2> HIDE DEF m
  <2> QED BY <1>1, <2>1, <2>3 DEF DeliveryTypeOK
<1>2. CASE s \notin Relays
  BY <1>2 DEF Succeeds, DeliveryTypeOK
<1> QED BY <1>1, <1>2

\* A step of postWithVerify: where it leads, and that it leaves the row alone.
LEMMA SenderEffect ==
    ASSUME DeliveryTypeOK, NEW s \in Senders, SenderStep(s)
    PROVE  /\ relay' \in [Relays -> Memory]
           /\ \A r \in Relays : relay'[r].mine => relay[r].mine
           /\ UNCHANGED <<home, row, leader, enqueues>>
           /\ pc[s] \in {"verify", "unsure", "limited", "post", "sent"}
           /\ \E w \in {"ack", "post", "leave", "done", "sent", "unsure", "limited"} :
                  Goes(s, w) /\ (w = "leave" => s \in Relays) /\ (w = "done" => s \notin Relays)
<1>1. CASE Verifies(s)
  <2>1. CASE Succeeds(s)
    BY <1>1, <2>1, SucceedsKeepsTheClaims DEF Verifies
  <2>2. CASE Goes(s, "post") /\ UNCHANGED relay
    BY <1>1, <2>2 DEF Verifies, DeliveryTypeOK
  <2>3. CASE Fails(s)
    BY <1>1, <2>3, FailsKeepsTheClaims DEF Verifies
  <2> QED BY <1>1, <2>1, <2>2, <2>3 DEF Verifies
<1>2. CASE Posts(s) \/ TimesOut(s)
  BY <1>2 DEF Posts, TimesOut, DeliveryTypeOK
<1>3. CASE Lands(s)
  <2>1. CASE Succeeds(s)
    BY <1>3, <2>1, SucceedsKeepsTheClaims DEF Lands
  <2>2. CASE Goes(s, "unsure") /\ UNCHANGED relay
    BY <1>3, <2>2 DEF Lands, DeliveryTypeOK
  <2> QED BY <1>3, <2>1, <2>2 DEF Lands
<1>4. CASE Refused(s)
  <2>1. CASE Fails(s)
    BY <1>4, <2>1, FailsKeepsTheClaims DEF Refused
  <2>2. CASE Goes(s, "limited") /\ UNCHANGED relay
    BY <1>4, <2>2 DEF Refused, DeliveryTypeOK
  <2> QED BY <1>4, <2>1, <2>2 DEF Refused
<1> QED BY <1>1, <1>2, <1>3, <1>4 DEF SenderStep

\* A crash: the requests of those that are gone become strays.
LEMMA CrashEffect ==
    ASSUME DeliveryTypeOK, NEW r \in Relays, Crashes(r)
    PROVE  /\ relay' = [relay EXCEPT ![r] = NoMemory]
           /\ UNCHANGED <<home, row, overlap, enqueues>>
           /\ slack' \in Messages
           /\ slack'.posted = slack.posted /\ slack'.found = slack.found
           /\ (\A s \in Senders : pc[s] # "sent") => slack'.stray = slack.stray
           /\ pc' \in [Senders -> {"out", "done"} \cup {pc[s] : s \in Senders}]
           /\ \A s \in Senders : pc'[s] \in {"out", "done", pc[s]}
           /\ pc'[r] = "out" /\ (pc["handler"] = "done" => pc'["handler"] = "done")
           /\ \A s \in Relays \ {r} : pc'[s] = pc[s]
<1> DEFINE gone == {r} \cup (IF Pinned(r) THEN {"handler"} ELSE {})
           lost == {s \in gone : pc[s] = "sent"}
<1>1. /\ pc' = [s \in Senders |-> IF s = r THEN "out" ELSE IF s \in gone THEN "done" ELSE pc[s]]
      /\ slack' = [slack EXCEPT !.stray = @ + Cardinality(lost)]
      /\ relay' = [relay EXCEPT ![r] = NoMemory]
      /\ UNCHANGED <<home, row, overlap, enqueues>>
  BY DEF Crashes
<1>2. r \in Senders /\ "handler" \in Senders /\ r # "handler" /\ "handler" \notin Relays
  BY DeliveryAssumption DEF Senders
<1>3. lost \subseteq {r, "handler"} /\ gone \subseteq {r, "handler"}
  OBVIOUS
<1>4. IsFiniteSet({r, "handler"})
  <2>1. {r, "handler"} = {r} \cup {"handler"}
    OBVIOUS
  <2>2. IsFiniteSet({r})
    BY FS_Singleton
  <2> QED BY <2>1, <2>2, FS_AddElement
<1>5. Cardinality(lost) \in Nat
  BY <1>3, <1>4, FS_Subset, FS_CardinalityType
<1>6. (\A s \in Senders : pc[s] # "sent") => Cardinality(lost) = 0
  <2>1. ASSUME \A s \in Senders : pc[s] # "sent" PROVE lost = {}
    BY <1>2, <1>3, <2>1
  <2> QED BY <2>1, FS_EmptySet
<1> HIDE DEF lost, gone
<1>7. /\ slack' \in Messages
      /\ slack'.posted = slack.posted /\ slack'.found = slack.found
      /\ (\A s \in Senders : pc[s] # "sent") => slack'.stray = slack.stray
  BY <1>1, <1>5, <1>6 DEF DeliveryTypeOK, Messages
<1>8. /\ pc' \in [Senders -> {"out", "done"} \cup {pc[s] : s \in Senders}]
      /\ \A s \in Senders : pc'[s] \in {"out", "done", pc[s]}
  BY <1>1
<1>9. /\ pc'[r] = "out" /\ (pc["handler"] = "done" => pc'["handler"] = "done")
      /\ \A s \in Relays \ {r} : pc'[s] = pc[s]
  BY <1>1, <1>2, <1>3 DEF Senders
<1> QED BY <1>1, <1>7, <1>8, <1>9

\* What a relay's memory may become, field by field.
LEMMA MemoryFields ==
    ASSUME NEW m \in Memory, NEW b \in BOOLEAN
    PROVE  /\ [m EXCEPT !.mine = b] \in Memory /\ [m EXCEPT !.mine = b].mine = b
           /\ [m EXCEPT !.again = b] \in Memory /\ [m EXCEPT !.again = b].mine = m.mine
           /\ [m EXCEPT !.lost = b] \in Memory /\ [m EXCEPT !.lost = b].mine = m.mine
           /\ [m EXCEPT !.dead = b] \in Memory /\ [m EXCEPT !.dead = b].mine = m.mine
           /\ [m EXCEPT !.failures = 0, !.posted = FALSE, !.dead = FALSE] \in Memory
           /\ [m EXCEPT !.failures = 0, !.posted = FALSE, !.dead = FALSE].mine = m.mine
           /\ NoMemory \in Memory /\ NoMemory.mine = FALSE
<1>1. [m EXCEPT !.mine = b] \in Memory /\ [m EXCEPT !.mine = b].mine = b
  BY DEF Memory
<1>2. [m EXCEPT !.again = b] \in Memory /\ [m EXCEPT !.again = b].mine = m.mine
  BY DEF Memory
<1>3. [m EXCEPT !.lost = b] \in Memory /\ [m EXCEPT !.lost = b].mine = m.mine
  BY DEF Memory
<1>4. [m EXCEPT !.dead = b] \in Memory /\ [m EXCEPT !.dead = b].mine = m.mine
  BY DEF Memory
<1>5. /\ [m EXCEPT !.failures = 0, !.posted = FALSE, !.dead = FALSE] \in Memory
      /\ [m EXCEPT !.failures = 0, !.posted = FALSE, !.dead = FALSE].mine = m.mine
  BY DEF Memory
<1>6. NoMemory \in Memory /\ NoMemory.mine = FALSE
  BY DEF Memory, NoMemory
<1> QED BY <1>1, <1>2, <1>3, <1>4, <1>5, <1>6

\* What a relay does to its memory, its claim apart.
LEMMA RelayMemory ==
    ASSUME DeliveryTypeOK, NEW r \in Relays,
           Leaves(r) \/ LossNoticed(r) \/ Dispatches(r) \/ GiveUpExpires(r) \/ RelayAcks(r)
    PROVE  /\ relay' \in [Relays -> Memory]
           /\ \A t \in Relays : relay'[t].mine => relay[t].mine
<1> SUFFICES \E m \in Memory : relay' = [relay EXCEPT ![r] = m] /\ (m.mine => relay[r].mine)
  BY DEF DeliveryTypeOK
<1>1. relay[r] \in Memory
  BY DEF DeliveryTypeOK
<1>2. CASE Leaves(r)
  <2> DEFINE m1 == [relay[r] EXCEPT !.lost = FALSE]
             m2 == [m1 EXCEPT !.mine = FALSE]
             m3 == [m2 EXCEPT !.again = FALSE]
  <2>1. relay' = [relay EXCEPT ![r].lost = FALSE, ![r].mine = FALSE, ![r].again = FALSE]
    BY <1>2 DEF Leaves
  <2>2. relay' = [relay EXCEPT ![r] = m3]
    BY <2>1 DEF DeliveryTypeOK
  <2>3. m1 \in Memory
    BY <1>1, MemoryFields
  <2> HIDE DEF m1
  <2>4. m2 \in Memory /\ m2.mine = FALSE
    BY <2>3, MemoryFields
  <2> HIDE DEF m2
  <2>5. m3 \in Memory /\ m3.mine = FALSE
    BY <2>4, MemoryFields
  <2> HIDE DEF m3
  <2> QED BY <2>2, <2>5
<1>3. CASE LossNoticed(r)
  <2> DEFINE m == [relay[r] EXCEPT !.lost = TRUE]
  <2>1. relay' = [relay EXCEPT ![r] = m]
    BY <1>3 DEF LossNoticed
  <2>2. m \in Memory /\ m.mine = relay[r].mine
    BY <1>1, MemoryFields
  <2> HIDE DEF m
  <2> QED BY <2>1, <2>2
<1>4. CASE Dispatches(r)
  <2> DEFINE b == relay[r].again \/ (~relay[r].mine /\ ~relay[r].again)
             m == [relay[r] EXCEPT !.again = b]
  <2>1. relay' = [relay EXCEPT ![r] = m]
    BY <1>4 DEF Dispatches
  <2>2. b \in BOOLEAN
    OBVIOUS
  <2> HIDE DEF b
  <2>3. m \in Memory /\ m.mine = relay[r].mine
    BY <1>1, <2>2, MemoryFields
  <2> HIDE DEF m
  <2> QED BY <2>1, <2>3
<1>5. CASE GiveUpExpires(r)
  <2> DEFINE m == [relay[r] EXCEPT !.dead = FALSE]
  <2>1. relay' = [relay EXCEPT ![r] = m]
    BY <1>5 DEF GiveUpExpires
  <2>2. m \in Memory /\ m.mine = relay[r].mine
    BY <1>1, MemoryFields
  <2> HIDE DEF m
  <2> QED BY <2>1, <2>2
<1>6. CASE RelayAcks(r)
  <2> DEFINE m == [relay[r] EXCEPT !.failures = 0, !.posted = FALSE, !.dead = FALSE]
  <2>1. relay' = [relay EXCEPT ![r] = m] \/ relay' = [relay EXCEPT ![r] = Failed(relay[r])]
    BY <1>6 DEF RelayAcks
  <2>2. m \in Memory /\ m.mine = relay[r].mine
    BY <1>1, MemoryFields
  <2>3. Failed(relay[r]) \in Memory /\ (Failed(relay[r]).mine => relay[r].mine)
    BY <1>1, FailedKeepsTheClaim
  <2> HIDE DEF m
  <2> QED BY <2>1, <2>2, <2>3
<1> QED BY <1>2, <1>3, <1>4, <1>5, <1>6

\* Only a row that nobody claims is claimed, and then it is.
LEMMA ClaimEffect ==
    ASSUME DeliveryTypeOK, NEW r \in Relays, claimPending(r)
    PROVE  /\ relay' \in [Relays -> Memory]
           /\ row' \in Rows /\ row'.state = row.state /\ row'.age = row.age
           /\ row.claimed => row'.claimed
           /\ row.state = "none" => (row'.claimed => row.claimed)
           /\ \A t \in Relays :
                relay'[t].mine => relay[t].mine \/ (t = r /\ Claimable /\ row'.claimed)
           /\ UNCHANGED <<home, slack, overlap, enqueues>>
           /\ \E w \in {"check", "leave"} : Goes(r, w) /\ (w = "check" => Claimable /\ row'.claimed)
<1> DEFINE claimed == [row EXCEPT !.claimed = @ \/ Claimable]
           m == [relay[r] EXCEPT !.mine = Claimable]
<1>1. row \in Rows /\ Claimable \in BOOLEAN /\ relay[r] \in Memory
  BY DEF DeliveryTypeOK, Claimable
<1>2. /\ claimed \in Rows /\ claimed.state = row.state /\ claimed.age = row.age
      /\ claimed.claimed <=> row.claimed \/ Claimable
  <2> DEFINE b == row.claimed \/ Claimable
  <2>1. b \in BOOLEAN /\ claimed = [row EXCEPT !.claimed = b]
    OBVIOUS
  <2> HIDE DEF b
  <2>2. /\ claimed \in Rows /\ claimed.state = row.state /\ claimed.age = row.age
        /\ claimed.claimed = b
    BY <1>1, <2>1 DEF Rows
  <2> QED BY <2>2 DEF b
<1>3. m \in Memory /\ m.mine = Claimable
  BY <1>1, MemoryFields
<1>4. \/ /\ row' = claimed /\ relay' = [relay EXCEPT ![r] = m]
         /\ Goes(r, IF Claimable THEN "check" ELSE "leave")
      \/ row' \in {row, claimed} /\ relay' = relay /\ Goes(r, "leave")
  BY DEF claimPending
<1>5. UNCHANGED <<home, slack, overlap, enqueues>>
  BY DEF claimPending
<1>6. Claimable => row.state = "pending"
  BY DEF Claimable
<1> HIDE DEF claimed, m
<1>7. CASE row' = claimed /\ relay' = [relay EXCEPT ![r] = m]
           /\ Goes(r, IF Claimable THEN "check" ELSE "leave")
  <2>1. relay' \in [Relays -> Memory] /\ relay'[r] = m
        /\ \A t \in Relays \ {r} : relay'[t] = relay[t]
    BY <1>3, <1>7 DEF DeliveryTypeOK
  <2>2. \A t \in Relays : relay'[t].mine => relay[t].mine \/ (t = r /\ Claimable /\ row'.claimed)
    BY <1>2, <1>3, <1>7, <2>1
  <2> QED BY <1>2, <1>5, <1>6, <1>7, <2>1, <2>2
<1>8. CASE row' \in {row, claimed} /\ relay' = relay /\ Goes(r, "leave")
  BY <1>1, <1>2, <1>5, <1>6, <1>8 DEF DeliveryTypeOK
<1> QED BY <1>4, <1>7, <1>8

\* The other changes of the row.
LEMMA RowFields ==
    ASSUME DeliveryTypeOK
    PROVE  /\ NewRow \in Rows /\ NewRow.state = "pending" /\ NewRow.age = "young" /\ ~NewRow.claimed
           /\ row \in Rows
           /\ \A w \in {"expired", "delivered"} :
                 LET changed == [row EXCEPT !.state = w] IN
                 changed \in Rows /\ changed.state = w /\ changed.age = row.age
                 /\ changed.claimed = row.claimed
           /\ \A w \in {"old", "overaged"} :
                 LET changed == [row EXCEPT !.age = w] IN
                 changed \in Rows /\ changed.state = row.state /\ changed.age = w
                 /\ changed.claimed = row.claimed
           /\ LET changed == [row EXCEPT !.claimed = FALSE] IN
              changed \in Rows /\ changed.state = row.state /\ changed.age = row.age
              /\ ~changed.claimed
<1>1. NewRow \in Rows /\ NewRow.state = "pending" /\ NewRow.age = "young" /\ ~NewRow.claimed
  BY DEF NewRow, Rows
<1>2. row \in Rows
  BY DEF DeliveryTypeOK
<1> QED BY <1>1, <1>2 DEF Rows

\* What becomes of the messages and of the requests on their way.
LEMMA SlackFields ==
    ASSUME DeliveryTypeOK
    PROVE  /\ slack \in Messages
           /\ Landed \in Messages /\ Landed.posted = slack.posted + 1
           /\ Landed.found = slack.found + 1 /\ Landed.stray = slack.stray
           /\ LET behind == [slack EXCEPT !.stray = @ + 1] IN
              behind \in Messages /\ behind.posted = slack.posted /\ behind.found = slack.found
              /\ behind.stray = slack.stray + 1
           /\ LET hidden == [slack EXCEPT !.found = 0] IN
              hidden \in Messages /\ hidden.posted = slack.posted /\ hidden.found = 0
              /\ hidden.stray = slack.stray
           /\ slack.stray > 0 =>
                LET landed == [Landed EXCEPT !.stray = @ - 1]
                    lost == [slack EXCEPT !.stray = @ - 1] IN
                /\ landed \in Messages /\ landed.posted = slack.posted + 1
                /\ landed.found = slack.found + 1 /\ landed.stray = slack.stray - 1
                /\ lost \in Messages /\ lost.posted = slack.posted
                /\ lost.found = slack.found /\ lost.stray = slack.stray - 1
<1>1. slack \in Messages
  BY DEF DeliveryTypeOK
<1>2. /\ Landed \in Messages /\ Landed.posted = slack.posted + 1
      /\ Landed.found = slack.found + 1 /\ Landed.stray = slack.stray
  <2> DEFINE once == [slack EXCEPT !.posted = slack.posted + 1]
  <2>1. Landed = [once EXCEPT !.found = slack.found + 1]
    BY DEF Landed
  <2>2. once \in Messages /\ once.posted = slack.posted + 1 /\ once.stray = slack.stray
    BY <1>1 DEF Messages
  <2> HIDE DEF once
  <2>3. slack.found + 1 \in Nat
    BY <1>1 DEF Messages
  <2> QED BY <2>1, <2>2, <2>3 DEF Messages
<1>3. LET behind == [slack EXCEPT !.stray = @ + 1] IN
              behind \in Messages /\ behind.posted = slack.posted /\ behind.found = slack.found
              /\ behind.stray = slack.stray + 1
  BY <1>1 DEF Messages
<1>4. LET hidden == [slack EXCEPT !.found = 0] IN
              hidden \in Messages /\ hidden.posted = slack.posted /\ hidden.found = 0
              /\ hidden.stray = slack.stray
  BY <1>1 DEF Messages
<1>5. ASSUME slack.stray > 0
      PROVE  LET landed == [Landed EXCEPT !.stray = @ - 1] IN
             /\ landed \in Messages /\ landed.posted = slack.posted + 1
             /\ landed.found = slack.found + 1 /\ landed.stray = slack.stray - 1
  BY <1>1, <1>2, <1>5 DEF Messages
<1>6. ASSUME slack.stray > 0
      PROVE  LET lost == [slack EXCEPT !.stray = @ - 1] IN
             /\ lost \in Messages /\ lost.posted = slack.posted
             /\ lost.found = slack.found /\ lost.stray = slack.stray - 1
  BY <1>1, <1>6 DEF Messages
<1> QED BY <1>1, <1>2, <1>3, <1>4, <1>5, <1>6

\* Every step keeps the types.
LEMMA DeliveryTypeStep ==
    ASSUME ClaimInv, [Next]_vars
    PROVE  DeliveryTypeOK'
<1> USE DEF ClaimInv
<1>a. "handler" \in Senders /\ Relays \subseteq Senders
  BY DEF Senders
<1>1. CASE enqueue
  <2>1. row' \in Rows /\ enqueues' \in Nat
    <3>1. row' \in {row, NewRow} /\ enqueues' = enqueues + 1
      BY <1>1 DEF enqueue
    <3>2. NewRow \in Rows
      BY RowFields
    <3> QED BY <3>1, <3>2 DEF DeliveryTypeOK
  <2>2. slack' \in {slack, [slack EXCEPT !.found = slack.found], [slack EXCEPT !.found = 0]}
    BY <1>1 DEF enqueue
  <2>3. slack' \in Messages
    BY <2>2 DEF DeliveryTypeOK, Messages
  <2> QED BY <1>1, <2>1, <2>3 DEF enqueue, DeliveryTypeOK
<1>2. CASE ClaimLapses
  <2>1. \A r \in Relays : [relay[r] EXCEPT !.mine = FALSE] \in Memory
    BY MemoryFields DEF DeliveryTypeOK
  <2>2. relay' \in [Relays -> Memory]
    BY <1>2, <2>1 DEF ClaimLapses
  <2> QED BY <1>2, <2>2, RowFields DEF ClaimLapses, DeliveryTypeOK
<1>3. CASE Ages \/ Overages
  BY <1>3, RowFields DEF Ages, Overages, DeliveryTypeOK
<1>4. CASE ConnectionDies
  BY <1>4 DEF ConnectionDies, DeliveryTypeOK
<1>5. CASE StrayEnds
  <2>1. slack' \in Messages
    BY <1>5, SlackFields DEF StrayEnds
  <2> QED BY <1>5, <2>1 DEF StrayEnds, DeliveryTypeOK
<1>6. CASE HandlerStarts
  BY <1>6, <1>a DEF HandlerStarts, Goes, DeliveryTypeOK, Places
<1>7. CASE HandlerAcks
  <2>1. row' \in Rows
    BY <1>7, RowFields DEF HandlerAcks, Acked
  <2> QED BY <1>7, <2>1, <1>a DEF HandlerAcks, Goes, DeliveryTypeOK, Places
<1>8. ASSUME NEW s \in Senders, SenderStep(s) PROVE DeliveryTypeOK'
  <2>1. /\ relay' \in [Relays -> Memory] /\ UNCHANGED <<home, row, leader, enqueues>>
        /\ \E w \in {"ack", "post", "leave", "done", "sent", "unsure", "limited"} : Goes(s, w)
    BY <1>8, SenderEffect
  <2>2. pc' \in [Senders -> Places]
    BY <2>1 DEF Goes, DeliveryTypeOK, Places
  <2>3. slack' \in Messages
    BY <1>8, SlackFields DEF SenderStep, Verifies, Posts, Lands, TimesOut, Refused
  <2> QED BY <2>1, <2>2, <2>3 DEF DeliveryTypeOK
<1>9. ASSUME NEW r \in Relays, hold(r) PROVE DeliveryTypeOK'
  BY <1>9, <1>a DEF hold, Goes, DeliveryTypeOK, Places
<1>10. ASSUME NEW r \in Relays, expireOveraged(r) PROVE DeliveryTypeOK'
  <2>1. row' \in Rows
    BY <1>10, RowFields DEF expireOveraged
  <2> QED BY <1>10, <2>1, <1>a DEF expireOveraged, Goes, DeliveryTypeOK, Places
<1>11. ASSUME NEW r \in Relays, claimPending(r) PROVE DeliveryTypeOK'
  <2>1. /\ relay' \in [Relays -> Memory] /\ row' \in Rows
        /\ UNCHANGED <<home, slack, overlap, enqueues>>
        /\ \E w \in {"check", "leave"} : Goes(r, w)
    BY <1>11, ClaimEffect
  <2> QED BY <2>1, <1>a DEF Goes, DeliveryTypeOK, Places
<1>12. ASSUME NEW r \in Relays, Dispatches(r) PROVE DeliveryTypeOK'
  <2>1. relay' \in [Relays -> Memory]
    BY <1>12, RelayMemory
  <2> QED BY <1>12, <2>1, <1>a DEF Dispatches, Goes, DeliveryTypeOK, Places
<1>13. ASSUME NEW r \in Relays, Leaves(r) PROVE DeliveryTypeOK'
  <2>1. relay' \in [Relays -> Memory]
    BY <1>13, RelayMemory
  <2> QED BY <1>13, <2>1, <1>a DEF Leaves, Goes, DeliveryTypeOK, Places
<1>14. ASSUME NEW r \in Relays, RelayAcks(r) PROVE DeliveryTypeOK'
  <2>1. relay' \in [Relays -> Memory]
    BY <1>14, RelayMemory
  <2>2. row' \in Rows
    BY <1>14, RowFields DEF RelayAcks, Acked
  <2> QED BY <1>14, <2>1, <2>2, <1>a DEF RelayAcks, Goes, DeliveryTypeOK, Places
<1>15. ASSUME NEW r \in Relays, LossNoticed(r) \/ GiveUpExpires(r) PROVE DeliveryTypeOK'
  <2>1. relay' \in [Relays -> Memory]
    BY <1>15, RelayMemory
  <2> QED BY <1>15, <2>1 DEF LossNoticed, GiveUpExpires, DeliveryTypeOK
<1>16. ASSUME NEW r \in Relays, Crashes(r) PROVE DeliveryTypeOK'
  <2>1. /\ relay' = [relay EXCEPT ![r] = NoMemory]
        /\ UNCHANGED <<home, row, overlap, enqueues>>
        /\ slack' \in Messages
        /\ pc' \in [Senders -> {"out", "done"} \cup {pc[s] : s \in Senders}]
    BY <1>16, CrashEffect
  <2>2. {"out", "done"} \cup {pc[s] : s \in Senders} \subseteq Places
    BY DEF DeliveryTypeOK, Places
  <2>3. pc' \in [Senders -> Places]
    BY <2>1, <2>2
  <2>4. NoMemory \in Memory
    BY DEF NoMemory, Memory
  <2>5. relay' \in [Relays -> Memory]
    BY <2>1, <2>4 DEF DeliveryTypeOK
  <2> QED BY <2>1, <2>3, <2>5 DEF DeliveryTypeOK
<1>17. CASE UNCHANGED vars
  BY <1>17 DEF vars, DeliveryTypeOK
<1> QED BY <1>1, <1>2, <1>3, <1>4, <1>5, <1>6, <1>7, <1>8, <1>9, <1>10, <1>11, <1>12, <1>13,
           <1>14, <1>15, <1>16, <1>17
        DEF Next, RelayStep

-----------------------------------------------------------------------------
(* The claim, and the grace                                                *)

\* Every step leaves at most one live claim.
LEMMA OneLiveClaimStep ==
    ASSUME ClaimInv, [Next]_vars
    PROVE  OneLiveClaim'
<1> USE DEF ClaimInv, OneLiveClaim
<1>a. ASSUME /\ \A r \in Relays : relay'[r].mine => relay[r].mine
             /\ row'.claimed = row.claimed /\ row'.age = row.age
             /\ row'.state \in {row.state, "delivered"}
      PROVE  OneLiveClaim'
  BY <1>a
<1>1. CASE enqueue
  <2>1. /\ relay' = relay
        /\ row' = row \/ (row' = NewRow /\ row.state \in {"none", "expired"})
    BY <1>1 DEF enqueue
  <2> QED BY <2>1, RowFields
<1>2. CASE ClaimLapses
  <2>1. \A r \in Relays : relay'[r].mine = FALSE
    <3> SUFFICES ASSUME NEW r \in Relays PROVE relay'[r].mine = FALSE
      OBVIOUS
    <3>1. relay'[r] = [relay[r] EXCEPT !.mine = FALSE]
      BY <1>2 DEF ClaimLapses
    <3>2. relay[r] \in Memory
      BY DEF DeliveryTypeOK
    <3>3. [relay[r] EXCEPT !.mine = FALSE].mine = FALSE
      BY <3>2, MemoryFields
    <3> QED BY <3>1, <3>3
  <2>2. row' = [row EXCEPT !.claimed = FALSE] /\ row.claimed
    BY <1>2 DEF ClaimLapses
  <2> QED BY <2>1, <2>2, RowFields
<1>3. CASE Ages \/ Overages
  <2>1. relay' = relay /\ row.state = "pending"
        /\ row' \in {[row EXCEPT !.age = "old"], [row EXCEPT !.age = "overaged"]}
    BY <1>3 DEF Ages, Overages
  <2> QED BY <2>1, RowFields
<1>4. CASE ConnectionDies \/ StrayEnds \/ HandlerStarts
  BY <1>4 DEF ConnectionDies, StrayEnds, HandlerStarts
<1>5. CASE HandlerAcks
  <2>1. relay' = relay /\ row' \in {row, [row EXCEPT !.state = "delivered"]}
    BY <1>5 DEF HandlerAcks, Acked
  <2> QED BY <1>a, <2>1, RowFields
<1>6. ASSUME NEW s \in Senders, SenderStep(s) PROVE OneLiveClaim'
  <2>1. row' = row /\ \A r \in Relays : relay'[r].mine => relay[r].mine
    BY <1>6, SenderEffect
  <2> QED BY <1>a, <2>1
<1>7. ASSUME NEW r \in Relays, hold(r) PROVE OneLiveClaim'
  BY <1>7 DEF hold
<1>8. ASSUME NEW r \in Relays, expireOveraged(r) PROVE OneLiveClaim'
  <2>1. /\ relay' = relay
        /\ row' = row \/ (row' = [row EXCEPT !.state = "expired"] /\ ~row.claimed)
    BY <1>8 DEF expireOveraged
  <2> QED BY <2>1, RowFields
<1>9. ASSUME NEW r \in Relays, claimPending(r) PROVE OneLiveClaim'
  <2>1. /\ row'.state = row.state /\ row'.age = row.age
        /\ row.claimed => row'.claimed
        /\ row.state = "none" => (row'.claimed => row.claimed)
        /\ \A t \in Relays :
             relay'[t].mine => relay[t].mine \/ (t = r /\ Claimable /\ row'.claimed)
    BY <1>9, ClaimEffect
  <2>2. Claimable => /\ \A t \in Relays : ~relay[t].mine
                     /\ row.state = "pending"
    BY DEF Claimable
  <2> QED BY <2>1, <2>2
<1>10. ASSUME NEW r \in Relays,
              Dispatches(r) \/ Leaves(r) \/ LossNoticed(r) \/ GiveUpExpires(r)
       PROVE  OneLiveClaim'
  <2>1. \A t \in Relays : relay'[t].mine => relay[t].mine
    BY <1>10, RelayMemory
  <2>2. row' = row
    BY <1>10 DEF Dispatches, Leaves, LossNoticed, GiveUpExpires
  <2> QED BY <1>a, <2>1, <2>2
<1>11. ASSUME NEW r \in Relays, RelayAcks(r) PROVE OneLiveClaim'
  <2>1. \A t \in Relays : relay'[t].mine => relay[t].mine
    BY <1>11, RelayMemory
  <2>2. row' \in {row, [row EXCEPT !.state = "delivered"]}
    BY <1>11 DEF RelayAcks, Acked
  <2> QED BY <1>a, <2>1, <2>2, RowFields
<1>12. ASSUME NEW r \in Relays, Crashes(r) PROVE OneLiveClaim'
  <2>1. row' = row /\ relay' = [relay EXCEPT ![r] = NoMemory]
    BY <1>12, CrashEffect
  <2>2. NoMemory.mine = FALSE
    BY DEF NoMemory
  <2>3. \A t \in Relays : relay'[t].mine => relay[t].mine
    BY <2>1, <2>2 DEF DeliveryTypeOK
  <2> QED BY <1>a, <2>1, <2>3
<1>13. CASE UNCHANGED vars
  BY <1>13 DEF vars
<1> QED BY <1>1, <1>2, <1>3, <1>4, <1>5, <1>6, <1>7, <1>8, <1>9, <1>10, <1>11, <1>12, <1>13
        DEF Next, RelayStep

\* Every step leaves the grace of a reply to its handler.
LEMMA GraceStep ==
    ASSUME ClaimInv, [Next]_vars
    PROVE  GraceOfTheReply'
<1> USE DEF ClaimInv, GraceOfTheReply, run, Delivering
<1>a. /\ "handler" \in Senders /\ "handler" \notin Relays /\ Relays \subseteq Senders
      /\ enqueues \in Nat /\ pc \in [Senders -> Places] /\ row \in Rows
  BY DeliveryAssumption DEF Senders, DeliveryTypeOK
<1>1. CASE enqueue
  <2>1. /\ UNCHANGED <<home, pc>> /\ enqueues' = enqueues + 1 /\ (run => enqueues = 0)
        /\ row' = row \/ (row' = NewRow /\ row.state \in {"none", "expired"})
    BY <1>1 DEF enqueue
  <2>2. CASE row' = row
    BY <1>a, <2>1, <2>2
  <2>3. CASE row' = NewRow /\ row.state \in {"none", "expired"}
    <3>1. run => row.age = "young"
      BY <1>a, <2>1, <2>3 DEF OneLiveClaim
    <3> QED BY <1>a, <2>1, <2>3, <3>1, RowFields
  <2> QED BY <2>1, <2>2, <2>3
<1>2. CASE ClaimLapses
  <2>1. UNCHANGED <<home, pc, enqueues>> /\ row' = [row EXCEPT !.claimed = FALSE]
    BY <1>2 DEF ClaimLapses
  <2> QED BY <2>1, RowFields
<1>3. CASE Ages \/ Overages
  <2>1. UNCHANGED <<home, pc, enqueues>>
        /\ row' \in {[row EXCEPT !.age = "old"], [row EXCEPT !.age = "overaged"]}
    BY <1>3 DEF Ages, Overages
  <2> QED BY <2>1, RowFields
<1>4. CASE ConnectionDies \/ StrayEnds
  BY <1>4 DEF ConnectionDies, StrayEnds
<1>5. CASE HandlerStarts
  BY <1>5, <1>a DEF HandlerStarts, Goes
<1>6. CASE HandlerAcks
  <2>1. /\ UNCHANGED <<home, enqueues>> /\ pc' = [pc EXCEPT !["handler"] = "done"]
        /\ row' \in {row, [row EXCEPT !.state = "delivered"]}
    BY <1>6 DEF HandlerAcks, Acked, Goes
  <2> QED BY <1>a, <2>1, RowFields
<1>7. ASSUME NEW s \in Senders, SenderStep(s) PROVE GraceOfTheReply'
  <2>1. /\ UNCHANGED <<home, row, enqueues>>
        /\ pc[s] \in {"verify", "unsure", "limited", "post", "sent"}
        /\ \E w \in {"ack", "post", "leave", "done", "sent", "unsure", "limited"} : Goes(s, w)
    BY <1>7, SenderEffect
  <2>2. PICK w \in {"ack", "post", "leave", "done", "sent", "unsure", "limited"} : Goes(s, w)
    BY <2>1
  <2> QED BY <1>a, <2>1, <2>2 DEF Goes
<1>8. ASSUME NEW r \in Relays, hold(r) PROVE GraceOfTheReply'
  BY <1>8, <1>a DEF hold, Goes
<1>9. ASSUME NEW r \in Relays, expireOveraged(r) PROVE GraceOfTheReply'
  <2>1. /\ UNCHANGED <<home, enqueues>> /\ pc' = [pc EXCEPT ![r] = "claim"]
        /\ row' = row \/ (row' = [row EXCEPT !.state = "expired"] /\ row.state = "pending")
    BY <1>9 DEF expireOveraged, Goes
  <2> QED BY <1>a, <2>1, RowFields
<1>10. ASSUME NEW r \in Relays, claimPending(r) PROVE GraceOfTheReply'
  <2>1. /\ row'.state = row.state /\ row'.age = row.age /\ UNCHANGED <<home, enqueues>>
        /\ \E w \in {"check", "leave"} : Goes(r, w)
    BY <1>10, ClaimEffect
  <2> QED BY <1>a, <2>1 DEF Goes
<1>11. ASSUME NEW r \in Relays, Dispatches(r) PROVE GraceOfTheReply'
  <2>1. UNCHANGED <<home, row, enqueues>>
    BY <1>11 DEF Dispatches
  <2>2. PICK w \in {"leave", "expire", "ack", "verify", "post"} :
           pc' = [pc EXCEPT ![r] = w] /\ (run /\ row.age = "young" => w \in {"leave", "expire"})
    BY <1>11 DEF Dispatches, Goes
  <2> QED BY <1>a, <2>1, <2>2
<1>12. ASSUME NEW r \in Relays, Leaves(r) PROVE GraceOfTheReply'
  BY <1>12, <1>a DEF Leaves, Goes
<1>13. ASSUME NEW r \in Relays, RelayAcks(r) PROVE GraceOfTheReply'
  <2>1. /\ UNCHANGED <<home, enqueues>> /\ pc' = [pc EXCEPT ![r] = "leave"]
        /\ row' \in {row, [row EXCEPT !.state = "delivered"]}
    BY <1>13 DEF RelayAcks, Acked, Goes
  <2> QED BY <1>a, <2>1, RowFields
<1>14. ASSUME NEW r \in Relays, LossNoticed(r) \/ GiveUpExpires(r) PROVE GraceOfTheReply'
  BY <1>14 DEF LossNoticed, GiveUpExpires
<1>15. ASSUME NEW r \in Relays, Crashes(r) PROVE GraceOfTheReply'
  <2>1. /\ UNCHANGED <<home, row, enqueues>>
        /\ pc'[r] = "out" /\ (pc["handler"] = "done" => pc'["handler"] = "done")
        /\ \A s \in Relays \ {r} : pc'[s] = pc[s]
    BY <1>15, CrashEffect
  <2> QED BY <1>a, <2>1
<1>16. CASE UNCHANGED vars
  BY <1>16 DEF vars
<1> QED BY <1>1, <1>2, <1>3, <1>4, <1>5, <1>6, <1>7, <1>8, <1>9, <1>10, <1>11, <1>12, <1>13,
           <1>14, <1>15, <1>16
        DEF Next, RelayStep

\* The invariant of the claim: one relay at a time, and not within the grace of a reply.
THEOREM ClaimInvariant == Spec => []ClaimInv
<1>1. Init => ClaimInv
  <2> SUFFICES ASSUME Init PROVE ClaimInv
    OBVIOUS
  <2> USE DEF Init
  <2> DEFINE none == [NewRow EXCEPT !.state = "none"]
  <2>1. none \in Rows /\ none.state = "none" /\ none.age = "young" /\ none.claimed = FALSE
    BY DEF NewRow, Rows
  <2>2. row = none
    OBVIOUS
  <2> HIDE DEF none
  <2>3. "handler" \in Senders /\ "handler" \notin Relays /\ Relays \subseteq Senders
    BY DeliveryAssumption DEF Senders
  <2>4. NoMemory \in Memory /\ NoMemory.mine = FALSE
    BY DEF NoMemory, Memory
  <2>5. DeliveryTypeOK
    <3>1. pc \in [Senders -> Places]
      BY DEF Places
    <3>2. slack \in Messages
      BY DEF Messages
    <3> QED BY <2>1, <2>2, <2>4, <3>1, <3>2 DEF DeliveryTypeOK
  <2>6. OneLiveClaim
    BY <2>1, <2>2, <2>4 DEF OneLiveClaim
  <2>7. GraceOfTheReply
    BY <2>1, <2>2, <2>3 DEF GraceOfTheReply, Delivering, run
  <2> QED BY <2>5, <2>6, <2>7 DEF ClaimInv
<1>2. ClaimInv /\ [Next]_vars => ClaimInv'
  BY DeliveryTypeStep, OneLiveClaimStep, GraceStep DEF ClaimInv
<1> QED BY <1>1, <1>2, PTL DEF Spec

\* Only the handler that starts decides whether it is late.
LEMMA LateKept ==
    ASSUME [Next]_vars, ~HandlerStarts
    PROVE  late' = late
<1>1. CASE enqueue \/ ClaimLapses \/ Ages \/ Overages
  BY <1>1 DEF enqueue, ClaimLapses, Ages, Overages
<1>2. CASE ConnectionDies \/ StrayEnds \/ HandlerAcks
  BY <1>2 DEF ConnectionDies, StrayEnds, HandlerAcks
<1>3. ASSUME NEW s \in Senders, SenderStep(s) PROVE late' = late
  BY <1>3 DEF SenderStep, Verifies, Posts, Lands, TimesOut, Refused
<1>4. ASSUME NEW r \in Relays, RelayStep(r) PROVE late' = late
  BY <1>4 DEF RelayStep, hold, expireOveraged, claimPending, Dispatches, Leaves, RelayAcks
<1>5. ASSUME NEW r \in Relays, LossNoticed(r) \/ GiveUpExpires(r) \/ Crashes(r) PROVE late' = late
  BY <1>5 DEF LossNoticed, GiveUpExpires, Crashes
<1>6. CASE UNCHANGED vars
  BY <1>6 DEF vars
<1> QED BY <1>1, <1>2, <1>3, <1>4, <1>5, <1>6 DEF Next

\* The reply of a run does not become young again.
LEMMA AgeStays ==
    ASSUME ClaimInv, [Next]_vars, run, row.age # "young"
    PROVE  run' /\ row'.age # "young"
<1> USE DEF ClaimInv, run
<1>1. CASE enqueue
  <2>1. home' = home /\ enqueues = 0
        /\ (row' = row \/ (row' = NewRow /\ row.state \in {"none", "expired"}))
    BY <1>1 DEF enqueue
  <2> QED BY <2>1 DEF OneLiveClaim, GraceOfTheReply
<1>2. CASE ClaimLapses \/ Ages \/ Overages
  <2>1. home' = home /\ row' \in {[row EXCEPT !.claimed = FALSE], [row EXCEPT !.age = "old"],
                                 [row EXCEPT !.age = "overaged"]}
    BY <1>2 DEF ClaimLapses, Ages, Overages
  <2> QED BY <2>1, RowFields
<1>3. CASE ConnectionDies \/ StrayEnds \/ HandlerStarts
  BY <1>3 DEF ConnectionDies, StrayEnds, HandlerStarts
<1>4. CASE HandlerAcks
  <2>1. home' = home /\ row' \in {row, [row EXCEPT !.state = "delivered"]}
    BY <1>4 DEF HandlerAcks, Acked
  <2> QED BY <2>1, RowFields
<1>5. ASSUME NEW s \in Senders, SenderStep(s) PROVE run' /\ row'.age # "young"
  BY <1>5, SenderEffect
<1>6. ASSUME NEW r \in Relays, hold(r) \/ Dispatches(r) \/ Leaves(r) \/ LossNoticed(r) \/ GiveUpExpires(r)
      PROVE  run' /\ row'.age # "young"
  BY <1>6 DEF hold, Dispatches, Leaves, LossNoticed, GiveUpExpires
<1>7. ASSUME NEW r \in Relays, expireOveraged(r) \/ RelayAcks(r) PROVE run' /\ row'.age # "young"
  <2>1. home' = home /\ row' \in {row, [row EXCEPT !.state = "expired"],
                                 [row EXCEPT !.state = "delivered"]}
    BY <1>7 DEF expireOveraged, RelayAcks, Acked
  <2> QED BY <2>1, RowFields
<1>8. ASSUME NEW r \in Relays, claimPending(r) PROVE run' /\ row'.age # "young"
  BY <1>8, ClaimEffect
<1>9. ASSUME NEW r \in Relays, Crashes(r) PROVE run' /\ row'.age # "young"
  BY <1>9, CrashEffect
<1>10. CASE UNCHANGED vars
  BY <1>10 DEF vars
<1> QED BY <1>1, <1>2, <1>3, <1>4, <1>5, <1>6, <1>7, <1>8, <1>9, <1>10 DEF Next, RelayStep

\* What is posted while the handler has still to come is posted by a relay.
LEMMA LateReplyStep ==
    ASSUME ClaimInv, LateReply, [Next]_vars
    PROVE  LateReply'
<1> USE DEF ClaimInv, LateReply
<1>a. /\ "handler" \in Senders /\ "handler" \notin Relays /\ pc \in [Senders -> Places]
      /\ Senders = Relays \cup {"handler"} /\ slack \in Messages
      /\ pc["handler"] = "idle" => run
  BY DeliveryAssumption DEF Senders, DeliveryTypeOK, GraceOfTheReply
<1>b. ASSUME pc'["handler"] = "idle" => pc["handler"] = "idle",
             pc["handler"] = "idle" => \/ row.age # "young"
                                      \/ /\ slack'.posted > 0 => slack.posted > 0
                                         /\ slack'.stray > 0 => slack.stray > 0,
             ~HandlerStarts
      PROVE  LateReply'
  <2>1. ASSUME pc'["handler"] = "idle", slack'.posted > 0 \/ slack'.stray > 0
        PROVE  row'.age # "young"
    <3>1. run /\ row.age # "young"
      BY <1>a, <1>b, <2>1
    <3> QED BY <3>1, AgeStays
  <2>2. ASSUME late' PROVE run' /\ row'.age # "young"
    <3>1. late
      BY <1>b, <2>2, LateKept
    <3> QED BY <3>1, AgeStays
  <2> QED BY <2>1, <2>2
<1>1. CASE HandlerStarts
  <2>1. pc["handler"] = "idle" /\ pc'["handler"] = "post" /\ UNCHANGED <<row, home>>
    BY <1>1, <1>a DEF HandlerStarts, Goes
  <2>2. late' => late \/ slack.posted > 0
    BY <1>1 DEF HandlerStarts
  <2> QED BY <1>a, <2>1, <2>2 DEF run
<1>n. ASSUME UNCHANGED <<pc, slack>>, ~HandlerStarts PROVE LateReply'
  BY <1>b, <1>n
<1>h. HandlerStarts => pc'["handler"] # pc["handler"]
  BY <1>a DEF HandlerStarts, Goes
<1>2. CASE enqueue
  <2>1. UNCHANGED pc /\ slack' \in {slack, [slack EXCEPT !.found = slack.found], [slack EXCEPT !.found = 0]}
    BY <1>2 DEF enqueue
  <2>2. slack'.posted = slack.posted /\ slack'.stray = slack.stray
    BY <1>a, <2>1 DEF Messages
  <2> QED BY <1>b, <1>h, <2>1, <2>2
<1>3. CASE ClaimLapses \/ Ages \/ Overages \/ ConnectionDies
  BY <1>3, <1>n, <1>h DEF ClaimLapses, Ages, Overages, ConnectionDies
<1>4. CASE StrayEnds
  <2>1. UNCHANGED <<pc, row, home>> /\ slack.stray > 0
    BY <1>4 DEF StrayEnds
  <2> QED BY <1>b, <1>h, <2>1
<1>5. CASE HandlerAcks
  <2>1. pc'["handler"] = "done" /\ ~HandlerStarts
    BY <1>5, <1>a DEF HandlerAcks, HandlerStarts, Goes
  <2>2. pc["handler"] # "idle"
    BY <1>5 DEF HandlerAcks
  <2> QED BY <1>b, <2>1, <2>2
<1>6. ASSUME NEW s \in Senders, SenderStep(s) PROVE LateReply'
  <2>1. /\ pc[s] \in {"verify", "unsure", "limited", "post", "sent"}
        /\ \E w \in {"ack", "post", "leave", "done", "sent", "unsure", "limited"} : Goes(s, w)
    BY <1>6, SenderEffect
  <2>2. pc'["handler"] = "idle" => pc["handler"] = "idle"
    BY <1>a, <2>1 DEF Goes
  <2>3. ~HandlerStarts
    <3>1. CASE s = "handler"
      BY <2>1, <3>1 DEF HandlerStarts
    <3>2. CASE s # "handler"
      BY <1>a, <1>h, <2>1, <3>2 DEF Goes
    <3> QED BY <3>1, <3>2
  <2>4. pc["handler"] = "idle" => row.age # "young"
    BY <1>a, <2>1 DEF GraceOfTheReply, Delivering
  <2> QED BY <1>b, <2>2, <2>3, <2>4
<1>7. ASSUME NEW r \in Relays, RelayStep(r) PROVE LateReply'
  <2>1. slack' = slack /\ \E w : Goes(r, w)
    BY <1>7 DEF RelayStep, hold, expireOveraged, claimPending, Dispatches, Leaves, RelayAcks
  <2>2. pc'["handler"] = pc["handler"]
    BY <1>a, <2>1 DEF Goes
  <2> QED BY <1>b, <1>h, <2>1, <2>2
<1>8. ASSUME NEW r \in Relays, LossNoticed(r) \/ GiveUpExpires(r) PROVE LateReply'
  BY <1>8, <1>n, <1>h DEF LossNoticed, GiveUpExpires
<1>9. ASSUME NEW r \in Relays, Crashes(r) PROVE LateReply'
  <2>1. /\ slack'.posted = slack.posted
        /\ (\A s \in Senders : pc[s] # "sent") => slack'.stray = slack.stray
        /\ \A s \in Senders : pc'[s] \in {"out", "done", pc[s]}
    BY <1>9, CrashEffect
  <2>2. ~HandlerStarts
    BY <1>a, <2>1 DEF HandlerStarts, Goes
  <2>3. pc["handler"] = "idle" /\ (\E s \in Senders : pc[s] = "sent") => row.age # "young"
    BY <1>a DEF GraceOfTheReply, Delivering
  <2> QED BY <1>a, <1>b, <2>1, <2>2, <2>3
<1>10. CASE UNCHANGED vars
  BY <1>10, <1>n, <1>h DEF vars
<1> QED BY <1>1, <1>2, <1>3, <1>4, <1>5, <1>6, <1>7, <1>8, <1>9, <1>10 DEF Next

\* Two relays, one of which lost the leader lease, are never about to post on the same
\* live claim; a relay and the turn's handler do not meet within the grace of the reply,
\* also one after the other.
THEOREM OverlapIsLateHolds == Spec => []OverlapIsLate
<1>1. ClaimInv /\ LateReply => OverlapIsLate
  <2> SUFFICES ASSUME ClaimInv, NEW r \in Relays, Posting(r) PROVE
        /\ \A t \in Relays \ {r} : Posting(t) => ~(relay[r].mine /\ relay[t].mine)
        /\ pc["handler"] # "done" => row.age # "young"
    BY DEF OverlapIsLate, LateReply
  <2>1. \A t \in Relays \ {r} : ~(relay[r].mine /\ relay[t].mine)
    BY DEF ClaimInv, OneLiveClaim
  <2>2. pc["handler"] # "done" => row.age # "young"
    BY DEF ClaimInv, GraceOfTheReply, Posting, Delivering
  <2> QED BY <2>1, <2>2
<1>2. Init => LateReply
  BY DEF Init, LateReply
<1>3. ClaimInv /\ LateReply /\ [Next]_vars => LateReply'
  BY LateReplyStep
<1> QED BY <1>1, <1>2, <1>3, ClaimInvariant, PTL DEF Spec

\* ack() and ackByKey() are final: neither a later claim nor an enqueue, an expiry or a
\* failed acknowledgement opens the row again.
THEOREM AcknowledgedIsFinalHolds == Spec => AcknowledgedIsFinal
<1>1. ASSUME ClaimInv, [Next]_vars, row.state = "delivered" PROVE row'.state = "delivered"
  <2>1. CASE enqueue \/ ConnectionDies \/ StrayEnds \/ HandlerStarts \/ Ages \/ Overages
    BY <1>1, <2>1 DEF enqueue, ConnectionDies, StrayEnds, HandlerStarts, Ages, Overages
  <2>2. CASE ClaimLapses
    BY <1>1, <2>2, RowFields DEF ClaimLapses, ClaimInv
  <2>3. CASE HandlerAcks
    BY <1>1, <2>3, RowFields DEF HandlerAcks, Acked, ClaimInv
  <2>4. ASSUME NEW s \in Senders, SenderStep(s) PROVE row' = row
    BY <1>1, <2>4, SenderEffect DEF ClaimInv
  <2>5. ASSUME NEW r \in Relays, claimPending(r) PROVE row'.state = row.state
    BY <1>1, <2>5, ClaimEffect DEF ClaimInv
  <2>6. ASSUME NEW r \in Relays, RelayAcks(r) PROVE row'.state = "delivered"
    BY <1>1, <2>6, RowFields DEF RelayAcks, Acked, ClaimInv
  <2>7. ASSUME NEW r \in Relays, \/ hold(r) \/ expireOveraged(r) \/ Dispatches(r) \/ Leaves(r)
                                 \/ LossNoticed(r) \/ GiveUpExpires(r) \/ Crashes(r)
        PROVE  row' = row
    BY <1>1, <2>7 DEF hold, expireOveraged, Dispatches, Leaves, LossNoticed, GiveUpExpires, Crashes
  <2>8. CASE UNCHANGED vars
    BY <1>1, <2>8 DEF vars
  <2> QED BY <1>1, <2>1, <2>2, <2>3, <2>4, <2>5, <2>6, <2>7, <2>8 DEF Next, RelayStep
<1>2. ClaimInv /\ [Next]_vars => [row.state = "delivered" => row'.state = "delivered"]_vars
  BY <1>1
<1> QED BY <1>2, ClaimInvariant, PTL DEF Spec, AcknowledgedIsFinal

-----------------------------------------------------------------------------
(* Posted once                                                             *)

\* No step posts what a search would find, unless two posts overlap or the handler is late.
LEMMA SearchFindsStep ==
    ASSUME ClaimInv, PostInv, [Next]_vars
    PROVE  SearchFinds'
<1>l. late => late'
  <2>1. CASE HandlerStarts
    BY <2>1 DEF HandlerStarts
  <2>2. CASE ~HandlerStarts
    BY <2>2, LateKept
  <2> QED BY <2>1, <2>2
<1> SUFFICES ASSUME ~late, ~late' PROVE SearchFinds'
  BY <1>l DEF SearchFinds
<1> USE DEF ClaimInv, PostInv, SearchFinds, Posting
<1>a. /\ "handler" \in Senders /\ Relays \subseteq Senders /\ pc \in [Senders -> Places]
      /\ slack.posted \in Nat /\ slack.found \in Nat /\ slack.stray \in Nat
  BY DEF Senders, DeliveryTypeOK, Messages
<1>b. ASSUME UNCHANGED <<slack, overlap>>, \A s \in Senders : Posting(s)' => Posting(s)
      PROVE  SearchFinds'
  BY <1>b
<1>c. ASSUME UNCHANGED <<slack, overlap>>, ~overlap => slack.posted = 0
      PROVE  SearchFinds'
  BY <1>c
<1>1. CASE enqueue
  <2>1. \/ UNCHANGED <<slack, overlap>>
        \/ /\ slack' = [slack EXCEPT !.found = slack.found] /\ (~overlap' => ~overlap)
        \/ /\ slack' = [slack EXCEPT !.found = 0]
           /\ ~overlap' => ~overlap /\ ~(slack.posted + slack.stray > 0)
    <3>1. CASE row.state = "none"
      BY <1>1, <3>1 DEF enqueue
    <3>2. CASE row.state = "expired"
      <4>1. slack' = [slack EXCEPT !.found = 0]
        BY <1>1, <3>2 DEF enqueue
      <4>2. ~overlap' => ~overlap /\ ~(slack.posted + slack.stray > 0)
        BY <1>1, <3>2 DEF enqueue
      <4> QED BY <4>1, <4>2
    <3>3. CASE row.state \notin {"none", "expired"}
      BY <1>1, <3>3 DEF enqueue
    <3> QED BY <3>1, <3>2, <3>3
  <2>2. pc' = pc
    BY <1>1 DEF enqueue
  <2>3. slack = [slack EXCEPT !.found = slack.found]
    BY DEF DeliveryTypeOK, Messages
  <2>4. CASE slack' = slack /\ (~overlap' => ~overlap)
    BY <2>2, <2>4
  <2>5. CASE /\ slack' = [slack EXCEPT !.found = 0]
             /\ ~overlap' => ~overlap /\ ~(slack.posted + slack.stray > 0)
    BY <1>a, <2>5, SlackFields
  <2> QED BY <2>1, <2>3, <2>4, <2>5
<1>2. CASE ClaimLapses \/ Ages \/ Overages \/ ConnectionDies
  BY <1>b, <1>2 DEF ClaimLapses, Ages, Overages, ConnectionDies
<1>3. CASE StrayEnds
  <2>1. pc' = pc /\ slack.stray > 0
    BY <1>3 DEF StrayEnds
  <2>2. \/ /\ slack' = [Landed EXCEPT !.stray = @ - 1]
           /\ ~overlap' => ~overlap /\ ~(slack.stray > 1) /\ \A t \in Senders : ~Posting(t)
        \/ slack' = [slack EXCEPT !.stray = @ - 1] /\ overlap' = overlap
    BY <1>3 DEF StrayEnds
  <2>3. CASE slack' = [slack EXCEPT !.stray = @ - 1] /\ overlap' = overlap
    <3>1. ~overlap => slack.posted = 0
      BY <1>a, <2>1
    <3> QED BY <1>a, <2>1, <2>3, <3>1, SlackFields
  <2>4. CASE /\ slack' = [Landed EXCEPT !.stray = @ - 1]
             /\ ~overlap' => ~overlap /\ ~(slack.stray > 1) /\ \A t \in Senders : ~Posting(t)
    <3>1. /\ slack'.posted = slack.posted + 1 /\ slack'.found = slack.found + 1
          /\ slack'.stray = slack.stray - 1
      BY <2>1, <2>4, SlackFields
    <3>2. ~overlap => slack.posted = 0 /\ slack.found = 0
      BY <1>a, <2>1
    <3> SUFFICES ASSUME ~overlap'
                 PROVE  /\ slack'.found = slack'.posted /\ slack'.posted <= 1
                        /\ slack'.stray = 0 /\ \A s \in Senders : ~Posting(s)'
      BY DEF SearchFinds
    <3>3. ~overlap /\ ~(slack.stray > 1) /\ \A s \in Senders : ~Posting(s)
      BY <2>4
    <3>4. slack'.found = slack'.posted /\ slack'.posted <= 1 /\ slack'.stray = 0
      BY <1>a, <2>1, <3>1, <3>2, <3>3
    <3>5. \A s \in Senders : ~Posting(s)'
      BY <2>1, <3>3
    <3> QED BY <3>4, <3>5
  <2> QED BY <2>2, <2>3, <2>4
<1>4. CASE HandlerStarts
  <2>1. UNCHANGED <<slack, overlap>> /\ ~(slack.posted > 0)
    BY <1>4 DEF HandlerStarts
  <2> QED BY <1>a, <1>c, <2>1
<1>16. CASE HandlerAcks
  BY <1>a, <1>b, <1>16 DEF HandlerAcks, Goes
<1>5. ASSUME NEW s \in Senders, Verifies(s) PROVE SearchFinds'
  <2>1. UNCHANGED <<slack, overlap>>
    BY <1>5 DEF Verifies
  <2>2. CASE Succeeds(s)
    BY <1>a, <1>b, <2>1, <2>2 DEF Succeeds, Goes
  <2>3. CASE slack.found = 0
    BY <1>c, <2>1, <2>3
  <2>4. CASE Fails(s)
    BY <1>a, <1>b, <2>1, <2>4 DEF Fails, Goes
  <2>5. CASE pc[s] = "limited" /\ Goes(s, "post")
    BY <1>a, <1>b, <2>1, <2>5 DEF Goes
  <2> QED BY <1>5, <2>2, <2>3, <2>4, <2>5 DEF Verifies
<1>6. ASSUME NEW s \in Senders, Posts(s) PROVE SearchFinds'
  BY <1>a, <1>b, <1>6 DEF Posts, Goes
<1>7. ASSUME NEW s \in Senders, Lands(s) PROVE SearchFinds'
  <2>1. /\ pc[s] = "sent" /\ slack' = Landed
        /\ ~overlap' => ~overlap /\ ~(slack.stray > 0) /\ \A t \in Senders \ {s} : ~Posting(t)
    BY <1>7 DEF Lands
  <2>2. pc' = [pc EXCEPT ![s] = "ack"] \/ pc' = [pc EXCEPT ![s] = "unsure"]
    BY <1>7 DEF Lands, Succeeds, Goes
  <2>3. ~overlap => slack.posted = 0 /\ slack.found = 0
    BY <1>a, <2>1
  <2>4. (\A t \in Senders \ {s} : ~Posting(t)) => \A t \in Senders : ~Posting(t)'
    BY <1>a, <2>2
  <2> QED BY <1>a, <2>1, <2>3, <2>4, SlackFields
<1>8. ASSUME NEW s \in Senders, TimesOut(s) PROVE SearchFinds'
  <2>1. pc[s] = "sent" /\ overlap' = overlap /\ slack' = [slack EXCEPT !.stray = @ + 1]
    BY <1>8 DEF TimesOut
  <2>2. ~overlap => slack.posted = 0
    BY <1>a, <2>1
  <2> QED BY <1>a, <2>1, <2>2, SlackFields
<1>9. ASSUME NEW s \in Senders, Refused(s) PROVE SearchFinds'
  BY <1>a, <1>b, <1>9 DEF Refused, Fails, Goes
<1>10. ASSUME NEW r \in Relays, hold(r) \/ expireOveraged(r) \/ Leaves(r) \/ RelayAcks(r)
       PROVE  SearchFinds'
  BY <1>a, <1>b, <1>10 DEF hold, expireOveraged, Leaves, RelayAcks, Goes
<1>11. ASSUME NEW r \in Relays, claimPending(r) PROVE SearchFinds'
  BY <1>a, <1>b, <1>11 DEF claimPending, Goes
<1>12. ASSUME NEW r \in Relays, Dispatches(r) PROVE SearchFinds'
  <2>1. UNCHANGED <<slack, overlap>> /\ pc[r] = "check"
    BY <1>12 DEF Dispatches
  <2>2. PICK w \in {"leave", "expire", "ack", "verify", "post"} :
           pc' = [pc EXCEPT ![r] = w] /\ (w = "post" => ~run /\ row.age = "young")
    BY <1>12 DEF Dispatches, VerifiesFirst, Goes
  <2>3. CASE w = "post"
    BY <1>c, <2>1, <2>2, <2>3 DEF OneClaimInTheGrace
  <2>4. CASE w # "post"
    BY <1>a, <1>b, <2>1, <2>2, <2>4
  <2> QED BY <2>3, <2>4
<1>13. ASSUME NEW r \in Relays, LossNoticed(r) \/ GiveUpExpires(r) PROVE SearchFinds'
  BY <1>b, <1>13 DEF LossNoticed, GiveUpExpires
<1>14. ASSUME NEW r \in Relays, Crashes(r) PROVE SearchFinds'
  <2>1. /\ overlap' = overlap /\ slack'.posted = slack.posted /\ slack'.found = slack.found
        /\ (\A s \in Senders : pc[s] # "sent") => slack'.stray = slack.stray
        /\ \A s \in Senders : pc'[s] \in {"out", "done", pc[s]}
    BY <1>14, CrashEffect
  <2> QED BY <2>1
<1>15. CASE UNCHANGED vars
  BY <1>b, <1>15 DEF vars
<1> QED BY <1>1, <1>2, <1>3, <1>4, <1>5, <1>6, <1>7, <1>8, <1>9, <1>10, <1>11, <1>12, <1>13,
           <1>14, <1>15, <1>16
        DEF Next, RelayStep, SenderStep

\* Every step leaves one claim within the grace of a row that is no run's reply.
LEMMA OneClaimStep ==
    ASSUME ClaimInv, PostInv, [Next]_vars
    PROVE  OneClaimInTheGrace'
<1> USE DEF ClaimInv, PostInv, OneClaimInTheGrace, Delivering, run
<1>a. /\ "handler" \in Senders /\ "handler" \notin Relays /\ Relays \subseteq Senders
      /\ Senders = Relays \cup {"handler"} /\ pc \in [Senders -> Places]
      /\ slack.posted \in Nat /\ slack.stray \in Nat
      /\ ~run => pc["handler"] = "done"
  BY DeliveryAssumption DEF Senders, DeliveryTypeOK, GraceOfTheReply, Messages
<1>b. ASSUME UNCHANGED <<slack, overlap, home>>, row'.age = row.age,
             row.claimed => row'.claimed,
             \A r \in Relays : Delivering(r)' => Delivering(r),
             \A r \in Relays : pc'[r] = "check" => pc[r] = "check"
      PROVE  OneClaimInTheGrace'
  BY <1>b
<1>1. CASE enqueue
  <2>1. UNCHANGED <<home, pc>>
    BY <1>1 DEF enqueue
  <2>2. CASE row.state \notin {"none", "expired"}
    BY <1>1, <1>b, <2>1, <2>2 DEF enqueue
  <2>3. CASE row.state = "none"
    <3>1. /\ slack' = [slack EXCEPT !.found = slack.found] /\ (~overlap' => ~overlap)
          /\ ~row.claimed /\ row.age = "young"
      BY <1>1, <2>3 DEF enqueue, OneLiveClaim
    <3>2. slack'.posted = slack.posted /\ slack'.stray = slack.stray
      BY <3>1 DEF DeliveryTypeOK, Messages
    <3> QED BY <2>1, <3>1, <3>2
  <2>4. CASE row.state = "expired"
    <3>1. slack' = [slack EXCEPT !.found = 0]
      BY <1>1, <2>4 DEF enqueue
    <3>2. ~overlap' => /\ ~(slack.posted + slack.stray > 0)
                       /\ \A s \in Senders : ~Delivering(s)
      BY <1>1, <2>4 DEF enqueue
    <3>3. slack'.posted = slack.posted /\ slack'.stray = slack.stray
      BY <3>1, SlackFields
    <3> QED BY <1>a, <2>1, <3>2, <3>3
  <2> QED BY <2>2, <2>3, <2>4
<1>2. CASE ClaimLapses
  <2>1. row'.age # "young"
    BY <1>2, RowFields DEF ClaimLapses
  <2> QED BY <2>1
<1>3. CASE Ages \/ Overages
  <2>1. row'.age # "young"
    BY <1>3, RowFields DEF Ages, Overages
  <2> QED BY <2>1
<1>4. CASE ConnectionDies
  BY <1>4, <1>b DEF ConnectionDies
<1>5. CASE StrayEnds
  <2>1. UNCHANGED <<home, row, pc>> /\ slack.stray > 0
    BY <1>5 DEF StrayEnds
  <2>2. ~overlap' => ~overlap
    BY <1>5, Zenon DEF StrayEnds
  <2> QED BY <1>a, <2>1, <2>2
<1>6. CASE HandlerStarts \/ HandlerAcks
  <2>1. home' = home /\ pc["handler"] # "done"
    BY <1>6 DEF HandlerStarts, HandlerAcks
  <2> QED BY <1>a, <2>1
<1>7. ASSUME NEW s \in Senders, SenderStep(s) PROVE OneClaimInTheGrace'
  <2>1. /\ UNCHANGED <<home, row>>
        /\ pc[s] \in {"verify", "unsure", "limited", "post", "sent"}
        /\ \E w \in {"ack", "post", "leave", "done", "sent", "unsure", "limited"} : Goes(s, w)
    BY <1>7, SenderEffect
  <2>2. ~overlap' => ~overlap
    BY <1>7 DEF SenderStep, Verifies, Posts, Lands, TimesOut, Refused
  <2>3. PICK w \in {"ack", "post", "leave", "done", "sent", "unsure", "limited"} :
           pc' = [pc EXCEPT ![s] = w]
    BY <2>1 DEF Goes
  <2> SUFFICES ASSUME ~overlap, ~run, row.age = "young" PROVE OneClaimInTheGrace'
    BY <2>1, <2>2
  <2>4. s \in Relays /\ Delivering(s) /\ row.claimed
    BY <1>a, <2>1
  <2>5. \A r \in Relays : pc[r] # "check" /\ pc'[r] # "check"
    BY <1>a, <2>1, <2>3, <2>4
  <2>6. \A r \in Relays : Delivering(r)' => Delivering(r)
    BY <1>a, <2>3, <2>4
  <2> QED BY <2>1, <2>4, <2>5, <2>6
<1>8. ASSUME NEW r \in Relays, hold(r) \/ Leaves(r) \/ Dispatches(r)
      PROVE  OneClaimInTheGrace'
  BY <1>a, <1>b, <1>8 DEF hold, Leaves, Dispatches, Goes
<1>9. ASSUME NEW r \in Relays, expireOveraged(r) PROVE OneClaimInTheGrace'
  <2>1. UNCHANGED <<slack, overlap, home>> /\ pc' = [pc EXCEPT ![r] = "claim"]
    BY <1>9 DEF expireOveraged, Goes
  <2>2. row'.age = row.age /\ row'.claimed = row.claimed
    BY <1>9, RowFields DEF expireOveraged
  <2> QED BY <1>a, <1>b, <2>1, <2>2
<1>10. ASSUME NEW r \in Relays, claimPending(r) PROVE OneClaimInTheGrace'
  <2>1. /\ row'.age = row.age /\ (row.claimed => row'.claimed)
        /\ UNCHANGED <<home, slack, overlap>>
        /\ \E w \in {"check", "leave"} : Goes(r, w) /\ (w = "check" => Claimable /\ row'.claimed)
    BY <1>10, ClaimEffect
  <2>2. CASE pc' = [pc EXCEPT ![r] = "leave"]
    BY <1>a, <1>b, <2>1, <2>2
  <2>3. CASE pc' = [pc EXCEPT ![r] = "check"] /\ Claimable /\ row'.claimed
    <3>1. ~row.claimed
      BY <2>3 DEF Claimable
    <3> QED BY <1>a, <2>1, <2>3, <3>1
  <2> QED BY <2>1, <2>2, <2>3 DEF Goes
<1>11. ASSUME NEW r \in Relays, RelayAcks(r) PROVE OneClaimInTheGrace'
  <2>1. UNCHANGED <<slack, overlap, home>> /\ pc' = [pc EXCEPT ![r] = "leave"]
    BY <1>11 DEF RelayAcks, Goes
  <2>2. row'.age = row.age /\ row'.claimed = row.claimed
    BY <1>11, RowFields DEF RelayAcks, Acked
  <2> QED BY <1>a, <1>b, <2>1, <2>2
<1>12. ASSUME NEW r \in Relays, LossNoticed(r) \/ GiveUpExpires(r) PROVE OneClaimInTheGrace'
  BY <1>b, <1>12 DEF LossNoticed, GiveUpExpires
<1>13. ASSUME NEW r \in Relays, Crashes(r) PROVE OneClaimInTheGrace'
  <2>1. /\ UNCHANGED <<home, row, overlap>> /\ slack'.posted = slack.posted
        /\ (\A s \in Senders : pc[s] # "sent") => slack'.stray = slack.stray
        /\ pc'[r] = "out" /\ \A s \in Relays \ {r} : pc'[s] = pc[s]
    BY <1>13, CrashEffect
  <2> SUFFICES ASSUME ~overlap, ~run, row.age = "young" PROVE OneClaimInTheGrace'
    BY <2>1
  <2>2. ~row.claimed => \A s \in Senders : pc[s] # "sent"
    BY <1>a
  <2>3. ASSUME NEW t \in Relays, pc'[t] = "check" PROVE \A s \in Senders : pc[s] # "sent"
    BY <1>a, <2>1, <2>3
  <2> QED BY <2>1, <2>2, <2>3
<1>14. CASE UNCHANGED vars
  BY <1>b, <1>14 DEF vars
<1> QED BY <1>1, <1>2, <1>3, <1>4, <1>5, <1>6, <1>7, <1>8, <1>9, <1>10, <1>11, <1>12, <1>13,
           <1>14
        DEF Next, RelayStep

\* postWithVerify and the outbox: crashes, lost answers, failed acknowledgements and lost
\* leases alone never post the message a second time.  It takes two posts at one time, a
\* request that landed late, a handler that came after a relay, or a row opened anew.
THEOREM PostedOnceHolds == Spec => []PostedOnce
<1>1. Init => PostInv
  BY DEF Init, PostInv, SearchFinds, OneClaimInTheGrace, Delivering, Senders
<1>2. ClaimInv /\ PostInv /\ [Next]_vars => PostInv'
  BY SearchFindsStep, OneClaimStep DEF PostInv
<1>3. ClaimInv /\ PostInv => PostedOnce
  <2> SUFFICES ASSUME ClaimInv, PostInv, slack.posted > 1 PROVE overlap \/ late
    BY DEF PostedOnce
  <2>1. slack.posted \in Nat
    BY DEF ClaimInv, DeliveryTypeOK, Messages
  <2> QED BY <2>1 DEF PostInv, SearchFinds
<1> QED BY <1>1, <1>2, <1>3, ClaimInvariant, PTL DEF Spec
=============================================================================
