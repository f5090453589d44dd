-------------------------- MODULE RunSignalsProofs --------------------------
(***************************************************************************)
(* Proofs about RunSignals, for any number of signals, crashes and faults, *)
(* for conversations and subagents, and for both kinds of harness.         *)
(*                                                                         *)
(* The argument follows a message through its three homes.  While a turn   *)
(* runs, what the tape holds is in the attempt's history or was declined   *)
(* by its poller (ReadOnce), so that no drain offers it again.  After the  *)
(* run a message is in the table or taken, and replayed from one of them   *)
(* only (ReplayedOnce).  Between the two, only a reading whose             *)
(* acknowledgement is missing is still in the table (Accounted).           *)
(***************************************************************************)
EXTENDS RunSignals, TLAPS, WellFoundedInduction

Kinds == {"steer", "files", "abort", "client_result"}

SignalTypeOK ==
    /\ status \in {"pending", "running", "terminal", "gone"}
    /\ kind \in [Ids -> Kinds \cup {"none"}]
    /\ pending \subseteq Sent
    /\ sender \in {"idle", "pending", "running", "withdraw"}
    /\ sender \in {"pending", "running"} => Sent # Ids
    /\ phase \in {"off", "turn", "stopping", "closing"}
    /\ known \subseteq Steers /\ inbox \subseteq Steers /\ intake \subseteq Steers
    /\ at \in {"idle", "read", "each", "ack"}
    /\ todo \subseteq Ids /\ declined \subseteq Ids
    /\ taken \subseteq Steers /\ confirming \subseteq Steers
    /\ taped \in [Ids -> Nat] /\ replayed \in [Ids -> Nat]
    /\ \A n \in Ids \ Steers : taped[n] = 0 /\ replayed[n] = 0

\* The run has one attempt at a time, with its poller; a replay only comes after it.
OneAfterTheOther ==
    /\ phase # "off" => status = "running"
    /\ phase = "off" => at = "idle" /\ intake = {}
    /\ phase # "turn" => ~accepting
    /\ phase = "closing" => at = "idle"
    /\ ~Over => /\ taken = {} /\ confirming = {} /\ dropped = {} /\ refused = {}
                /\ \A n \in Ids : replayed[n] = 0
    /\ Keyed => taken = {}

\* The attempt knows what the tape held before it and has declined what it took in
\* itself; what it is about to read is in neither.
ReadOnce ==
    /\ \A n \in Ids : taped[n] <= 1
    /\ \A n \in known \cup intake : taped[n] > 0
    /\ phase # "off" =>
          /\ \A n \in Ids : taped[n] > 0 => n \in known \cup declined
          /\ \A n \in inbox : taped[n] = 0 /\ n \in declined
    /\ at = "ack" => First \in known

\* A message is replayed out of the table (a subagent's, under its key) or out of the
\* hands of the process that took it.
ReplayedOnce ==
    /\ \A n \in Ids : replayed[n] <= 1
    /\ taken \cap pending = {}
    /\ ~Keyed => \A n \in pending \cup taken : replayed[n] = 0
    /\ \A n \in confirming : replayed[n] > 0 \/ n \in refused

\* A message that was read and is still there, or was replayed, is one whose
\* acknowledgement is missing.
Accounted ==
    /\ \A n \in Ids : taped[n] > 0 /\ n \in pending \cup taken => n \in missed
    /\ \A n \in Ids : taped[n] > 0 /\ replayed[n] > 0 => n \in missed
    /\ \A n \in Steers \ pending : Heard(n) \/ n \in taken \cup dropped \cup refused

\* Of a subagent's messages a replay passes over only those without text.
PassedOver ==
    /\ dropped \subseteq Steers
    /\ Keyed => \A n \in dropped : kind[n] = "files"

SignalInv ==
    /\ SignalTypeOK /\ OneAfterTheOther /\ ReadOnce /\ ReplayedOnce /\ Accounted
    /\ PassedOver

\* A wait that consumed a result has returned it, and one that found nothing hears
\* of what has come since.
WaitHears ==
    /\ wait \in {"none", "waiting", "reading", "found", "empty", "acking", "done"}
    /\ wait = "acking" => outcome = "result"
    /\ \A n \in Sent \ pending :
         (kind[n] = "client_result" /\ ~Over) => wait = "done" /\ outcome = "result"
    /\ (wait = "waiting" /\ Answer # {}) => bell
    /\ (wait = "empty" /\ Answer # {}) => bell \/ recheck

-----------------------------------------------------------------------------
(* Operators                                                               *)

\* The least of the ids.
LEMMA MinIsLeast ==
    ASSUME NEW S, S \subseteq Nat, S # {}
    PROVE  Min(S) \in S
<1> DEFINE R == OpToRel(<, Nat)
<1>1. IsWellFoundedOn(R, Nat)
  BY NatLessThanWellFounded
<1>2. R = {ss \in Nat \X Nat : ss[1] < ss[2]}
  BY DEF OpToRel
<1> HIDE DEF R
<1>3. PICK x \in S : \A y \in S : ~(<<y, x>> \in R)
  BY <1>1, WFMin
<1>4. ASSUME NEW y \in S PROVE x <= y
  <2> DEFINE ss == <<y, x>>
  <2>1. ss \in Nat \X Nat /\ ss[1] = y /\ ss[2] = x /\ x \in Nat /\ y \in Nat
    OBVIOUS
  <2>2. ss \notin R
    BY <1>3
  <2> HIDE DEF ss
  <2>3. ~(ss[1] < ss[2])
    BY <1>2, <2>1, <2>2
  <2> QED BY <2>1, <2>3
<1> QED BY <1>4 DEF Min

\* The signal a drain looks at is one of those it read.
LEMMA FirstIsOne ==
    ASSUME SignalTypeOK, todo # {}
    PROVE  First \in todo /\ First \in Ids
<1>1. todo \subseteq Nat
  BY DEF SignalTypeOK, Ids
<1> QED BY <1>1, MinIsLeast DEF First, SignalTypeOK

\* Rows keep their kind.
LEMMA KindKept ==
    ASSUME UNCHANGED kind
    PROVE  Sent' = Sent /\ Steers' = Steers
BY DEF Sent, Steers

\* A signal that is sent is a new row.
LEMMA FreshRow ==
    ASSUME SignalTypeOK, NEW k \in Kinds, Sends(k)
    PROVE  \E n \in Ids \ Sent :
              /\ kind' = [kind EXCEPT ![n] = k] /\ pending' = pending \cup {n}
              /\ Sent' = Sent \cup {n}
              /\ Steers' = (IF k \in {"steer", "files"} THEN Steers \cup {n} ELSE Steers)
              /\ taped[n] = 0 /\ replayed[n] = 0 /\ n \notin Steers
<1> DEFINE n == Min(Ids \ Sent)
<1>1. kind' = [kind EXCEPT ![n] = k] /\ pending' = pending \cup {n}
  BY DEF Sends
<1>2. Ids \ Sent # {} /\ Ids \ Sent \subseteq Nat
  BY DEF Sends, SignalTypeOK, Sent, Ids
<1>3. n \in Ids \ Sent
  BY <1>2, MinIsLeast
<1> HIDE DEF n
<1>4. n \notin Steers
  BY <1>3 DEF Sent, Steers
<1>5. Sent' = Sent \cup {n} /\ Steers' = (IF k \in {"steer", "files"} THEN Steers \cup {n} ELSE Steers)
  BY <1>1, <1>3, <1>4 DEF SignalTypeOK, Sent, Steers, Kinds
<1> QED BY <1>1, <1>3, <1>4, <1>5 DEF SignalTypeOK

-----------------------------------------------------------------------------
(* Types                                                                   *)

\* Every step keeps the types.
LEMMA SignalTypeStep ==
    ASSUME SignalInv, [Next]_vars
    PROVE  SignalTypeOK'
<1> USE DEF SignalInv
<1>1. CASE SenderReads
  BY <1>1, KindKept DEF SignalTypeOK, SenderReads, Over, tableVars, turnVars, pollVars, replayVars
<1>2. ASSUME NEW k \in Kinds, Sends(k) PROVE SignalTypeOK'
  <2>1. PICK n \in Ids \ Sent :
              /\ kind' = [kind EXCEPT ![n] = k] /\ pending' = pending \cup {n}
              /\ Sent' = Sent \cup {n}
              /\ Steers' = (IF k \in {"steer", "files"} THEN Steers \cup {n} ELSE Steers)
              /\ taped[n] = 0 /\ replayed[n] = 0 /\ n \notin Steers
    BY <1>2, FreshRow
  <2>2. Steers \subseteq Steers' /\ kind' \in [Ids -> Kinds \cup {"none"}]
    BY <1>2, <2>1 DEF SignalTypeOK
  <2> QED BY <1>2, <2>1, <2>2 DEF SignalTypeOK, Sends, turnVars, pollVars, replayVars
<1>3. CASE Withdraws
  BY <1>3, KindKept DEF SignalTypeOK, Withdraws, turnVars, pollVars, replayVars
<1>4. CASE Rings
  BY <1>4, KindKept DEF SignalTypeOK, Rings, drain, turnVars, replayVars
<1>5. CASE Ticks
  BY <1>5, KindKept DEF SignalTypeOK, Ticks, drain, tableVars, turnVars, replayVars
<1>6. CASE DrainReads
  BY <1>6, KindKept DEF SignalTypeOK, DrainReads, Sent, tableVars, turnVars, replayVars
<1>7. CASE DrainSkips \/ DrainAborts
  BY <1>7, KindKept DEF SignalTypeOK, DrainSkips, DrainAborts, tableVars, turnVars, replayVars
<1>8. CASE DrainOffers
  <2>1. First \in Steers
    BY <1>8, FirstIsOne DEF DrainOffers, Offered, Steers
  <2>2. Steers \subseteq Ids
    BY DEF Steers
  <2> QED BY <1>8, <2>1, <2>2, KindKept DEF SignalTypeOK, DrainOffers, tableVars, replayVars
<1>9. CASE DrainAcknowledges \/ DrainEnds
  BY <1>9, KindKept DEF SignalTypeOK, DrainAcknowledges, DrainEnds, tableVars, turnVars, replayVars
<1>10. CASE TurnStarts
  <2>1. {n \in Ids : taped[n] > 0} \subseteq Steers
    BY DEF SignalTypeOK
  <2> QED BY <1>10, <2>1, KindKept DEF SignalTypeOK, TurnStarts, replayVars
<1>11. CASE TakesIn
  <2>1. PICK n \in inbox : inbox' = inbox \ {n} /\ intake' = {n}
                           /\ taped' = [taped EXCEPT ![n] = @ + 1]
    BY <1>11 DEF TakesIn
  <2>2. n \in Steers /\ n \in Ids
    BY <2>1 DEF SignalTypeOK, Steers
  <2>3. taped' \in [Ids -> Nat] /\ \A m \in Ids \ Steers : taped'[m] = 0
    BY <2>1, <2>2 DEF SignalTypeOK
  <2> QED BY <1>11, <2>1, <2>2, <2>3, KindKept
          DEF SignalTypeOK, TakesIn, tableVars, pollVars, replayVars
<1>12. CASE Acknowledges \/ PollerStopped \/ TurnEnds
  BY <1>12, KindKept DEF SignalTypeOK, Acknowledges, PollerStopped, TurnEnds, tableVars,
                         pollVars, replayVars
<1>13. CASE StopsPoller
  BY <1>13, KindKept DEF SignalTypeOK, StopsPoller, tableVars, replayVars
<1>14. CASE Crashes
  BY <1>14, KindKept DEF SignalTypeOK, Crashes, replayVars
<1>15. CASE WaitStarts \/ WaitStep
  BY <1>15, KindKept DEF SignalTypeOK, WaitStarts, WaitStep, WaitReads, WaitSees,
                         WaitAcknowledges, WaitGivesUp, others, turnVars, pollVars, replayVars
<1>16. CASE ReplayTakes
  BY <1>16, KindKept DEF SignalTypeOK, ReplayTakes, unreplayed, turnVars, pollVars
<1>17. CASE ReplayEnqueues
  <2>1. PICK n \in taken : /\ taken' = taken \ {n}
                           /\ replayed' = [replayed EXCEPT ![n] = @ + 1] \/ UNCHANGED replayed
    BY <1>17 DEF ReplayEnqueues
  <2>2. n \in Steers /\ n \in Ids
    BY <2>1 DEF SignalTypeOK, Steers
  <2>3. replayed' \in [Ids -> Nat] /\ \A m \in Ids \ Steers : replayed'[m] = 0
    BY <2>1, <2>2 DEF SignalTypeOK
  <2> QED BY <1>17, <2>1, <2>3, KindKept
          DEF SignalTypeOK, ReplayEnqueues, unreplayed, turnVars, pollVars
<1>18. CASE ReplayKeyed
  <2>1. PICK n \in pending :
           /\ \/ UNCHANGED <<replayed, confirming>>
              \/ /\ kind[n] = "steer" /\ confirming' = confirming \cup {n}
                 /\ replayed' = [replayed EXCEPT ![n] = 1] \/ UNCHANGED replayed
           /\ pending' \subseteq pending
    BY <1>18 DEF ReplayKeyed
  <2>2. n \in Ids /\ (kind[n] = "steer" => n \in Steers)
    BY DEF SignalTypeOK, Sent, Steers
  <2>3. replayed' \in [Ids -> Nat] /\ \A m \in Ids \ Steers : replayed'[m] = 0
    BY <2>1, <2>2 DEF SignalTypeOK
  <2> QED BY <1>18, <2>1, <2>2, <2>3, KindKept
          DEF SignalTypeOK, ReplayKeyed, unreplayed, turnVars, pollVars
<1>19. CASE ReplayConfirms
  BY <1>19, KindKept DEF SignalTypeOK, ReplayConfirms, unreplayed, turnVars, pollVars
<1>20. CASE UNCHANGED vars
  BY <1>20, KindKept DEF SignalTypeOK, vars
<1> QED BY <1>1, <1>2, <1>3, <1>4, <1>5, <1>6, <1>7, <1>8, <1>9, <1>10, <1>11, <1>12, <1>13,
           <1>14, <1>15, <1>16, <1>17, <1>18, <1>19, <1>20
        DEF Next, PollStep, TurnStep, ReplayStep, Kinds

-----------------------------------------------------------------------------
(* One attempt at a time                                                   *)

\* Every step leaves one attempt at a time, and replays after it.
LEMMA OneAfterTheOtherStep ==
    ASSUME SignalInv, [Next]_vars
    PROVE  OneAfterTheOther'
<1> USE DEF SignalInv, OneAfterTheOther, Over, Keyed
<1>1. CASE SenderReads
  BY <1>1 DEF SenderReads, tableVars, turnVars, pollVars, replayVars, fixed
<1>2. ASSUME NEW k \in Kinds, Sends(k) PROVE OneAfterTheOther'
  BY <1>2 DEF Sends, turnVars, pollVars, replayVars, fixed
<1>3. CASE Withdraws
  BY <1>3 DEF Withdraws, turnVars, pollVars, replayVars, fixed
<1>4. CASE Rings
  BY <1>4 DEF Rings, drain, turnVars, replayVars, fixed
<1>5. CASE Ticks
  BY <1>5 DEF Ticks, drain, tableVars, turnVars, replayVars, fixed
<1>6. CASE PollStep
  BY <1>6 DEF PollStep, DrainReads, DrainSkips, DrainAborts, DrainOffers, Offered,
              DrainAcknowledges, DrainEnds, tableVars, turnVars, replayVars, fixed
<1>7. CASE TurnStarts
  BY <1>7 DEF TurnStarts, replayVars, fixed
<1>8. CASE TakesIn \/ Acknowledges
  BY <1>8 DEF TakesIn, Acknowledges, tableVars, pollVars, replayVars, fixed
<1>15. CASE PollerStopped \/ TurnEnds
  BY <1>15 DEF PollerStopped, TurnEnds, SignalTypeOK, tableVars, pollVars, replayVars, fixed
<1>9. CASE StopsPoller
  BY <1>9 DEF StopsPoller, tableVars, replayVars, fixed
<1>10. CASE Crashes
  BY <1>10 DEF Crashes, replayVars, fixed
<1>11. CASE WaitStarts \/ WaitStep
  BY <1>11 DEF WaitStarts, WaitStep, WaitReads, WaitSees, WaitAcknowledges, WaitGivesUp,
               others, turnVars, pollVars, replayVars, fixed
<1>12. CASE ReplayTakes \/ ReplayEnqueues
  BY <1>12 DEF ReplayTakes, ReplayEnqueues, unreplayed, turnVars, pollVars, fixed
<1>13. CASE ReplayKeyed \/ ReplayConfirms
  BY <1>13 DEF ReplayKeyed, ReplayConfirms, unreplayed, turnVars, pollVars, fixed
<1>14. CASE UNCHANGED vars
  BY <1>14 DEF vars
<1> QED BY <1>1, <1>2, <1>3, <1>4, <1>5, <1>6, <1>7, <1>8, <1>9, <1>10, <1>11, <1>12, <1>13,
           <1>14, <1>15
        DEF Next, TurnStep, ReplayStep, Kinds

-----------------------------------------------------------------------------
(* A message is read once                                                  *)

\* No step makes the model read a message again.
LEMMA ReadOnceStep ==
    ASSUME SignalInv, [Next]_vars
    PROVE  ReadOnce'
<1> USE DEF SignalInv, ReadOnce, First
<1>1. CASE SenderReads
  BY <1>1 DEF SenderReads, turnVars, pollVars
<1>2. ASSUME NEW k \in Kinds, Sends(k) PROVE ReadOnce'
  BY <1>2 DEF Sends, turnVars, pollVars
<1>3. CASE Withdraws
  BY <1>3 DEF Withdraws, turnVars, pollVars
<1>4. CASE Rings
  BY <1>4 DEF Rings, drain, turnVars
<1>5. CASE Ticks
  BY <1>5 DEF Ticks, drain, turnVars
<1>6. CASE DrainReads \/ DrainSkips \/ DrainAborts \/ DrainEnds
  BY <1>6 DEF DrainReads, DrainSkips, DrainAborts, DrainEnds, turnVars
<1>7. CASE DrainOffers
  <2>1. First \in Ids /\ First \in Steers
    BY <1>7, FirstIsOne DEF DrainOffers, Offered, Steers
  <2>2. phase # "off"
    BY <1>7 DEF DrainOffers, Offered, OneAfterTheOther
  <2>3. First \notin known => taped[First] = 0
    BY <1>7, <2>1, <2>2 DEF DrainOffers, Offered, SignalTypeOK
  <2> QED BY <1>7, <2>1, <2>2, <2>3 DEF DrainOffers, Offered
<1>8. CASE DrainAcknowledges
  BY <1>8 DEF DrainAcknowledges, turnVars
<1>9. CASE TurnStarts
  BY <1>9 DEF TurnStarts
<1>10. CASE TakesIn
  <2>1. PICK n \in inbox : inbox' = inbox \ {n} /\ intake' = {n}
                           /\ taped' = [taped EXCEPT ![n] = @ + 1]
    BY <1>10 DEF TakesIn
  <2>2. n \in Ids /\ phase # "off" /\ taped[n] = 0 /\ n \in declined
    BY <1>10, <2>1 DEF TakesIn, SignalTypeOK, Steers
  <2>3. known \subseteq Ids /\ inbox \subseteq Ids /\ taped' \in [Ids -> Nat]
    BY <2>1, <2>2 DEF SignalTypeOK, Steers
  <2>4. taped'[n] = 1 /\ \A m \in Ids \ {n} : taped'[m] = taped[m]
    BY <2>1, <2>2 DEF SignalTypeOK
  <2> QED BY <1>10, <2>1, <2>2, <2>3, <2>4 DEF TakesIn, pollVars
<1>11. CASE Acknowledges \/ PollerStopped \/ TurnEnds
  BY <1>11 DEF Acknowledges, PollerStopped, TurnEnds, pollVars
<1>12. CASE StopsPoller
  BY <1>12 DEF StopsPoller
<1>13. CASE Crashes
  BY <1>13 DEF Crashes
<1>14. CASE WaitStarts \/ WaitStep
  BY <1>14 DEF WaitStarts, WaitStep, WaitReads, WaitSees, WaitAcknowledges, WaitGivesUp,
               others, turnVars, pollVars
<1>15. CASE ReplayStep
  BY <1>15 DEF ReplayStep, ReplayTakes, ReplayEnqueues, ReplayKeyed, ReplayConfirms,
               unreplayed, turnVars, pollVars
<1>16. CASE UNCHANGED vars
  BY <1>16 DEF vars
<1> QED BY <1>1, <1>2, <1>3, <1>4, <1>5, <1>6, <1>7, <1>8, <1>9, <1>10, <1>11, <1>12, <1>13,
           <1>14, <1>15, <1>16
        DEF Next, PollStep, TurnStep, Kinds

-----------------------------------------------------------------------------
(* A message is replayed once                                              *)

\* No step replays a message again.
LEMMA ReplayedOnceStep ==
    ASSUME SignalInv, [Next]_vars
    PROVE  ReplayedOnce'
<1> USE DEF SignalInv, ReplayedOnce, Keyed
<1>1. CASE SenderReads
  BY <1>1 DEF SenderReads, tableVars, replayVars, fixed
<1>2. ASSUME NEW k \in Kinds, Sends(k) PROVE ReplayedOnce'
  <2>1. PICK n \in Ids \ Sent :
              pending' = pending \cup {n} /\ replayed[n] = 0 /\ n \notin Steers
    BY <1>2, FreshRow
  <2> QED BY <1>2, <2>1 DEF Sends, replayVars, fixed, SignalTypeOK
<1>3. CASE Withdraws
  BY <1>3 DEF Withdraws, replayVars, fixed, OneAfterTheOther, Over
<1>4. CASE Rings \/ Ticks
  BY <1>4 DEF Rings, Ticks, tableVars, replayVars, fixed
<1>5. CASE DrainReads \/ DrainSkips \/ DrainAborts \/ DrainOffers \/ DrainEnds
  BY <1>5 DEF DrainReads, DrainSkips, DrainAborts, DrainOffers, DrainEnds, tableVars,
              replayVars, fixed
<1>6. CASE DrainAcknowledges
  BY <1>6 DEF DrainAcknowledges, replayVars, fixed
<1>7. CASE TurnStarts
  <2>1. ~Over
    BY <1>7 DEF TurnStarts, Over
  <2> QED BY <1>7, <2>1 DEF TurnStarts, replayVars, fixed, OneAfterTheOther, SignalTypeOK, Sent
<1>8. CASE TakesIn \/ Acknowledges \/ PollerStopped
  BY <1>8 DEF TakesIn, Acknowledges, PollerStopped, tableVars, replayVars, fixed
<1>9. CASE TurnEnds
  <2>1. ~Over
    BY <1>9 DEF TurnEnds, OneAfterTheOther, Over
  <2> QED BY <1>9, <2>1 DEF TurnEnds, replayVars, fixed, OneAfterTheOther, SignalTypeOK, Sent
<1>10. CASE StopsPoller
  BY <1>10 DEF StopsPoller, tableVars, replayVars, fixed
<1>11. CASE Crashes
  <2>1. ~Over
    BY <1>11 DEF Crashes, OneAfterTheOther, Over
  <2> QED BY <1>11, <2>1 DEF Crashes, replayVars, fixed, OneAfterTheOther, SignalTypeOK, Sent
<1>12. CASE WaitStarts \/ WaitStep
  BY <1>12 DEF WaitStarts, WaitStep, WaitReads, WaitSees, WaitAcknowledges, WaitGivesUp,
               others, replayVars, fixed
<1>13. CASE ReplayTakes
  BY <1>13 DEF ReplayTakes, unreplayed, fixed
<1>14. CASE ReplayEnqueues
  <2>1. PICK n \in taken :
              /\ taken' = taken \ {n} /\ UNCHANGED <<pending, confirming, refused>>
              /\ replayed' = [replayed EXCEPT ![n] = @ + 1] \/ UNCHANGED replayed
    BY <1>14 DEF ReplayEnqueues
  <2>2. n \in Ids /\ n \notin pending /\ ~Keyed /\ ~Keyed'
    BY <1>14, <2>1 DEF ReplayEnqueues, SignalTypeOK, Steers, OneAfterTheOther, unreplayed, fixed
  <2>3. replayed[n] = 0
    BY <2>1, <2>2
  <2>4. /\ replayed'[n] \in {0, 1}
        /\ \A m \in Ids \ {n} : replayed'[m] = replayed[m]
        /\ replayed[n] > 0 => replayed'[n] > 0
    BY <2>1, <2>2, <2>3 DEF SignalTypeOK
  <2>5. pending \subseteq Ids /\ taken \subseteq Ids /\ confirming \subseteq Ids
    BY DEF SignalTypeOK, Sent, Steers
  <2> QED BY <2>1, <2>2, <2>3, <2>4, <2>5
<1>15. CASE ReplayKeyed
  <2>1. Keyed /\ Keyed' /\ taken' = taken /\ taken = {}
    BY <1>15 DEF ReplayKeyed, unreplayed, fixed, OneAfterTheOther
  <2>2. PICK n \in pending :
           /\ \/ UNCHANGED <<replayed, confirming, refused>>
              \/ /\ confirming' = confirming \cup {n}
                 /\ replayed' = [replayed EXCEPT ![n] = 1] /\ UNCHANGED refused
              \/ /\ confirming' = confirming \cup {n}
                 /\ refused' = refused \cup {n} /\ UNCHANGED replayed
           /\ pending' \subseteq pending
    BY <1>15 DEF ReplayKeyed
  <2>3. confirming \subseteq Ids /\ n \in Ids
    BY DEF SignalTypeOK, Sent, Steers
  <2>4. /\ \A m \in Ids : replayed'[m] \in {replayed[m], 1}
        /\ replayed' = replayed \/ replayed'[n] = 1
    BY <2>2, <2>3 DEF SignalTypeOK
  <2> QED BY <2>1, <2>2, <2>3, <2>4 DEF SignalTypeOK
<1>16. CASE ReplayConfirms
  BY <1>16 DEF ReplayConfirms, unreplayed, fixed
<1>17. CASE UNCHANGED vars
  BY <1>17 DEF vars
<1> QED BY <1>1, <1>2, <1>3, <1>4, <1>5, <1>6, <1>7, <1>8, <1>9, <1>10, <1>11, <1>12, <1>13,
           <1>14, <1>15, <1>16, <1>17
        DEF Next, PollStep, TurnStep, ReplayStep, Kinds

-----------------------------------------------------------------------------
(* What is consumed was heard, and what was read and stays was missed      *)

\* While the run is active nothing was replayed, taken or dropped: whatever left the
\* table was read.
LEMMA HeardWhileActive ==
    ASSUME SignalInv, ~Over
    PROVE  /\ \A n \in Ids : replayed[n] = 0
           /\ taken = {} /\ dropped = {} /\ refused = {}
           /\ \A n \in Steers \ pending : taped[n] > 0
<1>1. /\ \A n \in Ids : replayed[n] = 0
      /\ taken = {} /\ dropped = {} /\ refused = {}
  BY DEF SignalInv, OneAfterTheOther
<1>2. ASSUME NEW n \in Steers \ pending PROVE taped[n] > 0
  <2>1. replayed[n] = 0 /\ n \notin taken /\ n \notin dropped /\ n \notin refused
    BY <1>1 DEF Steers
  <2> QED BY <2>1 DEF SignalInv, Accounted, Heard
<1> QED BY <1>1, <1>2

\* Every step accounts for what it consumes.
LEMMA AccountedStep ==
    ASSUME SignalInv, [Next]_vars
    PROVE  Accounted'
<1> USE DEF SignalInv, Accounted, Heard
<1>1. CASE SenderReads
  BY <1>1, KindKept DEF SenderReads, tableVars, replayVars, fixed
<1>2. ASSUME NEW k \in Kinds, Sends(k) PROVE Accounted'
  <2>1. PICK n \in Ids \ Sent :
              /\ pending' = pending \cup {n} /\ taped[n] = 0 /\ replayed[n] = 0
              /\ Steers' = (IF k \in {"steer", "files"} THEN Steers \cup {n} ELSE Steers)
    BY <1>2, FreshRow
  <2> QED BY <1>2, <2>1 DEF Sends, replayVars, fixed
<1>3. CASE Withdraws
  <2>2. UNCHANGED <<pending, taken, dropped, refused, replayed, taped, missed>> /\ Steers' = Steers
    BY <1>3, KindKept DEF Withdraws, replayVars
  <2> QED BY <2>2
<1>4. CASE Rings \/ Ticks
  <2>1. /\ UNCHANGED <<status, subagent, pending, taken, dropped, refused, replayed, taped, missed>>
        /\ Steers' = Steers
    BY <1>4, KindKept DEF Rings, Ticks, tableVars, replayVars, fixed
  <2> QED BY <2>1
<1>5. CASE DrainReads \/ DrainSkips \/ DrainAborts \/ DrainOffers \/ DrainEnds
  BY <1>5, KindKept DEF DrainReads, DrainSkips, DrainAborts, DrainOffers, DrainEnds,
                        tableVars, replayVars, fixed
<1>6. CASE DrainAcknowledges
  <2>1. taped[First] > 0
    BY <1>6 DEF DrainAcknowledges, ReadOnce
  <2>2. /\ pending' = pending \ {First} \/ pending' = pending
        /\ status' = status /\ subagent' = subagent
        /\ UNCHANGED <<taken, dropped, refused, replayed, taped, missed>>
    BY <1>6 DEF DrainAcknowledges, replayVars, fixed
  <2>3. Steers' = Steers
    BY <1>6, KindKept DEF DrainAcknowledges
  <2> QED BY <2>1, <2>2, <2>3
<1>7. CASE TurnStarts
  <2>1. ~Over /\ UNCHANGED <<pending, taken, dropped, refused, replayed, taped, missed>>
    BY <1>7 DEF TurnStarts, Over, replayVars
  <2>2. Steers' = Steers
    BY <1>7, KindKept DEF TurnStarts
  <2> QED BY <2>1, <2>2, HeardWhileActive
<1>8. CASE TakesIn
  <2>1. PICK n \in inbox : /\ taped' = [taped EXCEPT ![n] = @ + 1]
                           /\ missed' = missed \cup {n}
    BY <1>8 DEF TakesIn
  <2>2. n \in Ids
    BY <2>1 DEF SignalTypeOK, Steers
  <2>3. taped'[n] > 0 /\ \A m \in Ids \ {n} : taped'[m] = taped[m]
    BY <2>1, <2>2 DEF SignalTypeOK
  <2>4. /\ Steers' = Steers /\ Steers \subseteq Ids
        /\ UNCHANGED <<status, subagent, pending, taken, dropped, refused, replayed>>
    BY <1>8, KindKept DEF TakesIn, tableVars, replayVars, fixed, Steers
  <2> QED BY <2>1, <2>2, <2>3, <2>4
<1>9. CASE Acknowledges
  <2>1. ~Over
    BY <1>9 DEF Acknowledges, OneAfterTheOther, Over
  <2>2. /\ \A n \in Ids : replayed[n] = 0
        /\ taken = {} /\ dropped = {} /\ refused = {}
        /\ \A n \in Steers \ pending : taped[n] > 0
    BY <2>1, HeardWhileActive
  <2>3. /\ Steers' = Steers
        /\ UNCHANGED <<status, subagent, taken, dropped, refused, replayed, taped>>
    BY <1>9, KindKept DEF Acknowledges, replayVars, fixed
  <2>4. \/ pending' = pending \ intake /\ missed' = missed \ intake
        \/ UNCHANGED <<pending, missed>>
    BY <1>9 DEF Acknowledges
  <2>5. \A n \in intake : taped[n] > 0
    BY DEF ReadOnce
  <2> QED BY <2>2, <2>3, <2>4, <2>5
<1>10. CASE PollerStopped
  BY <1>10, KindKept DEF PollerStopped, tableVars, replayVars, fixed
<1>11. CASE TurnEnds
  <2>1. ~Over
    BY <1>11 DEF TurnEnds, OneAfterTheOther, Over
  <2>2. UNCHANGED <<pending, taken, dropped, refused, replayed, taped, missed>>
    BY <1>11 DEF TurnEnds, replayVars
  <2>3. Steers' = Steers
    BY <1>11, KindKept DEF TurnEnds
  <2> QED BY <2>1, <2>2, <2>3, HeardWhileActive
<1>12. CASE StopsPoller
  BY <1>12, KindKept DEF StopsPoller, tableVars, replayVars, fixed
<1>13. CASE Crashes
  <2>1. ~Over
    BY <1>13 DEF Crashes, OneAfterTheOther, Over
  <2>2. UNCHANGED <<pending, taken, dropped, refused, replayed, taped, missed>>
    BY <1>13 DEF Crashes, replayVars
  <2>3. Steers' = Steers
    BY <1>13, KindKept DEF Crashes
  <2> QED BY <2>1, <2>2, <2>3, HeardWhileActive
<1>14. CASE WaitStarts \/ WaitReads \/ WaitSees \/ WaitGivesUp
  BY <1>14, KindKept DEF WaitStarts, WaitReads, WaitSees, WaitGivesUp, others, replayVars, fixed
<1>15. CASE WaitAcknowledges
  <2>1. UNCHANGED <<status, subagent, taken, dropped, refused, replayed, taped, missed>>
    BY <1>15 DEF WaitAcknowledges, others, replayVars, fixed
  <2>2. Steers' = Steers /\ Steers \cap Answer = {}
    BY <1>15, KindKept DEF WaitAcknowledges, others, Steers, Answer
  <2>3. pending' = pending \ Answer \/ pending' = pending
    BY <1>15 DEF WaitAcknowledges
  <2> QED BY <2>1, <2>2, <2>3
<1>16. CASE ReplayTakes
  <2>1. Steers' = Steers
    BY <1>16, KindKept DEF ReplayTakes, unreplayed
  <2> QED BY <1>16, <2>1 DEF ReplayTakes, unreplayed, fixed
<1>17. CASE ReplayEnqueues
  <2>1. PICK n \in taken :
              /\ taken' = taken \ {n} /\ UNCHANGED <<pending, refused>>
              /\ \/ replayed' = [replayed EXCEPT ![n] = @ + 1] /\ UNCHANGED dropped
                 \/ dropped' = dropped \cup {n} /\ UNCHANGED replayed
    BY <1>17 DEF ReplayEnqueues
  <2>2. UNCHANGED <<status, subagent, taped, missed>> /\ Steers' = Steers
    BY <1>17, KindKept DEF ReplayEnqueues, unreplayed, fixed
  <2>3. n \in Ids /\ ~Keyed /\ Steers \subseteq Ids
    BY <2>1 DEF SignalTypeOK, Steers, OneAfterTheOther
  <2>4. taped[n] > 0 => n \in missed
    BY <2>1, <2>3
  <2>5. CASE dropped' = dropped \cup {n} /\ UNCHANGED replayed
    BY <2>1, <2>2, <2>3, <2>5
  <2>6. CASE replayed' = [replayed EXCEPT ![n] = @ + 1] /\ UNCHANGED dropped
    <3>1. replayed'[n] > 0 /\ \A m \in Ids \ {n} : replayed'[m] = replayed[m]
      BY <2>3, <2>6 DEF SignalTypeOK
    <3> QED BY <2>1, <2>2, <2>3, <2>4, <2>6, <3>1
  <2> QED BY <2>1, <2>5, <2>6
<1>18. CASE ReplayKeyed
  <2>1. PICK n \in pending :
           /\ replayed' = [replayed EXCEPT ![n] = 1] \/ UNCHANGED replayed
           /\ \/ UNCHANGED <<pending, dropped>>
              \/ /\ pending' = pending \ {n} /\ dropped' = dropped \cup ({n} \cap Steers)
                 /\ UNCHANGED replayed
           /\ refused \subseteq refused'
    BY <1>18 DEF ReplayKeyed
  <2>2. UNCHANGED <<taken, taped, missed>> /\ Steers' = Steers
    BY <1>18, KindKept DEF ReplayKeyed, unreplayed
  <2>3. n \in Ids /\ Steers \subseteq Ids /\ taken = {}
    BY <1>18, <2>1 DEF SignalTypeOK, Steers, Sent, ReplayKeyed, OneAfterTheOther
  <2>4. \A m \in Ids : replayed[m] > 0 => replayed'[m] > 0
    BY <2>1, <2>3 DEF SignalTypeOK
  <2>5. \A m \in Ids : replayed'[m] > 0 => replayed[m] > 0 \/ m = n
    BY <2>1, <2>3 DEF SignalTypeOK
  <2> QED BY <2>1, <2>2, <2>3, <2>4, <2>5
<1>19. CASE ReplayConfirms
  <2>1. PICK n \in confirming : pending' = pending \ {n} \/ UNCHANGED pending
    BY <1>19 DEF ReplayConfirms
  <2>2. /\ Steers' = Steers
        /\ UNCHANGED <<status, subagent, taken, dropped, refused, taped, missed, replayed>>
    BY <1>19, KindKept DEF ReplayConfirms, unreplayed, fixed
  <2>3. replayed[n] > 0 \/ n \in refused
    BY <2>1 DEF ReplayedOnce
  <2> QED BY <2>1, <2>2, <2>3
<1>20. CASE UNCHANGED vars
  BY <1>20, KindKept DEF vars
<1> QED BY <1>1, <1>2, <1>3, <1>4, <1>5, <1>6, <1>7, <1>8, <1>9, <1>10, <1>11, <1>12, <1>13,
           <1>14, <1>15, <1>16, <1>17, <1>18, <1>19, <1>20
        DEF Next, PollStep, TurnStep, WaitStep, ReplayStep, Kinds

\* Every step that drops a message of a subagent drops one without text.
LEMMA PassedOverStep ==
    ASSUME SignalInv, [Next]_vars
    PROVE  PassedOver'
<1> USE DEF SignalInv, PassedOver
<1>1. ASSUME UNCHANGED <<dropped, kind>>, Keyed' => Keyed PROVE PassedOver'
  BY <1>1, KindKept
<1>2. ASSUME UNCHANGED <<dropped, kind>>, ~Over PROVE PassedOver'
  BY <1>2, KindKept, HeardWhileActive
<1>3. CASE SenderReads \/ Withdraws
  <2>1. UNCHANGED <<dropped, kind>> /\ (Keyed' => Keyed)
    BY <1>3 DEF SenderReads, Withdraws, tableVars, replayVars, fixed, Keyed
  <2> QED BY <1>1, <2>1
<1>13. CASE Rings \/ Ticks
  <2>1. UNCHANGED <<dropped, kind, status, subagent>>
    BY <1>13 DEF Rings, Ticks, tableVars, replayVars, fixed
  <2> QED BY <1>1, <2>1 DEF Keyed
<1>4. ASSUME NEW k \in Kinds, Sends(k) PROVE PassedOver'
  <2>1. PICK n \in Ids \ Sent :
              /\ kind' = [kind EXCEPT ![n] = k] /\ n \notin Steers
              /\ Steers' = (IF k \in {"steer", "files"} THEN Steers \cup {n} ELSE Steers)
    BY <1>4, FreshRow
  <2>2. dropped' = dropped /\ (Keyed' => Keyed)
    BY <1>4 DEF Sends, replayVars, fixed, Keyed
  <2>3. \A m \in dropped : kind'[m] = kind[m]
    BY <2>1 DEF SignalTypeOK, Steers
  <2> QED BY <2>1, <2>2, <2>3
<1>5. CASE PollStep
  <2>1. UNCHANGED <<dropped, kind>> /\ (Keyed' => Keyed)
    BY <1>5 DEF PollStep, DrainReads, DrainSkips, DrainAborts, DrainOffers, DrainAcknowledges,
                DrainEnds, tableVars, replayVars, fixed, Keyed
  <2> QED BY <1>1, <2>1
<1>6. CASE TurnStarts \/ TurnEnds \/ Crashes
  <2>1. UNCHANGED <<dropped, kind>> /\ ~Over
    BY <1>6 DEF TurnStarts, TurnEnds, Crashes, replayVars, OneAfterTheOther, Over
  <2> QED BY <1>2, <2>1
<1>7. CASE TakesIn \/ Acknowledges \/ PollerStopped \/ StopsPoller
  <2>1. UNCHANGED <<dropped, kind>> /\ (Keyed' => Keyed)
    BY <1>7 DEF TakesIn, Acknowledges, PollerStopped, StopsPoller, tableVars, replayVars,
                fixed, Keyed
  <2> QED BY <1>1, <2>1
<1>8. CASE WaitStarts \/ WaitStep
  <2>1. UNCHANGED <<dropped, kind>> /\ (Keyed' => Keyed)
    BY <1>8 DEF WaitStarts, WaitStep, WaitReads, WaitSees, WaitAcknowledges, WaitGivesUp,
                others, replayVars, fixed, Keyed
  <2> QED BY <1>1, <2>1
<1>9. CASE ReplayTakes \/ ReplayConfirms
  <2>1. UNCHANGED <<dropped, kind>> /\ (Keyed' => Keyed)
    BY <1>9 DEF ReplayTakes, ReplayConfirms, unreplayed, fixed, Keyed
  <2> QED BY <1>1, <2>1
<1>10. CASE ReplayEnqueues
  <2>1. UNCHANGED <<kind, status, subagent>> /\ taken # {} /\ dropped' \subseteq dropped \cup taken
    BY <1>10 DEF ReplayEnqueues, unreplayed, fixed
  <2>2. ~Keyed' /\ dropped' \subseteq Steers
    BY <2>1 DEF OneAfterTheOther, SignalTypeOK, Keyed
  <2> QED BY <2>1, <2>2, KindKept
<1>11. CASE ReplayKeyed
  <2>1. PICK n \in pending :
           \/ kind[n] # "steer" /\ dropped' = dropped \cup ({n} \cap Steers)
           \/ UNCHANGED dropped
    BY <1>11 DEF ReplayKeyed
  <2>2. UNCHANGED kind /\ Keyed
    BY <1>11 DEF ReplayKeyed, unreplayed
  <2>3. \A m \in {n} \cap Steers : kind[m] # "steer" => kind[m] = "files"
    BY DEF Steers
  <2> QED BY <2>1, <2>2, <2>3, KindKept
<1>12. CASE UNCHANGED vars
  BY <1>1, <1>12 DEF vars, Keyed
<1> QED BY <1>3, <1>4, <1>5, <1>6, <1>7, <1>8, <1>9, <1>10, <1>11, <1>12,
           <1>13
        DEF Next, TurnStep, ReplayStep, Kinds

-----------------------------------------------------------------------------
(* The theorems                                                            *)

\* A run starts without signals.
LEMMA SignalInit ==
    ASSUME Init
    PROVE  SignalInv
<1> USE DEF Init
<1>1. SignalTypeOK
  BY DEF SignalTypeOK, Sent, Steers, Kinds
<1>2. OneAfterTheOther
  BY DEF OneAfterTheOther, Over, Keyed
<1>3. ReadOnce
  BY DEF ReadOnce
<1>4. ReplayedOnce
  BY DEF ReplayedOnce
<1>5. Accounted
  BY DEF Accounted, Steers
<1>6. PassedOver
  BY DEF PassedOver
<1> QED BY <1>1, <1>2, <1>3, <1>4, <1>5, <1>6 DEF SignalInv

\* The inductive invariant of the table, the attempt, its poller and the replays
\* (src/runs/run-signal-store.ts with src/runs/worker.ts and src/api/app-helpers.ts).
THEOREM SignalInvariant == Spec => []SignalInv
<1>1. Init => SignalInv
  BY SignalInit
<1>2. SignalInv /\ [Next]_vars => SignalInv'
  BY SignalTypeStep, OneAfterTheOtherStep, ReadOnceStep, ReplayedOnceStep, AccountedStep,
     PassedOverStep DEF SignalInv
<1> QED BY <1>1, <1>2, PTL DEF Spec

\* acknowledge() and takePending() consume a steering message only when the model has
\* read it, a run was made of it, its turn was refused, or a process holds or lost it;
\* and a subagent's run loses none that has text.
THEOREM ConsumedMeansHeardHolds == Spec => []ConsumedMeansHeard
<1>1. SignalInv => ConsumedMeansHeard
  BY DEF SignalInv, Accounted, PassedOver, OneAfterTheOther, ConsumedMeansHeard
<1> QED BY <1>1, SignalInvariant, PTL

\* However often the run is attempted and its leftovers are replayed, a message is read
\* once and replayed once, and both only when an acknowledgement was lost.
THEOREM HeardOnceHolds == Spec => []HeardOnce
<1>1. SignalInv => HeardOnce
  BY DEF SignalInv, ReadOnce, ReplayedOnce, Accounted, HeardOnce
<1> QED BY <1>1, SignalInvariant, PTL

\* A drain that is called while another runs is remembered until the poller stops, so
\* that a signal is read by the next drain after its notification.
THEOREM NoSignalStrandedHolds == Spec => []NoSignalStranded
<1>1. Init => NoSignalStranded
  BY DEF Init, NoSignalStranded
<1>2. ASSUME NoSignalStranded, [Next]_vars PROVE NoSignalStranded'
  <2> USE DEF NoSignalStranded
  <2>1. CASE SenderReads \/ Withdraws
    BY <1>2, <2>1 DEF SenderReads, Withdraws, tableVars, pollVars
  <2>2. ASSUME NEW k \in Kinds, Sends(k) PROVE NoSignalStranded'
    BY <2>2 DEF Sends
  <2>3. CASE Rings \/ Ticks
    BY <1>2, <2>3 DEF Rings, Ticks, drain, tableVars
  <2>4. CASE PollStep
    BY <1>2, <2>4 DEF PollStep, DrainReads, DrainSkips, DrainAborts, DrainOffers, Offered,
                      DrainAcknowledges, DrainEnds, tableVars
  <2>5. CASE TurnStarts \/ TurnStep
    BY <1>2, <2>5 DEF TurnStarts, TurnStep, TakesIn, Acknowledges, PollerStopped, TurnEnds,
                      tableVars, pollVars
  <2>6. CASE StopsPoller \/ Crashes
    BY <1>2, <2>6 DEF StopsPoller, Crashes
  <2>7. CASE WaitStarts \/ WaitStep
    BY <1>2, <2>7 DEF WaitStarts, WaitStep, WaitReads, WaitSees, WaitAcknowledges,
                      WaitGivesUp, others, pollVars
  <2>8. CASE ReplayStep
    BY <1>2, <2>8 DEF ReplayStep, ReplayTakes, ReplayEnqueues, ReplayKeyed, ReplayConfirms,
                      unreplayed, pollVars
  <2>9. CASE UNCHANGED vars
    BY <1>2, <2>9 DEF vars
  <2> QED BY <1>2, <2>1, <2>2, <2>3, <2>4, <2>5, <2>6, <2>7, <2>8, <2>9 DEF Next, Kinds
<1> QED BY <1>1, <1>2, PTL DEF Spec

\* Signals are only added by send(); a run that is over stays so; and during the run
\* nobody but the wait consumes a result.
LEMMA ResultsAreLeft ==
    ASSUME SignalInv, [Next]_vars, ~\E k \in Kinds : Sends(k)
    PROVE  /\ Sent' = Sent /\ kind' = kind /\ Answer' \subseteq Answer
           /\ ~Over' => ~Over
           /\ (~Over' /\ ~WaitAcknowledges) =>
                 \A n \in Sent \ pending' : kind[n] = "client_result" => n \notin pending
<1> SUFFICES /\ kind' = kind /\ pending' \subseteq pending
             /\ ~Over' => ~Over
             /\ (~Over' /\ ~WaitAcknowledges) =>
                   \A n \in pending \ pending' : kind[n] # "client_result"
  BY DEF Sent, Answer
<1> USE DEF SignalInv, Over
<1>1. CASE SenderReads \/ Withdraws
  BY <1>1 DEF SenderReads, Withdraws, tableVars
<1>2. CASE Rings \/ Ticks
  BY <1>2 DEF Rings, Ticks, tableVars
<1>3. CASE DrainReads \/ DrainSkips \/ DrainAborts \/ DrainOffers \/ DrainEnds
  BY <1>3 DEF DrainReads, DrainSkips, DrainAborts, DrainOffers, DrainEnds, tableVars
<1>4. CASE DrainAcknowledges
  <2>1. kind[First] # "client_result"
    BY <1>4 DEF DrainAcknowledges, ReadOnce, SignalTypeOK, Steers
  <2> QED BY <1>4, <2>1 DEF DrainAcknowledges
<1>5. CASE TurnStarts \/ TakesIn \/ PollerStopped \/ TurnEnds \/ StopsPoller
  BY <1>5 DEF TurnStarts, TakesIn, PollerStopped, TurnEnds, StopsPoller, tableVars
<1>6. CASE Acknowledges
  <2>1. \A n \in intake : kind[n] # "client_result"
    BY DEF SignalTypeOK, Steers
  <2> QED BY <1>6, <2>1 DEF Acknowledges
<1>7. CASE Crashes
  BY <1>7 DEF Crashes, OneAfterTheOther
<1>8. CASE WaitStarts \/ WaitReads \/ WaitSees \/ WaitGivesUp
  BY <1>8 DEF WaitStarts, WaitReads, WaitSees, WaitGivesUp, others
<1>9. CASE WaitAcknowledges
  BY <1>9 DEF WaitAcknowledges, others
<1>10. CASE ReplayTakes \/ ReplayKeyed
  BY <1>10 DEF ReplayTakes, ReplayKeyed, Keyed, unreplayed
<1>11. CASE ReplayEnqueues
  BY <1>11 DEF ReplayEnqueues, unreplayed
<1>12. CASE ReplayConfirms
  <2>1. \A n \in confirming : kind[n] # "client_result"
    BY DEF SignalTypeOK, Steers
  <2> QED BY <1>12, <2>1 DEF ReplayConfirms, unreplayed
<1>13. CASE UNCHANGED vars
  BY <1>13 DEF vars
<1> QED BY <1>1, <1>2, <1>3, <1>4, <1>5, <1>6, <1>7, <1>8, <1>9, <1>10, <1>11, <1>12, <1>13
        DEF Next, PollStep, TurnStep, WaitStep, ReplayStep, Kinds

\* Every step leaves a wait that hears of its result.
LEMMA WaitHearsStep ==
    ASSUME SignalInv, WaitHears, [Next]_vars
    PROVE  WaitHears'
<1> USE DEF WaitHears
<1>1. ASSUME NEW k \in Kinds, Sends(k) PROVE WaitHears'
  <2>1. PICK n \in Ids \ Sent :
              /\ kind' = [kind EXCEPT ![n] = k] /\ pending' = pending \cup {n}
              /\ Sent' = Sent \cup {n}
    BY <1>1, FreshRow DEF SignalInv
  <2>2. /\ bell' = TRUE /\ UNCHANGED <<status, wait, recheck, outcome>>
        /\ \A m \in Sent : kind'[m] = kind[m]
    BY <1>1, <2>1 DEF Sends, waitVars, Sent, SignalInv, SignalTypeOK
  <2> QED BY <2>1, <2>2 DEF Over
<1>2. ASSUME ~\E k \in Kinds : Sends(k) PROVE WaitHears'
  <2>1. /\ Sent' = Sent /\ kind' = kind /\ Answer' \subseteq Answer
        /\ ~Over' => ~Over
        /\ (~Over' /\ ~WaitAcknowledges) =>
              \A n \in Sent \ pending' : kind[n] = "client_result" => n \notin pending
    BY <1>2, ResultsAreLeft
  <2>2. ASSUME UNCHANGED <<wait, recheck, outcome, bell>>, ~WaitAcknowledges PROVE WaitHears'
    BY <2>1, <2>2
  <2>3. CASE Rings
    BY <2>1, <2>3 DEF Rings, check, WaitAcknowledges
  <2>4. CASE Crashes
    BY <2>1, <2>4 DEF Crashes, WaitAcknowledges, SignalInv, OneAfterTheOther
  <2>5. CASE WaitStarts
    BY <2>1, <2>5 DEF WaitStarts, others, WaitAcknowledges
  <2>6. CASE WaitReads
    <3>1. /\ bell' = bell /\ recheck' = recheck /\ wait = "reading" /\ pending' = pending
          /\ wait' \in {"found", "empty", "done"} /\ (wait' = "empty" => Answer = {})
      BY <2>6 DEF WaitReads, others
    <3> QED BY <2>1, <3>1 DEF WaitAcknowledges
  <2>7. CASE WaitSees
    BY <2>1, <2>7 DEF WaitSees, others, WaitAcknowledges
  <2>8. CASE WaitAcknowledges
    BY <2>1, <2>8 DEF WaitAcknowledges, others
  <2>9. CASE WaitGivesUp
    BY <2>1, <2>9 DEF WaitGivesUp, others, WaitAcknowledges
  <2>10. CASE SenderReads \/ Withdraws \/ Ticks \/ StopsPoller
    <3>1. UNCHANGED <<wait, recheck, outcome, bell>>
      BY <2>10 DEF SenderReads, Withdraws, Ticks, StopsPoller, tableVars, waitVars
    <3> QED BY <2>2, <2>8, <3>1
  <2>11. CASE PollStep
    <3>1. UNCHANGED <<wait, recheck, outcome, bell>>
      BY <2>11 DEF PollStep, DrainReads, DrainSkips, DrainAborts, DrainOffers,
                   DrainAcknowledges, DrainEnds, tableVars, waitVars
    <3> QED BY <2>2, <2>8, <3>1
  <2>12. CASE TurnStarts \/ TurnStep
    <3>1. UNCHANGED <<wait, recheck, outcome, bell>>
      BY <2>12 DEF TurnStarts, TurnStep, TakesIn, Acknowledges, PollerStopped, TurnEnds,
                   tableVars, waitVars
    <3> QED BY <2>2, <2>8, <3>1
  <2>13. CASE ReplayStep
    <3>1. UNCHANGED <<wait, recheck, outcome, bell>>
      BY <2>13 DEF ReplayStep, ReplayTakes, ReplayEnqueues, ReplayKeyed, ReplayConfirms,
                   unreplayed, waitVars
    <3> QED BY <2>2, <2>8, <3>1
  <2>14. CASE UNCHANGED vars
    <3>1. UNCHANGED <<wait, recheck, outcome, bell>>
      BY <2>14 DEF vars
    <3> QED BY <2>2, <2>8, <3>1
  <2> QED BY <1>2, <2>3, <2>4, <2>5, <2>6, <2>7, <2>8, <2>9, <2>10, <2>11, <2>12, <2>13, <2>14
          DEF Next, WaitStep, Kinds
<1> QED BY <1>1, <1>2

\* waitForClientResult: no drain, crash or retry eats the result of a client-side tool
\* while the run is active, and a wait that found none hears of the one that comes.
THEOREM ResultReachesTheWaitHolds == Spec => []ResultReachesTheWait
<1>1. Init => WaitHears
  BY DEF Init, WaitHears, Sent, Answer
<1>2. SignalInv /\ WaitHears /\ [Next]_vars => WaitHears'
  BY WaitHearsStep
<1>3. WaitHears => ResultReachesTheWait
  BY DEF WaitHears, ResultReachesTheWait
<1> QED BY <1>1, <1>2, <1>3, SignalInvariant, PTL DEF Spec
=============================================================================
