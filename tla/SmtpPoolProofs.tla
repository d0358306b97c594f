----------------------------- MODULE SmtpPoolProofs -----------------------------
(***************************************************************************)
(* Theorems about the shared SMTP client, for every set of emails and      *)
(* number of attempts.                                                     *)
(***************************************************************************)
EXTENDS SmtpPool, FiniteSetTheorems, TLAPS

LEMMA TransportNumbers == Transports \subseteq Nat \ {0} /\ 0 \notin Transports
  BY SmtpPoolAssumption, FS_CardinalityType DEF Transports

LEMMA KindType == \A code : Kind(code) \in {"permanent", "transient"}
  BY DEF Kind

LEMMA SmtpInitInv == SmtpInit => SmtpInv
  BY SmtpPoolAssumption DEF SmtpInit, SmtpInv, SmtpTypeOK, OpenIsCached, Consistent, Fresh, MailStates

--------------------------------------------------------------------------------
(* A number is left for a new transport *)

\* There is one transport more than there are emails, so one nobody refers to.
LEMMA TransportLeft ==
    ASSUME SmtpTypeOK
    PROVE  \E t \in Transports : \A m \in Mails : mail[m].transport # t
<1> SUFFICES ASSUME \A t \in Transports : \E m \in Mails : mail[m].transport = t
             PROVE  FALSE
  OBVIOUS
<1> DEFINE user == [t \in Transports |-> CHOOSE m \in Mails : mail[m].transport = t]
<1>1. user \in [Transports -> Mails] /\ \A t \in Transports : mail[user[t]].transport = t
  OBVIOUS
<1>2. IsFiniteSet(Mails) /\ Cardinality(Mails) \in Nat
  BY SmtpPoolAssumption, FS_CardinalityType
<1>3. IsFiniteSet(Transports) /\ Cardinality(Transports) = Cardinality(Mails) + 1
  BY <1>2, FS_Interval DEF Transports
<1>4. Cardinality(Mails) < Cardinality(Transports)
  BY <1>2, <1>3
<1> HIDE DEF user
<1>5. \E x, y \in Transports : x # y /\ user[x] = user[y]
  BY <1>1, <1>2, <1>3, <1>4, FS_PigeonHole
<1>6. QED
  BY <1>1, <1>5

--------------------------------------------------------------------------------
(* What a step does to the email it is about *)

\* The invariant is kept when the email that moves stays well formed.
LEMMA OneMailMoves ==
    ASSUME SmtpInv, NEW m \in Mails, NEW r \in MailStates, Consistent(r),
           mail' = [mail EXCEPT ![m] = r],
           cached' \in Transports \cup {0}, opened' \subseteq Transports, OpenIsCached'
    PROVE  SmtpInv'
  BY DEF SmtpInv, SmtpTypeOK, Consistent

\* CloseCached leaves no transport open: the one in the map was the only one.
LEMMA CloseCachedCloses ==
    ASSUME SmtpInv, CloseCached
    PROVE  cached' = 0 /\ opened' = {}
  BY DEF SmtpInv, OpenIsCached, CloseCached

LEMMA SettleInv ==
    ASSUME SmtpInv, NEW m \in Mails, mail[m].at \in {"reserved", "queued", "sending"},
           NEW ended \in {"refused", "success", "permanent", "transient"},
           NEW arrived \in {0, 1}, NEW doubt \in BOOLEAN,
           Settle(m, ended, arrived, doubt),
           ended = "permanent" => mail[m].taken,
           arrived = 0 \/ doubt \/ ended \in {"success", "permanent"},
           CloseCached \/ UNCHANGED <<cached, opened>>
    PROVE  SmtpInv'
<1> DEFINE r == [mail[m] EXCEPT !.at = "done", !.transport = 0, !.ended = ended,
                                !.copies = @ + arrived, !.doubt = @ \/ doubt]
<1>1. mail[m] \in MailStates /\ Consistent(mail[m])
  BY DEF SmtpInv, SmtpTypeOK
<1>2. mail[m].copies + arrived \in 0..MaxSends /\ mail[m].copies + arrived <= mail[m].sends
  BY <1>1, SmtpPoolAssumption DEF MailStates, Consistent
<1>3. r \in MailStates
  BY <1>1, <1>2 DEF MailStates
<1>4. Consistent(r)
  <2>1. ~mail[m].doubt => mail[m].copies = 0
    BY <1>1, SmtpPoolAssumption DEF MailStates, Consistent
  <2>2. r.at = "done" /\ r.ended = ended /\ r.taken = mail[m].taken /\ r.sends = mail[m].sends
    BY <1>1 DEF MailStates
  <2>3. r.copies = mail[m].copies + arrived /\ r.doubt = (mail[m].doubt \/ doubt)
    BY <1>1 DEF MailStates
  <2>4. ~r.doubt /\ r.copies > 0 => r.copies = 1 /\ ended \in {"success", "permanent"}
    BY <1>1, <2>1, <2>3 DEF MailStates
  <2>5. QED
    BY <1>2, <2>2, <2>3, <2>4 DEF Consistent
<1>5. mail' = [mail EXCEPT ![m] = r]
  BY DEF Settle, SmtpInv, SmtpTypeOK, MailStates
<1>6. cached' \in Transports \cup {0} /\ opened' \subseteq Transports /\ OpenIsCached'
  BY CloseCachedCloses DEF SmtpInv, SmtpTypeOK, OpenIsCached
<1> HIDE DEF r
<1>7. QED
  BY <1>3, <1>4, <1>5, <1>6, OneMailMoves

--------------------------------------------------------------------------------
(* The actions *)

LEMMA BeginSendInv ==
    ASSUME SmtpInv, NEW m \in Mails, BeginSend(m)
    PROVE  SmtpInv'
<1> DEFINE r == [mail[m] EXCEPT !.at = "reserved", !.taken = FALSE, !.ended = "no",
                                !.sends = @ + 1]
<1>1. mail[m] \in MailStates /\ Consistent(mail[m])
  BY DEF SmtpInv, SmtpTypeOK
<1>2. mail[m].sends + 1 \in 0..MaxSends
  BY <1>1, SmtpPoolAssumption DEF BeginSend, MailStates
<1>3. r \in MailStates
  BY <1>1, <1>2 DEF MailStates
<1>4. Consistent(r)
  BY <1>1, SmtpPoolAssumption DEF BeginSend, Consistent, MailStates
<1>5. mail' = [mail EXCEPT ![m] = r]
  BY DEF BeginSend, SmtpInv, SmtpTypeOK, MailStates
<1>6. cached' = cached /\ opened' = opened
  BY DEF BeginSend
<1> HIDE DEF r
<1>7. cached' \in Transports \cup {0} /\ opened' \subseteq Transports /\ OpenIsCached'
  BY <1>6 DEF SmtpInv, SmtpTypeOK, OpenIsCached
<1>8. QED
  BY <1>3, <1>4, <1>5, <1>7, OneMailMoves

LEMMA RefuseMessageInv ==
    ASSUME SmtpInv, NEW m \in Mails, RefuseMessage(m)
    PROVE  SmtpInv'
<1>1. mail[m].at = "reserved" /\ Settle(m, "refused", 0, FALSE) /\ UNCHANGED <<cached, opened>>
  BY DEF RefuseMessage
<1>2. QED
  BY <1>1, SettleInv

\* The transport is the cached one, or a new one when no transport is open.
LEMMA EnqueueInv ==
    ASSUME SmtpInv, NEW m \in Mails, Enqueue(m)
    PROVE  SmtpInv'
<1> DEFINE r == [mail[m] EXCEPT !.at = "queued", !.transport = cached']
<1>1. mail[m] \in MailStates /\ Consistent(mail[m]) /\ mail[m].at = "reserved"
  BY DEF SmtpInv, SmtpTypeOK, Enqueue
<1>2. cached' \in Transports /\ opened' = {cached'}
  <2>1. CASE cached # 0
    BY <2>1 DEF Enqueue, SmtpInv, SmtpTypeOK, OpenIsCached
  <2>2. CASE cached = 0
    <3>1. opened = {}
      BY <2>2 DEF SmtpInv, OpenIsCached
    <3>2. \E t \in Transports : t \notin opened /\ \A other \in Mails : mail[other].transport # t
      BY <3>1, TransportLeft DEF SmtpInv
    <3>3. cached' \in Transports
      BY <2>2, <3>2 DEF Enqueue
    <3>4. opened' = opened \cup {cached'}
      BY <2>2 DEF Enqueue
    <3>5. QED
      BY <3>1, <3>3, <3>4
  <2>3. QED
    BY <2>1, <2>2
<1>3. OpenIsCached'
  BY <1>2, TransportNumbers DEF OpenIsCached
<1>4. r \in MailStates
  BY <1>1, <1>2 DEF MailStates
<1>5. Consistent(r)
  BY <1>1 DEF Consistent, MailStates
<1>6. mail' = [mail EXCEPT ![m] = r]
  BY DEF Enqueue, SmtpInv, SmtpTypeOK, MailStates
<1> HIDE DEF r
<1>7. QED
  BY <1>2, <1>3, <1>4, <1>5, <1>6, OneMailMoves

LEMMA TransmitInv ==
    ASSUME SmtpInv, NEW m \in Mails, Transmit(m)
    PROVE  SmtpInv'
<1> DEFINE r == [mail[m] EXCEPT !.at = "sending", !.taken = TRUE]
<1>1. mail[m] \in MailStates /\ Consistent(mail[m]) /\ mail[m].at = "queued"
  BY DEF SmtpInv, SmtpTypeOK, Transmit
<1>2. r \in MailStates
  BY <1>1 DEF MailStates
<1>3. Consistent(r)
  BY <1>1 DEF Consistent, MailStates
<1>4. mail' = [mail EXCEPT ![m] = r]
  BY DEF Transmit, SmtpInv, SmtpTypeOK, MailStates
<1>5. cached' = cached /\ opened' = opened
  BY DEF Transmit
<1>6. cached' \in Transports \cup {0} /\ opened' \subseteq Transports /\ OpenIsCached'
  BY <1>5 DEF SmtpInv, SmtpTypeOK, OpenIsCached
<1> HIDE DEF r
<1>7. QED
  BY <1>2, <1>3, <1>4, <1>6, OneMailMoves

LEMMA DeliverInv ==
    ASSUME SmtpInv, NEW m \in Mails, Deliver(m)
    PROVE  SmtpInv'
  BY SettleInv DEF Deliver

\* Refused recipients end the email for good, so those who have it get no other.
LEMMA DeliverPartlyInv ==
    ASSUME SmtpInv, NEW m \in Mails, DeliverPartly(m)
    PROVE  SmtpInv'
<1>1. Kind(RecipientsRejected) = "permanent"
  BY DEF Kind, RecipientsRejected, Permanent
<1>2. mail[m].at = "sending" /\ Settle(m, "permanent", 1, FALSE) /\ CloseCached
  BY <1>1 DEF DeliverPartly
<1>3. mail[m].taken
  BY <1>2 DEF SmtpInv, Consistent
<1>4. QED
  BY <1>2, <1>3, SettleInv

LEMMA FailToSendInv ==
    ASSUME SmtpInv, NEW m \in Mails, FailToSend(m)
    PROVE  SmtpInv'
<1>1. mail[m].at = "sending" /\ mail[m].taken /\ CloseCached
  BY DEF SmtpInv, Consistent, FailToSend
<1>2. PICK error \in TransportErrors :
         \E arrived \in IF error \cap {"ESOCKET", "ETIMEDOUT"} # {} THEN {0, 1} ELSE {0} :
             Settle(m, Kind(NormalizeSmtpError(error)), arrived,
                    error \cap {"ESOCKET", "ETIMEDOUT"} # {})
  BY DEF FailToSend
<1> DEFINE doubt == error \cap {"ESOCKET", "ETIMEDOUT"} # {}
           ended == Kind(NormalizeSmtpError(error))
<1>3. PICK arrived \in {0, 1} : Settle(m, ended, arrived, doubt) /\ (arrived = 1 => doubt)
  BY <1>2
<1>4. ended \in {"refused", "success", "permanent", "transient"} /\ doubt \in BOOLEAN
  BY KindType
<1> HIDE DEF doubt, ended
<1>5. QED
  BY <1>1, <1>3, <1>4, SettleInv

\* "Connection pool was closed" matches none of the tests, so it is transient.
LEMMA PoolClosedIsTransient == Kind(NormalizeSmtpError(PoolClosed)) = "transient"
<1>1. DOMAIN Tests = 1..9
  BY DEF Tests
<1>2. \A i \in 1..9 : "closed" \notin Tests[i].error
  BY DEF Tests, Test, AuthTransient, AuthStage
<1>3. Hits(PoolClosed) = {}
  BY <1>1, <1>2 DEF Hits, PoolClosed
<1>4. NormalizeSmtpError(PoolClosed) = "SMTP_SEND_FAILED"
  BY <1>3 DEF NormalizeSmtpError
<1>5. QED
  BY <1>4 DEF Kind, Permanent

LEMMA FlushInv ==
    ASSUME SmtpInv, NEW m \in Mails, Flush(m)
    PROVE  SmtpInv'
<1>1. mail[m].at = "queued" /\ Settle(m, "transient", 0, FALSE) /\ CloseCached
  BY PoolClosedIsTransient DEF Flush
<1>2. QED
  BY <1>1, SettleInv

LEMMA CloseSharedSmtpClientInv ==
    ASSUME SmtpInv, CloseSharedSmtpClient
    PROVE  SmtpInv'
  BY DEF CloseSharedSmtpClient, SmtpInv, SmtpTypeOK, OpenIsCached, Consistent

--------------------------------------------------------------------------------

LEMMA SmtpStepInv == SmtpInv /\ [SmtpNext]_smtpVars => SmtpInv'
<1> SUFFICES ASSUME SmtpInv, [SmtpNext]_smtpVars PROVE SmtpInv'
  OBVIOUS
<1>1. CASE SmtpStep
  BY <1>1, RefuseMessageInv, EnqueueInv, TransmitInv, DeliverInv, DeliverPartlyInv, FailToSendInv,
     FlushInv DEF SmtpStep
<1>2. CASE UNCHANGED smtpVars
  BY <1>2 DEF smtpVars, SmtpInv, SmtpTypeOK, OpenIsCached, Consistent
<1>3. QED
  BY <1>1, <1>2, BeginSendInv, CloseSharedSmtpClientInv DEF SmtpNext

THEOREM SmtpInvariance == SmtpSpec => []SmtpInv
<1>1. SmtpInit => SmtpInv
  BY SmtpInitInv
<1>2. SmtpInv /\ [SmtpNext]_smtpVars => SmtpInv'
  BY SmtpStepInv
<1>3. QED
  BY <1>1, <1>2, PTL DEF SmtpSpec

\* createPooledSmtpClient closes what the map holds, not what it used, and still loses no
\* transport.
THEOREM NoTransportIsLost == SmtpSpec => []OpenIsCached
<1>1. SmtpInv => OpenIsCached
  BY DEF SmtpInv
<1>2. QED
  BY <1>1, SmtpInvariance, PTL

\* An email whose transport another one's failure closed is never stored as failed.
THEOREM FlushedAreRetried == SmtpSpec => []NeighboursAreRetried
<1>1. SmtpInv => NeighboursAreRetried
  BY DEF SmtpInv, Consistent, NeighboursAreRetried
<1>2. QED
  BY <1>1, SmtpInvariance, PTL

\* However many attempts the activity makes, a second copy takes a send without an answer.
THEOREM SecondCopyNeedsDoubt == SmtpSpec => []CopiesNeedDoubt
<1>1. SmtpInv => CopiesNeedDoubt
  <2> SUFFICES ASSUME SmtpInv, NEW m \in Mails, mail[m].copies > 1, ~mail[m].doubt PROVE FALSE
    BY DEF CopiesNeedDoubt, SmtpInv, SmtpTypeOK, MailStates
  <2>1. mail[m].copies \in Nat /\ Consistent(mail[m])
    BY SmtpPoolAssumption DEF SmtpInv, SmtpTypeOK, MailStates
  <2>2. QED
    BY <2>1 DEF Consistent
<1>2. QED
  BY <1>1, SmtpInvariance, PTL

================================================================================
