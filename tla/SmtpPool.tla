-------------------------------- MODULE SmtpPool --------------------------------
(***************************************************************************)
(* The SMTP client the worker's activities share: one pooled transport     *)
(* with one connection, kept in a map and made again after any failed      *)
(* send.  A failing send closes whatever transport the map then holds,     *)
(* which need not be the one it used; what was queued behind the closed    *)
(* transport fails one by one, each failure closing the next transport.    *)
(* The transport itself (nodemailer) is external: it serves its queue on   *)
(* one connection, lets the mail being sent end after close(), and fails   *)
(* the queued ones with "Connection pool was closed".                      *)
(***************************************************************************)
EXTENDS Integers, FiniteSets, Sequences

CONSTANTS
    Mails,    \* emails the activity is asked to send
    MaxSends  \* bound of the activity's attempts for one email

ASSUME SmtpPoolAssumption == IsFiniteSet(Mails) /\ MaxSends \in Nat

VARIABLES
    mail,    \* each email's send: where it is, on which transport, how it ended
    cached,  \* the transport in the map, 0 when there is none
    opened   \* transports not closed

smtpVars == <<mail, cached, opened>>

--------------------------------------------------------------------------------
(* Errors.  An error the transport throws is the set of what can be read in  *)
(* its code, command, response code and message.                             *)

Permanent == {"SMTP_MESSAGE_INVALID", "SMTP_ATTACHMENT_INVALID", "SMTP_RECIPIENT_REJECTED",
              "SMTP_TLS_CONFIGURATION_ERROR", "SMTP_AUTH_INVALID_CREDENTIALS"}

\* The activity lets a transient error through, to be tried again, and stores the other.
Kind(code) == IF code \in Permanent THEN "permanent" ELSE "transient"

\* isSmtpAuthStageError: an AUTH command or code, or the mere word "login".
AuthStage == {"EAUTH", "authResponse", "throttled", "login"}

\* hasTransientAuthEvidence
AuthTransient == {"throttled"}

\* Mutant: an error nothing is known about is final.
UnknownIsFinal(error) ==
    IF error \cap {"EENVELOPE", "closed"} # {} THEN "SMTP_RECIPIENT_REJECTED" ELSE "SMTP_SEND_FAILED"

Test(auth, error, code) == [auth |-> auth, error |-> error, code |-> code]

\* The tests of normalizeSmtpError in the order they are made; some are made of an error
\* of the authentication stage only.
Tests ==
    <<Test(FALSE, {"EFILEACCESS"}, "SMTP_ATTACHMENT_INVALID"),
      Test(FALSE, {"ETIMEDOUT"}, "SMTP_TIMEOUT"),
      Test(FALSE, {"ESOCKET"}, "SMTP_CONNECTION_FAILED"),
      Test(FALSE, {"certificate"}, "SMTP_TLS_CONFIGURATION_ERROR"),
      Test(TRUE, AuthTransient, "SMTP_AUTH_TEMPORARY_FAILURE"),
      Test(TRUE, {"badCredentials"}, "SMTP_AUTH_INVALID_CREDENTIALS"),
      Test(TRUE, AuthStage, "SMTP_AUTH_TEMPORARY_FAILURE"),
      Test(FALSE, {"EENVELOPE"}, "SMTP_RECIPIENT_REJECTED"),
      Test(FALSE, {"timeout"}, "SMTP_TIMEOUT")>>

Hits(error) ==
    {i \in DOMAIN Tests : /\ error \cap Tests[i].error # {}
                          /\ Tests[i].auth => error \cap AuthStage # {}}

NormalizeSmtpError(error) ==
    IF Hits(error) = {} THEN "SMTP_SEND_FAILED"
    ELSE Tests[CHOOSE i \in Hits(error) : \A j \in Hits(error) : i <= j].code

\* What the server and the network may answer, and what close() does to the queue.
TransportErrors ==
    {{"EENVELOPE"}, {"ESOCKET"}, {"ETIMEDOUT", "timeout"}, {"EAUTH", "badCredentials", "throttled"},
     {"EAUTH", "badCredentials"}, {"certificate", "ESOCKET"}, {"EFILEACCESS"}}

PoolClosed == {"closed"}

--------------------------------------------------------------------------------
(* State *)

\* A number stands for a transport and for another one once nothing refers to it.
Transports == 1..(Cardinality(Mails) + 1)

Fresh == [at |-> "idle", transport |-> 0, taken |-> FALSE, ended |-> "no",
          sends |-> 0, copies |-> 0, doubt |-> FALSE]

MailStates ==
    [at : {"idle", "reserved", "queued", "sending", "done"},
     transport : Transports \cup {0},
     taken : BOOLEAN,       \* a connection took it from the queue
     ended : {"no", "refused", "success", "permanent", "transient"},
     sends : 0..MaxSends,
     copies : 0..MaxSends,  \* copies its recipients got, some or all of them
     doubt : BOOLEAN]       \* a send ended without the server's word

SmtpTypeOK ==
    /\ mail \in [Mails -> MailStates]
    /\ cached \in Transports \cup {0}
    /\ opened \subseteq Transports

SmtpInit ==
    /\ mail = [m \in Mails |-> Fresh]
    /\ cached = 0
    /\ opened = {}

Busy == {m \in Mails : mail[m].at \in {"reserved", "queued", "sending"}}

--------------------------------------------------------------------------------
(* Steps *)

\* Mutant: the map forgets the transport without closing it.
ForgetCached == cached' = 0 /\ UNCHANGED opened

CloseCached ==
    /\ cached' = 0
    /\ opened' = opened \ {cached}

Settle(m, ended, arrived, doubt) ==
    mail' = [mail EXCEPT ![m].at = "done", ![m].transport = 0, ![m].ended = ended,
                         ![m].copies = @ + arrived, ![m].doubt = @ \/ doubt]

\* An attempt of the activity: it reserves its step, on another connection, first.
BeginSend(m) ==
    /\ \/ mail[m].at = "idle"
       \/ mail[m].at = "done" /\ mail[m].ended = "transient"
    /\ mail[m].sends < MaxSends
    /\ mail' = [mail EXCEPT ![m].at = "reserved", ![m].taken = FALSE, ![m].ended = "no",
                            ![m].sends = @ + 1]
    /\ UNCHANGED <<cached, opened>>

\* prepareMessage refuses the email before any transport is asked for.
RefuseMessage(m) ==
    /\ mail[m].at = "reserved"
    /\ Settle(m, "refused", 0, FALSE)
    /\ UNCHANGED <<cached, opened>>

\* The transport of the map, or a new one, takes the email into its queue.
Enqueue(m) ==
    /\ mail[m].at = "reserved"
    /\ IF cached # 0
       THEN UNCHANGED <<cached, opened>>
       ELSE /\ cached' = CHOOSE t \in Transports :
                             t \notin opened /\ \A other \in Mails : mail[other].transport # t
            /\ opened' = opened \cup {cached'}
    /\ mail' = [mail EXCEPT ![m].at = "queued", ![m].transport = cached']

Transmit(m) ==
    /\ mail[m].at = "queued"
    /\ mail[m].transport \in opened
    /\ \A other \in Mails : ~(mail[other].at = "sending" /\ mail[other].transport = mail[m].transport)
    /\ mail' = [mail EXCEPT ![m].at = "sending", ![m].taken = TRUE]
    /\ UNCHANGED <<cached, opened>>

\* The server took the email for everybody.
Deliver(m) ==
    /\ mail[m].at = "sending"
    /\ Settle(m, "success", 1, FALSE)
    /\ UNCHANGED <<cached, opened>>

\* Mutant: the refused recipients are worth another attempt.
RetryRejected == "SMTP_SEND_FAILED"

RecipientsRejected == "SMTP_RECIPIENT_REJECTED"

\* The server took it for some and refused others: sendMail succeeds, send does not.
DeliverPartly(m) ==
    /\ mail[m].at = "sending"
    /\ Settle(m, Kind(RecipientsRejected), 1, FALSE)
    /\ CloseCached

\* sendMail throws; after a timeout or a lost connection the server may have the email.
FailToSend(m) ==
    /\ mail[m].at = "sending"
    /\ \E error \in TransportErrors :
          LET doubt == error \cap {"ESOCKET", "ETIMEDOUT"} # {}
          IN  \E arrived \in IF doubt THEN {0, 1} ELSE {0} :
                 Settle(m, Kind(NormalizeSmtpError(error)), arrived, doubt)
    /\ CloseCached

\* The transport it is queued on was closed: sendMail throws, and send closes the
\* transport the map holds now.
Flush(m) ==
    /\ mail[m].at = "queued"
    /\ mail[m].transport \notin opened
    /\ Settle(m, Kind(NormalizeSmtpError(PoolClosed)), 0, FALSE)
    /\ CloseCached

SmtpStep == \E m \in Mails :
    RefuseMessage(m) \/ Enqueue(m) \/ Transmit(m) \/ Deliver(m) \/ DeliverPartly(m)
    \/ FailToSend(m) \/ Flush(m)

\* closeSharedSmtpClient: the client closes every transport of its map.
CloseSharedSmtpClient ==
    /\ cached' = 0
    /\ opened' = {}
    /\ UNCHANGED mail

\* The activities begin sends, and the worker closes the client, at any moment.
SmtpNext ==
    \/ SmtpStep
    \/ \E m \in Mails : BeginSend(m)
    \/ CloseSharedSmtpClient

SmtpSpec == SmtpInit /\ [][SmtpNext]_smtpVars

--------------------------------------------------------------------------------
(* Properties *)

\* No transport, with its connection and its rate limit, is lost from the map: the one
\* that is open is the one the next email uses.
OpenIsCached == opened = {cached} \ {0}

\* An email that failed only because the failure of another one closed the transport it
\* was queued on will be tried again: its step is not stored as failed.
NeighboursAreRetried ==
    \A m \in Mails : mail[m].ended = "permanent" => mail[m].taken

\* Recipients get the email twice only when an earlier attempt ended without the server's
\* word, never because others of them were refused or other emails failed.
CopiesNeedDoubt == \A m \in Mails : mail[m].copies > 1 => mail[m].doubt

\* The strengthening that makes them inductive: an email still under way has fewer copies
\* than attempts, and one without doubt has a copy only if it ended for good.
Consistent(r) ==
    /\ r.at = "sending" \/ r.ended = "permanent" => r.taken
    /\ r.copies <= r.sends
    /\ r.at \in {"reserved", "queued", "sending"} => r.copies < r.sends
    /\ ~r.doubt /\ r.copies > 0 =>
          r.copies = 1 /\ r.at = "done" /\ r.ended \in {"success", "permanent"}

SmtpInv ==
    /\ SmtpTypeOK
    /\ OpenIsCached
    /\ \A m \in Mails : Consistent(mail[m])

================================================================================
