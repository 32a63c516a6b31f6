------------------------------ MODULE Notifiers -------------------------------
(***************************************************************************)
(* The Slack and mail notifiers (notifiers/slack.py, email.py) at work in  *)
(* an escalation: what Engine takes for one step with one of three         *)
(* outcomes is here a conversation with a service, cut where the client    *)
(* waits.  The services and the network are not code of the repository.    *)
(* inbox is what came of it, for the properties to compare the records     *)
(* with; a 2xx answer means that the webhook took the message, and 250 to  *)
(* DATA that the mail server will deliver it.                              *)
(***************************************************************************)
EXTENDS Engine, FiniteSets

CONSTANTS Recipients,   \* addresses a runbook may mail to
          Channel,      \* the Slack channel
          Setups        \* the settings of notify and of the environment

Setup == [slack: BOOLEAN, email: BOOLEAN,      \* slack_enabled, email_enabled
          url: BOOLEAN,                        \* the webhook's URL is supported
          to: SUBSET Recipients,               \* email_to, none listed twice
          oneLine: BOOLEAN]                    \* the title has no line break

ASSUME SetupsAssumption == Setups \subseteq Setup /\ Channel \notin Recipients

(* Each is built if the environment names its service, Slack first         *)
(* (cli.py, build_notifiers_from_env).                                     *)
ASSUME BuiltAssumption ==
  Notifiers \in {<<>>, <<"slack">>, <<"email">>, <<"slack", "email">>}

VARIABLES
  setup,      \* fixed
  link,       \* where the send under way stands
  accepted,   \* recipients the mail server took
  inbox,      \* how often each receiver was told
  trouble     \* notifiers whose service or network failed them

sendVars   == <<setup, link, accepted, inbox, trouble>>
notifyVars == <<vars, sendVars>>

Receivers == {Channel} \union Recipients

NotifiersInit ==
  /\ setup \in Setups
  /\ link = "idle" /\ accepted = {}
  /\ inbox = [r \in Receivers |-> 0] /\ trouble = {}

Sending(n) == pc = "notify" /\ next <= Len(Notifiers) /\ Notifiers[next] = n

SendingAt(n, place) == Sending(n) /\ link = place

Tell(told) == inbox' = [r \in Receivers |-> IF r \in told THEN inbox[r] + 1 ELSE inbox[r]]

(* The conversation goes on.                                               *)
Proceed(place) == link' = place /\ UNCHANGED <<vars, setup>>

(* send returns a result or raises.                                        *)
Finish(outcome) == SendNotifier(outcome) /\ link' = "idle" /\ UNCHANGED setup

InTrouble(n) == trouble' = trouble \union {n}

----------------------------------------------------------------------------
(* SlackNotifier.send                                                      *)

(* https, or http to this host                                             *)
SlackWanted == setup.slack /\ setup.url

SlackDeclines ==
  /\ SendingAt("slack", "idle") /\ ~SlackWanted
  /\ Finish("failure")
  /\ UNCHANGED <<accepted, inbox, trouble>>

(* urlopen, as far as the request is sent: the service takes the message   *)
(* or does not.                                                            *)
SlackPosts ==
  /\ SendingAt("slack", "idle") /\ SlackWanted
  /\ \/ Tell({Channel}) /\ Proceed("slack_taken") /\ UNCHANGED trouble
     \/ Proceed("slack_refused") /\ InTrouble("slack") /\ UNCHANGED inbox
  /\ UNCHANGED accepted

(* The request cannot be sent: a URLError.                                 *)
SlackUnreachable ==
  /\ SendingAt("slack", "idle") /\ SlackWanted
  /\ Finish("failure")
  /\ InTrouble("slack") /\ UNCHANGED <<accepted, inbox>>

SlackOk ==
  /\ SendingAt("slack", "slack_taken")
  /\ Finish("delivered")
  /\ UNCHANGED <<accepted, inbox, trouble>>

(* A slip: any answer is a good one.                                       *)
SlackAnyAnswer ==
  /\ Sending("slack") /\ link \in {"slack_taken", "slack_refused"}
  /\ Finish("delivered")
  /\ InTrouble("slack") /\ UNCHANGED <<accepted, inbox>>

(* An error status; a service may send one for a message it took.          *)
SlackErrorStatus ==
  /\ Sending("slack") /\ link \in {"slack_taken", "slack_refused"}
  /\ Finish("failure")
  /\ InTrouble("slack") /\ UNCHANGED <<accepted, inbox>>

(* Slips: the request is sent again; it is sent again until it is taken.   *)
SlackPostsAgain ==
  /\ Sending("slack") /\ link \in {"slack_taken", "slack_refused"}
  /\ Proceed("idle")
  /\ InTrouble("slack") /\ UNCHANGED <<accepted, inbox>>

SlackPostsUntilTaken ==
  /\ SendingAt("slack", "slack_refused")
  /\ Proceed("idle")
  /\ InTrouble("slack") /\ UNCHANGED <<accepted, inbox>>

(* No answer in time, or none at all: urllib does not turn what getresponse*)
(* raises into a URLError, so it leaves send.                              *)
SlackNoAnswer ==
  /\ Sending("slack") /\ link \in {"slack_taken", "slack_refused"}
  /\ Finish("exception")
  /\ InTrouble("slack") /\ UNCHANGED <<accepted, inbox>>

----------------------------------------------------------------------------
(* EmailNotifier.send                                                      *)

(* A slip: the flag of the other channel.                                  *)
MailOnWithSlack == setup.slack /\ setup.to # {}

MailWanted == setup.email /\ setup.to # {}

MailDeclines ==
  /\ SendingAt("email", "idle") /\ ~MailWanted
  /\ Finish("failure")
  /\ UNCHANGED <<accepted, inbox, trouble>>

(* _build_message is outside the try: a header may not have a line break.  *)
MailUnwritable ==
  /\ SendingAt("email", "idle") /\ MailWanted /\ ~setup.oneLine
  /\ Finish("exception")
  /\ UNCHANGED <<accepted, inbox, trouble>>

(* The connection is opened, TLS started and the user logged in, as far as *)
(* the environment asks for it.                                            *)
MailConnects ==
  /\ SendingAt("email", "idle") /\ MailWanted /\ setup.oneLine
  /\ Proceed("mail_open")
  /\ UNCHANGED <<accepted, inbox, trouble>>

(* send_message raises when all recipients are refused, and goes on for    *)
(* the others when some are.                                               *)
MailRecipients ==
  /\ SendingAt("email", "mail_open")
  /\ \E A \in SUBSET setup.to :
        /\ accepted' = A
        /\ IF A = setup.to THEN UNCHANGED trouble ELSE InTrouble("email")
        /\ IF A = {} THEN Finish("failure") ELSE Proceed("mail_data")
  /\ UNCHANGED inbox

MailData ==
  /\ SendingAt("email", "mail_data")
  /\ Tell(accepted) /\ Proceed("mail_taken")
  /\ UNCHANGED <<accepted, trouble>>

MailAnswer ==
  /\ SendingAt("email", "mail_taken")
  /\ Proceed("mail_quit")
  /\ UNCHANGED <<accepted, inbox, trouble>>

(* SMTP.__exit__ raises on an answer to QUIT other than 221, and ignores a *)
(* connection that is closed.                                              *)
MailQuits ==
  /\ SendingAt("email", "mail_quit")
  /\ Finish("delivered")
  /\ UNCHANGED <<accepted, inbox, trouble>>

(* An SMTPException or OSError at any point, also after the server took    *)
(* the message.                                                            *)
MailBreaks ==
  /\ Sending("email")
  /\ link \in {"mail_open", "mail_data", "mail_taken", "mail_quit"}
  /\ Finish("failure")
  /\ InTrouble("email") /\ UNCHANGED <<accepted, inbox>>

----------------------------------------------------------------------------
SendStep ==
  \/ SlackDeclines \/ SlackPosts \/ SlackUnreachable
  \/ SlackOk \/ SlackErrorStatus \/ SlackNoAnswer
  \/ MailDeclines \/ MailUnwritable \/ MailConnects \/ MailRecipients \/ MailData
  \/ MailAnswer \/ MailQuits \/ MailBreaks

(* The engine's own steps; SendStep stands for those that hand over a      *)
(* notification.                                                           *)
EngineStep == OwnStep /\ UNCHANGED sendVars

EngineFault == Fault /\ UNCHANGED sendVars

----------------------------------------------------------------------------
Served(n) == IF n = "slack" THEN {Channel} ELSE setup.to

Wanted(n) == IF n = "slack" THEN setup.slack /\ setup.url
                            ELSE setup.email /\ setup.to # {} /\ setup.oneLine

(* What a row says of a notifier is what its receivers saw, unless the     *)
(* service failed it: "sent" means that everybody was told, "failed" that  *)
(* nobody was.  When the service misbehaved, "sent" still means that       *)
(* somebody was told, and "failed" means nothing: the message may well     *)
(* have arrived (slack.py:63, email.py:50-73).                             *)
RowsTellTheTruth ==
  \A i \in DOMAIN notifications :
    LET n == notifications[i].notifier
        told == {r \in Served(n) : inbox[r] > 0}
    IN /\ notifications[i].status = "sent" =>
             told # {} /\ (n \notin trouble => told = Served(n))
       /\ notifications[i].status = "failed" /\ n \notin trouble => told = {}

(* Nobody is told twice or over a channel that is not wanted, and the      *)
(* receivers told without a row are those of a single notifier, the one    *)
(* under way when the run was cut off.                                     *)
ToldAtMostOnce ==
  LET recorded == {notifications[i].notifier : i \in DOMAIN notifications}
      told(n) == \E r \in Served(n) : inbox[r] > 0
  IN /\ \A r \in Receivers : inbox[r] <= 1
     /\ \A n \in NotifierSet : told(n) => Wanted(n)
     /\ \A n, m \in NotifierSet \ recorded : told(n) /\ told(m) => n = m

(* An escalated run told every receiver of every wanted notifier whose     *)
(* service works, whatever became of the other notifier (engine.py:299).   *)
(* A title with a line break is what keeps a wanted mail from being sent   *)
(* without anybody's fault (email.py:47): such a mail does not count as    *)
(* wanted, and RowsTellTheTruth has it recorded as failed.                 *)
HealthyChannelsAreTold ==
  execution.status = "escalated" =>
    \A n \in NotifierSet \ trouble :
       Wanted(n) => \A r \in Served(n) : inbox[r] = 1
=============================================================================
