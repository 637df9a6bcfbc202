------------------------------ MODULE SmtpClient ------------------------------
(***************************************************************************)
(* One send() of the SmtpClient: name resolution, connection, handshake,   *)
(* and then a dialogue in lock step, in which every command is written     *)
(* after the reply to the one before was read.  No step has a time-out.    *)
(*                                                                         *)
(* A reply is any number of continued lines and a last one; the client     *)
(* takes a line for the last one when its code is followed by a blank.     *)
(* The text of the mail is written as it is: a line of its own that is a   *)
(* single dot ends the mail for the server.                                *)
(***************************************************************************)
EXTENDS Integers, Sequences

\* The codes that send() waits for, each before the command after it: EHLO,
\* AUTH PLAIN, the credentials, MAIL, RCPT, DATA, the text, and QUIT.
Expected == <<220, 250, 334, 235, 250, 250, 354, 250>>

\* What a server answers when it agrees, and when it does not.
Agrees == <<220, 250, 334, 235, 250, 250, 354, 250>>
Refuses == 554

\* Lines of a reply: continued, last, last without any text after the code,
\* and one that is not a reply.
LineKinds == {"more", "last", "bare", "garbage"}

VARIABLES
    stage,      \* what send() is doing, or how it ended
    step,       \* the reply it waits for
    wire,       \* the reply line under way, or None
    said,       \* the server has sent all of its reply to this step
    up,         \* the connection is up
    mail,       \* what the server has taken: "none", "whole" or "cut"
    dotted,     \* the message has a line that is a single dot
    credentials \* user name and password are not empty

vars == <<stage, step, wire, said, up, mail, dotted, credentials>>

None == [kind |-> "none", code |-> 0]
-----------------------------------------------------------------------------
(* Variants with a plausible slip: the code of a reply is not looked at; a *)
(* failed read or write is tried again on the same connection.             *)

AnyCode(l) == TRUE
TriesAgain == stage \in {"reading", "writing"} /\ ~up /\ UNCHANGED vars
-----------------------------------------------------------------------------
Ended == stage \in {"sent", "failed"}

\* line.length() > 3 && line[3] == ' '
IsLast(l) == l.kind = "last"

\* code != expected_code is an error.
AsExpected(l) == l.code = Expected[step]

Init ==
    /\ stage = "resolve" /\ step = 1
    /\ wire = None /\ said = FALSE /\ up = FALSE /\ mail = "none"
    /\ dotted \in BOOLEAN /\ credentials \in BOOLEAN

\* The operations before the dialogue; each may fail.
Prepare ==
    /\ \/ stage = "resolve" /\ stage' = "connect" /\ UNCHANGED up
       \/ stage = "connect" /\ stage' = "handshake" /\ up' = TRUE
       \/ stage = "handshake" /\ up /\ stage' = "reading" /\ UNCHANGED up
       \/ stage \in {"resolve", "connect", "handshake"} /\ stage' = "masking" /\ UNCHANGED up
    /\ UNCHANGED <<step, wire, said, mail, dotted, credentials>>

(* The server and the network.                                             *)

\* A line of the reply to the current step.  The server takes the mail when
\* it agrees to the text.
ServerSays(kind, code) ==
    /\ up /\ stage = "reading" /\ wire = None /\ ~said
    /\ wire' = [kind |-> kind, code |-> code]
    /\ said' = (kind # "more")
    /\ mail' = IF step = Len(Expected) /\ code = Agrees[step] /\ kind \in {"last", "bare"}
               THEN (IF dotted THEN "cut" ELSE "whole") ELSE mail
    /\ UNCHANGED <<stage, step, up, dotted, credentials>>

\* The connection breaks; what was under way is lost.
Break ==
    /\ up
    /\ up' = FALSE /\ wire' = None
    /\ UNCHANGED <<stage, step, said, mail, dotted, credentials>>

(* The client.                                                             *)

\* read_response takes a line: on with the loop, out of it, or an exception.
ReadLine ==
    /\ stage = "reading" /\ wire # None
    /\ wire' = None
    /\ stage' = IF wire.kind = "garbage" THEN "masking"
                ELSE IF ~IsLast(wire) THEN "reading"
                ELSE IF AsExpected(wire) THEN "writing" ELSE "masking"
    /\ UNCHANGED <<step, said, up, mail, dotted, credentials>>

\* async_read_until or async_write fails.
OperationFails ==
    /\ stage \in {"reading", "writing"} /\ ~up
    /\ stage' = "masking"
    /\ UNCHANGED <<step, wire, said, up, mail, dotted, credentials>>

\* write_line: the next command; nobody waits for the reply to QUIT.
WriteCommand ==
    /\ stage = "writing" /\ up
    /\ IF step = Len(Expected)
         THEN stage' = "sent" /\ UNCHANGED <<step, said>>
         ELSE stage' = "reading" /\ step' = step + 1 /\ said' = FALSE
    /\ UNCHANGED <<wire, up, mail, dotted, credentials>>

\* The catch clause replaces the user name and the password in the message.
\* An empty one is found again where it was inserted: that loop ends only
\* when the memory does.
Masks ==
    /\ stage = "masking"
    /\ stage' = IF credentials THEN "failed" ELSE "masking"
    /\ UNCHANGED <<step, wire, said, up, mail, dotted, credentials>>

Finished == Ended /\ UNCHANGED vars

\* A step of the client, which waits for nobody.
Progress == Prepare \/ ReadLine \/ OperationFails \/ WriteCommand \/ Masks

LastLine == \E c \in {Refuses, Agrees[step]} : ServerSays("last", c)

Next ==
    \/ Progress \/ Break \/ Finished
    \/ \E k \in LineKinds, c \in {Refuses, Agrees[step]} : ServerSays(k, c)

Spec == Init /\ [][Next]_vars

\* The client goes on; the server does not continue a reply for ever.
Fairness == WF_vars(Progress) /\ SF_vars(LastLine)

FairSpec == Spec /\ Fairness
-----------------------------------------------------------------------------
(* Properties.                                                             *)

\* The shape of the state.
TypeOK ==
    /\ stage \in {"resolve", "connect", "handshake", "reading", "writing", "masking",
                  "sent", "failed"}
    /\ step \in 1..Len(Expected)
    /\ wire \in {None} \cup [kind : LineKinds, code : {Agrees[i] : i \in 1..Len(Agrees)} \cup {Refuses}]
    /\ said \in BOOLEAN /\ up \in BOOLEAN /\ dotted \in BOOLEAN /\ credentials \in BOOLEAN
    /\ mail \in {"none", "whole", "cut"}

\* README, "SmtpClient": a result of 0 is "Email sent successfully".  It means
\* that the server has taken the mail, as it was written unless a line of the
\* message is a single dot; and a failed send() may still have delivered it
\* only when the connection broke after the server had agreed.
ResultTellsTruth ==
    /\ stage = "sent" => mail # "none" /\ (mail = "cut" => dotted)
    /\ stage = "failed" /\ mail # "none" => ~up

\* A send() comes to an end with a server that answers, unless the reply has
\* no text after its code, on which client and server wait for each other, or
\* an error meets empty credentials.
SendEnds ==
    \/ <>Ended
    \/ <>(stage = "reading" /\ up /\ said /\ wire = None)
    \/ <>(stage = "masking" /\ ~credentials)
===============================================================================
