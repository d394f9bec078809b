------------------------------ MODULE Delivery ------------------------------
(***************************************************************************)
(* The providers of notifications: the format of each, what it takes for a *)
(* success of the service, and what it sends in one attempt.               *)
(***************************************************************************)
EXTENDS Naturals

Providers ==
  { "slack", "discord", "telegram", "teams", "wecom", "lark", "dingtalk",
    "ringcentral", "email", "shell", "log", "aws", "twilio", "nexmo",
    "yunpian", "unknown" }

\* The providers whose Config may return an error: the log file cannot be
\* opened, or no AWS session is made of the options.
MayFail == {"log", "aws"}

SMS == {"twilio", "nexmo", "yunpian", "unknown"}

\* The format of a provider; that of AWS SNS is configured.
Format(provider, configured) ==
  CASE provider = "aws"                                 -> configured
    [] provider \in {"telegram", "wecom", "dingtalk"}   -> "markdown"
    [] provider = "teams"                               -> "markdown-social"
    [] provider \in SMS                                 -> "sms"
    [] provider = "email"                               -> "html"
    [] provider = "ringcentral"                         -> "text"
    [] OTHER                                            -> provider

\* Mutant: the format of the shell is left out of the map.
FormatFuncsNoShell ==
  { "unknown", "text", "log", "json", "markdown", "markdown-social", "html",
    "slack", "lark", "sms" }

\* The formats FormatFuncs has functions for.
FormatFuncs ==
  { "unknown", "text", "log", "json", "markdown", "markdown-social", "html",
    "slack", "lark", "sms", "shell" }

-----------------------------------------------------------------------------
Statuses == {"200", "201", "204", "other"}
Bodies   == {"ok", "error"}

\* The services spoken to by HTTP, by where they tell that they have taken the
\* message: by the status, or in the body of an answer with status 200.
ByStatus == {"slack", "telegram", "twilio", "yunpian", "discord"}
ByBody   == {"teams", "wecom", "lark", "dingtalk", "ringcentral", "nexmo"}
Http     == ByStatus \cup ByBody

\* The statuses of a service that has taken a message; Twilio says Created.
Taken(provider) ==
  CASE provider = "discord" -> {"204"}
    [] provider = "twilio"  -> {"200", "201"}
    [] OTHER                -> {"200"}

\* Whether a service that gives an answer has taken the message.
Tells(provider, a) ==
  a.status \in Taken(provider) /\ (provider \in ByBody => a.body = "ok")

\* An attempt that fails on the way may still have arrived.
NoAnswer == { [accepted |-> b, status |-> "none", body |-> "none"] : b \in BOOLEAN }

\* A service that tells it in the body says "ok" only with status 200.
Answers(provider) ==
  CASE provider \in Http      ->
         NoAnswer \cup { a \in [accepted : BOOLEAN, status : Statuses, body : Bodies] :
                           /\ a.accepted = Tells(provider, a)
                           /\ provider \in ByBody /\ a.body = "ok" => a.status = "200" }
    [] provider = "unknown"   -> { a \in NoAnswer : ~ a.accepted }
    [] OTHER                  ->
         NoAnswer \cup { [accepted |-> TRUE, status |-> "done", body |-> "none"] }

\* The test of the status, or of the body, with which the send function of a
\* provider that speaks HTTP returns without an error.
Slack(a)    == a.status = "200"
Telegram(a) == a.status = "200"
Wecom(a)    == a.status = "200"
Twilio(a)   == a.status = "200"
Nexmo(a)    == a.status = "200"
Yunpian(a)  == a.status = "200"
Discord(a)  == a.status = "204"
Teams(a)    == a.status = "200" \/ a.body = "ok"
Lark(a)     == a.body = "ok"
Dingtalk(a) == a.body = "ok"

\* Mutant: the body of the answer is not looked at.
RingCentralNoBody(a) == a.status = "200"

RingCentral(a) == a.status = "200" /\ a.body = "ok"

\* The others leave it to a library, a command or a logger, whose error they
\* return, or none.
Email(a) == a.status = "done"
Shell(a) == a.status = "done"
Log(a)   == a.status = "done"
Aws(a)   == a.status = "done"

Success(provider, a) ==
  CASE provider = "slack"       -> Slack(a)
    [] provider = "telegram"    -> Telegram(a)
    [] provider = "wecom"       -> Wecom(a)
    [] provider = "twilio"      -> Twilio(a)
    [] provider = "nexmo"       -> Nexmo(a)
    [] provider = "yunpian"     -> Yunpian(a)
    [] provider = "discord"     -> Discord(a)
    [] provider = "teams"       -> Teams(a)
    [] provider = "lark"        -> Lark(a)
    [] provider = "dingtalk"    -> Dingtalk(a)
    [] provider = "ringcentral" -> RingCentral(a)
    [] provider = "email"       -> Email(a)
    [] provider = "shell"       -> Shell(a)
    [] provider = "log"         -> Log(a)
    [] provider = "aws"         -> Aws(a)
    [] OTHER                    -> FALSE

\* The error of the attempt: none, one to retry, or ErrNoRetry.
Judge(provider, a) ==
  IF a.status = "none" THEN "retry"
  ELSE IF Success(provider, a) THEN "ok"
  ELSE IF provider = "discord" THEN "noRetry" ELSE "retry"

\* The providers whose send function no timeout bounds: SMTP has none, and a
\* shell command leaves its pipe to its children.
MayBlock == {"email", "shell"}
=============================================================================
