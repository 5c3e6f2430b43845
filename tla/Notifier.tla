---- MODULE Notifier ----
(***************************************************************************)
(* The notifier (notifier/routes.py, utils.py): it posts what the other    *)
(* services have to say to a webhook and keeps nothing, so its response    *)
(* must tell whether the webhook took the message.                         *)
(*                                                                         *)
(* A status is a number, 0 when there is no response.                      *)
(***************************************************************************)
EXTENDS Integers

NoResponse == 0

\* The webhook (external): it takes the message, refuses it, or does not answer in time,
\* and may have taken it even then.
post_discord_webhook ==
    {[took |-> TRUE, status |-> 204], [took |-> FALSE, status |-> 400],
     [took |-> TRUE, status |-> NoResponse], [took |-> FALSE, status |-> NoResponse]}

\* send_templated_content: whatever goes wrong with the webhook becomes a 500.
send_templated_content(response) == IF response.status \in 1 .. 399 THEN 200 ELSE 500

\* mailto: what the caller sees, whose connection may break.
mailto(response) == {send_templated_content(response), NoResponse}
====
