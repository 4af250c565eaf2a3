---------------------------- MODULE MCMailDelivery ----------------------------
(* MailDelivery with two emails, one of them with an address that is not      *)
(* valid, and two senders.                                                    *)
EXTENDS MailDelivery
==============================================================================
