------------------------- MODULE MCWhatsAppWebhook -------------------------
(* Two senders; a payload with a message of each, and one with one message. *)
EXTENDS WhatsAppWebhook

CONSTANTS m1, m2, m3, ann, bob

MCSender == [m \in {m1, m2, m3} |-> IF m = m3 THEN bob ELSE ann]
MCPayloads == {<<m1, m3>>, <<m2>>}
=============================================================================
