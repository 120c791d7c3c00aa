--------------------------- MODULE MCEffectLedger ---------------------------
(***************************************************************************)
(* Small instances of EffectLedger: two hosts, and two requests for one key *)
(* that differ in their expiry (a renewed approval).                        *)
(***************************************************************************)
EXTENDS EffectLedger

CONSTANTS h1, h2, k1, d1, d2, alice, slot1, rule1, rule2

Req(k, d, expiry) == [key |-> k, digest |-> d, approver |-> alice,
                      expiry |-> expiry, slot |-> slot1, rule |-> rule1]

RenewedRequests == {Req(k1, d1, 1), Req(k1, d2, 2)}
=============================================================================
