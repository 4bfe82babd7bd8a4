----------------------------- MODULE MCDelivery -----------------------------
(***************************************************************************)
(* Delivery with four addresses and the kinds of recipients.yaml that     *)
(* make a difference.                                                      *)
(***************************************************************************)
EXTENDS Delivery

CONSTANTS ann, bob, bad, idn, p1, p2

ListOf(to, cc, bcc) == [wellformed |-> TRUE, to |-> to, cc |-> cc, bcc |-> bcc]

\* A file that is not a mapping, no To, a bad Cc, an internationalised Bcc, two
\* good addresses, and one address in two fields.
SampleLists == {
    [wellformed |-> FALSE, to |-> {}, cc |-> {}, bcc |-> {}],
    ListOf({}, {ann}, {}),
    ListOf({ann}, {bad}, {}),
    ListOf({ann}, {}, {idn}),
    ListOf({ann}, {bob}, {}),
    ListOf({ann}, {ann}, {}) }
=============================================================================
