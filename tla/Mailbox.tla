-------------------------------- MODULE Mailbox --------------------------------
(***************************************************************************)
(* What asking a person a question promises.  A letter is filed by one     *)
(* conversation; the reply can be changed until it is handed over; it is   *)
(* handed to that conversation once, and what the conversation gets is the *)
(* reply as it stands for ever after.  A letter dropped before it was      *)
(* replied to never gets a reply, and a letter can be removed at any time. *)
(***************************************************************************)
EXTENDS Naturals, Sequences

CONSTANTS Letter, Party, Words, Blank

VARIABLE box   \* [from, stage, text, got] by letter; got: what its party received

Fresh(s) == [from |-> s, stage |-> "filed", text |-> Blank, got |-> << >>]

Staged(g) == {l \in DOMAIN box : box[l].stage \in g}

MailboxInit == box = [l \in {} |-> Blank]

File(l, s) ==
  /\ l \notin DOMAIN box
  /\ box' = [x \in DOMAIN box \cup {l} |-> IF x = l THEN Fresh(s) ELSE box[x]]

Reply(l, x) ==
  /\ l \in Staged({"filed", "replied"})
  /\ box' = [box EXCEPT ![l].stage = "replied", ![l].text = x]

\* All to one party, none of them handed over before.
HandOver(S) ==
  /\ S \subseteq Staged({"replied"})
  /\ \A l, m \in S : box[l].from = box[m].from
  /\ box' = [l \in DOMAIN box |-> IF l \in S THEN [box[l] EXCEPT !.stage = "handed"] ELSE box[l]]

\* The party already has the reply, from elsewhere.
Record(l, x) ==
  /\ l \in Staged({"filed"})
  /\ box' = [box EXCEPT ![l].stage = "handed", ![l].text = x, ![l].got = <<x>>]

\* What was handed over arrives; nothing arrives twice.
Receive(S) ==
  /\ S \subseteq Staged({"handed"})
  /\ \A l \in S : box[l].got = << >>
  /\ box' = [l \in DOMAIN box |-> IF l \in S THEN [box[l] EXCEPT !.got = <<box[l].text>>] ELSE box[l]]

Drop(S) ==
  /\ S \subseteq Staged({"filed"})
  /\ box' = [l \in DOMAIN box |-> IF l \in S THEN [box[l] EXCEPT !.stage = "dropped"] ELSE box[l]]

\* With the letters goes whatever was still under way to their parties.
Remove(S) ==
  /\ S \subseteq DOMAIN box
  /\ box' = [l \in DOMAIN box \ S |-> box[l]]

MailboxNext ==
  \/ \E l \in Letter, s \in Party : File(l, s)
  \/ \E l \in Letter, x \in Words : Reply(l, x) \/ Record(l, x)
  \/ \E S \in SUBSET DOMAIN box : HandOver(S) \/ Receive(S) \/ Drop(S) \/ Remove(S)

MailboxSpec == MailboxInit /\ [][MailboxNext]_box
=============================================================================
