------------------------- MODULE IssuerPagesProofs --------------------------
(***************************************************************************)
(* Proofs about the two applications for issuers (IssuerTool,              *)
(* IssuerWizard): the invariants that MCIssuerPages checks, for any number *)
(* of contracts, accounts, presses and deployments.                        *)
(***************************************************************************)
EXTENDS MCIssuerPages, TLAPS

-----------------------------------------------------------------------------
(* The test tool: its calls, and what its boxes and transactions owe to them. *)

Kinds == {"send", "register", "later", "wrongProof", "wrongAttributes"}
CallType == [id : Nat, kind : Kinds, box : Boxes, of : Indices, form : Forms]

(* Each press has one call at most. *)
CallsInv ==
    /\ calls \subseteq CallType
    /\ \A c \in calls : c.id \in 1..events
    /\ \A c, d \in calls : c.id = d.id => c = d

PressType == [id : Nat, offer : BOOLEAN, over : SUBSET Nat]

(* How the latest press of a box stands: it is under way, or has left an
   answer, or was an offer that was not registered. *)
Stands(b) == \/ last[b].id \in UnderWay
             \/ value[b] # 0 \/ error[b] # 0
             \/ last[b].offer /\ ~WasSent(last[b].id)

(* A box holds answers of the press last made there and of those then under
   way, as none but these can still end in it. *)
BoxesInv ==
    /\ value \in [Boxes -> Nat] /\ error \in [Boxes -> Nat]
    /\ last \in [Boxes -> PressType]
    /\ \A b \in Boxes : last[b].id <= events
    /\ \A b \in Boxes : last[b].id # 0 =>
          /\ value[b] \in {0, last[b].id} \cup last[b].over
          /\ error[b] \in {0, last[b].id} \cup last[b].over
          /\ \A c \in calls : c.box = b => c.id \in {last[b].id} \cup last[b].over
          /\ \A c \in calls : c.id = last[b].id => c.box = b /\ (c.kind = "send" \/ last[b].offer)
          /\ Stands(b)

(* An offer that was registered goes on as a transaction, if at all. *)
SentInv ==
    /\ \A s \in sent : s = Registration(s.offer) /\ s.offer.id \in 1..events
    /\ \A s, t \in sent : s.offer.id = t.offer.id => s = t
    /\ \A s \in sent, c \in calls : c.id = s.offer.id => c.kind = "send"

(* Both fields of `shown` exist, as what is assigned to them is kept. *)
ShownInv ==
    shown \in [{"contract", "account"} -> Indices \cup Accounts \cup {None, Failed}]

ToolInv == ToolTypeOK /\ ShownInv /\ CallsInv /\ BoxesInv /\ SentInv

(* The page as it is loaded, connected, or with a contract chosen. *)
LEMMA ToolInitInv ==
    ASSUME \E a \in Accounts \cup {None} : ToolInitWith(a) \/ \E c \in Contracts : Chosen(a, c)
    PROVE  ToolInv
<1>1. PICK a \in Accounts \cup {None} : ToolInitWith(a) \/ \E c \in Contracts : Chosen(a, c)
  OBVIOUS
<1>2. /\ link = a /\ index \in Indices /\ form \in Forms /\ keys \in BOOLEAN /\ manual \in BOOLEAN
      /\ schema \in Contracts \cup {None} /\ attributes \in Contracts \cup {None}
      /\ timers = Restart({}, a, index)
      /\ reads = {} \/ reads = {SchemaRead(Example)} \cup timers
      /\ calls = {} /\ sent = {} /\ key = 0 /\ events = 0
      /\ value = [b \in Boxes |-> 0] /\ error = [b \in Boxes |-> 0]
      /\ last = [b \in Boxes |-> NoPress]
  BY <1>1, ToolAssumption DEF ToolInitWith, Chosen, Indices
<1>3. /\ ShownInv
      /\ shown["contract"] \in Contracts \cup {None, Failed}
      /\ shown["account"] \in Accounts \cup {None, Failed}
  BY <1>1 DEF ToolInitWith, Chosen, Indices, ShownInv
<1>4. timers \subseteq Reads /\ reads \subseteq Reads
  BY <1>2 DEF Restart, Reads, Indices
<1>5. ToolTypeOK
  BY <1>2, <1>3, <1>4, ToolAssumption DEF ToolTypeOK, UnderWay
<1>6. NoPress \in PressType /\ NoPress.id = 0
  BY DEF NoPress, PressType
<1>7. BoxesInv
  BY <1>2, <1>6 DEF BoxesInv
<1> QED
  BY <1>2, <1>3, <1>5, <1>7 DEF ToolInv, CallsInv, SentInv

(* What is read concerns none of the calls. *)
LEMMA ReadsKeep ==
    ASSUME ToolInv, ReadStep
    PROVE  ToolInv'
<1>1. /\ UNCHANGED <<link, index, form, timers, keys, calls, value, error, last, key, sent, events>>
      /\ schema' \in Contracts \cup {None} /\ manual' \in BOOLEAN
      /\ attributes' \in Contracts \cup {None, Example}
      /\ reads' \subseteq Reads
      /\ ShownInv'
      /\ shown'["contract"] \in Contracts \cup {None, Failed}
      /\ shown'["account"] \in Accounts \cup {None, Failed}
  <2> USE DEF ToolInv, ToolTypeOK, ShownInv, inputs, boxVars, Indices
  <2>1. CASE \E t \in timers : Refresh(t)
    BY <2>1 DEF Refresh
  <2>2. CASE \E i \in Indices : TypedAnswered(i)
    <3> PICK i \in Indices : TypedAnswered(i)
      BY <2>2
    <3>1. i \in Contracts => SchemaRead(i) \in Reads
      BY DEF Reads
    <3> HIDE DEF Indices
    <3>2. reads' \subseteq Reads
      BY <3>1 DEF TypedAnswered
    <3>3. CASE i \in Contracts /\ shown' = [shown EXCEPT !["contract"] = i]
               /\ schema' = i /\ manual' = TRUE /\ attributes' = attributes
      BY <3>2, <3>3 DEF TypedAnswered
    <3>4. CASE shown' = [shown EXCEPT !["contract"] = Failed]
               /\ attributes' = None /\ UNCHANGED <<schema, manual>>
      BY <3>2, <3>4 DEF TypedAnswered
    <3> QED
      BY <3>3, <3>4 DEF TypedAnswered
  <2>3. CASE \E s \in Contracts \cup {Example} : SchemaFetched(s)
    BY <2>3 DEF SchemaFetched
  <2>4. CASE \E c \in Contracts : ContractRefreshed(c)
    BY <2>4 DEF ContractRefreshed
  <2>5. CASE \E a \in Accounts : AccountRefreshed(a)
    BY <2>5 DEF AccountRefreshed
  <2> QED
    BY <2>1, <2>2, <2>3, <2>4, <2>5 DEF ReadStep
<1>2. ToolTypeOK'
  BY <1>1 DEF ToolInv, ToolTypeOK, UnderWay
<1>3. CallsInv' /\ BoxesInv' /\ SentInv'
  BY <1>1 DEF ToolInv, CallsInv, BoxesInv, Stands, WasSent, SentInv, UnderWay, Registration
<1> QED
  BY <1>1, <1>2, <1>3 DEF ToolInv

(* A call that ends, or goes on as a transaction: it is one of those its box
   waits for, and the latest of the box never ends without an answer. *)
LEMMA CallsKeep ==
    ASSUME ToolInv, CallStep
    PROVE  ToolInv'
<1>1. PICK c \in calls : Answered(c) \/ OfferDropped(c) \/ ManualMissing(c) \/ CredentialAccepted(c)
  BY DEF CallStep
<1> DEFINE g == [c EXCEPT !.kind = "send"]
<1>2. c \in CallType /\ c.id \in 1..events /\ events \in Nat
  BY DEF ToolInv, CallsInv, ToolTypeOK
<1>3. g \in CallType /\ g.id = c.id /\ g.kind = "send" /\ g.box = c.box
  BY <1>2 DEF CallType, Kinds
<1>4. /\ UNCHANGED <<link, index, form, timers, keys, schema, attributes, shown, reads, manual,
                     last, events>>
      /\ key' \in {key, c.id}
  BY <1>1 DEF Answered, OfferDropped, ManualMissing, CredentialAccepted, inputs, readVars, boxVars
<1>5. \/ SucceedIn(c)
      \/ FailIn(c)
      \/ UNCHANGED <<value, error>> /\ c.kind # "send"
  BY <1>1 DEF Answered, OfferDropped, ManualMissing, CredentialAccepted, boxVars
<1>6. \/ calls' = calls \ {c} /\ sent' = sent
      \/ calls' = (calls \ {c}) \cup {g} /\ sent' = sent \cup {Registration(c)} /\ c.kind # "send"
  BY <1>1 DEF Answered, OfferDropped, ManualMissing, CredentialAccepted
<1>7. /\ \A d \in calls' : (d \in calls /\ d # c) \/ (d = g /\ c.kind # "send")
      /\ UnderWay \subseteq UnderWay' \cup {c.id}
      /\ UnderWay' \subseteq UnderWay
  BY <1>3, <1>6 DEF UnderWay
<1> HIDE DEF g
<1>8. ToolTypeOK'
  <2>1. \A b \in Boxes : value'[b] \in 0..events /\ error'[b] \in 0..events
    BY <1>2, <1>5 DEF ToolInv, ToolTypeOK, BoxesInv, SucceedIn, FailIn
  <2>2. key' \in 0..events
    BY <1>2, <1>4 DEF ToolInv, ToolTypeOK
  <2> QED
    BY <1>4, <1>7, <2>1, <2>2 DEF ToolInv, ToolTypeOK
<1>9. CallsInv'
  BY <1>2, <1>3, <1>4, <1>7 DEF ToolInv, CallsInv
<1>10. BoxesInv'
  <2>1. value' \in [Boxes -> Nat] /\ error' \in [Boxes -> Nat]
    BY <1>2, <1>5 DEF ToolInv, BoxesInv, SucceedIn, FailIn
  <2>2. ASSUME NEW b \in Boxes, last[b].id # 0
        PROVE  /\ value'[b] \in {0, last[b].id} \cup last[b].over
               /\ error'[b] \in {0, last[b].id} \cup last[b].over
    BY <1>5, <2>2 DEF ToolInv, BoxesInv, SucceedIn, FailIn
  <2>3. ASSUME NEW b \in Boxes, last[b].id # 0
        PROVE  /\ \A d \in calls' : d.box = b => d.id \in {last[b].id} \cup last[b].over
               /\ \A d \in calls' : d.id = last[b].id
                     => d.box = b /\ (d.kind = "send" \/ last[b].offer)
    BY <1>3, <1>7, <2>3 DEF ToolInv, BoxesInv
  <2>4. ASSUME NEW b \in Boxes, last[b].id # 0
        PROVE  \/ last[b].id \in UnderWay' \/ value'[b] # 0 \/ error'[b] # 0
               \/ last[b].offer /\ ~WasSent(last[b].id)'
    <3>1. CASE c.id = last[b].id
      <4>1. c.box = b /\ (c.kind = "send" \/ last[b].offer)
        BY <2>4, <3>1 DEF ToolInv, BoxesInv
      <4>2. CASE SucceedIn(c) \/ FailIn(c)
        BY <1>2, <4>1, <4>2 DEF ToolInv, BoxesInv, SucceedIn, FailIn
      <4>3. CASE c.kind # "send" /\ calls' = calls \ {c} /\ sent' = sent
        BY <1>4, <3>1, <4>1, <4>3 DEF ToolInv, SentInv, WasSent
      <4>4. CASE calls' = (calls \ {c}) \cup {g}
        <5>1. c.id \in UnderWay'
          BY <1>3, <4>4 DEF UnderWay
        <5> QED
          BY <3>1, <5>1
      <4> QED
        BY <1>5, <1>6, <4>2, <4>3, <4>4
    <3>2. CASE c.id # last[b].id
      <4>1. last[b].id \in UnderWay => last[b].id \in UnderWay'
        BY <1>7, <3>2
      <4>5. WasSent(last[b].id)' => WasSent(last[b].id)
        BY <1>4, <1>6, <3>2 DEF WasSent, Registration
      <4>2. value[b] # 0 => value'[b] # 0
        BY <1>2, <1>5 DEF ToolInv, BoxesInv, SucceedIn, FailIn
      <4>3. error[b] # 0 => error'[b] # 0
        BY <1>2, <1>5 DEF ToolInv, BoxesInv, SucceedIn, FailIn
      <4> QED
        BY <1>4, <2>4, <4>1, <4>2, <4>3, <4>5 DEF ToolInv, BoxesInv, Stands
    <3> QED
      BY <3>1, <3>2
  <2> QED
    BY <1>4, <2>1, <2>2, <2>3, <2>4 DEF ToolInv, BoxesInv, Stands
<1>11. SentInv'
  <2>1. CASE sent' = sent
    BY <1>3, <1>4, <1>7, <2>1 DEF ToolInv, SentInv
  <2>2. CASE sent' = sent \cup {Registration(c)} /\ c.kind # "send"
    <3>1. Registration(c).offer = c
      BY DEF Registration
    <3>2. \A s \in sent : s.offer.id # c.id
      BY <2>2 DEF ToolInv, SentInv
    <3>3. \A d \in calls' : d.id = c.id => d.kind = "send"
      BY <1>3, <1>7 DEF ToolInv, CallsInv
    <3>4. \A s \in sent' : s \in sent \/ s = Registration(c)
      BY <2>2
    <3>5. \A s \in sent' : s = Registration(s.offer) /\ s.offer.id \in 1..events
      BY <1>2, <3>1, <3>4 DEF ToolInv, SentInv
    <3>6. \A s, t \in sent' : s.offer.id = t.offer.id => s = t
      BY <3>1, <3>2, <3>4 DEF ToolInv, SentInv
    <3>7. \A s \in sent', d \in calls' : d.id = s.offer.id => d.kind = "send"
      BY <1>3, <1>7, <3>1, <3>3, <3>4 DEF ToolInv, SentInv
    <3> QED
      BY <1>4, <3>5, <3>6, <3>7 DEF SentInv, Registration
  <2> QED
    BY <1>6, <2>1, <2>2
<1> QED
  BY <1>4, <1>8, <1>9, <1>10, <1>11 DEF ToolInv, ShownInv

(* Connecting and typing. *)
LEMMA InputsKeep ==
    ASSUME ToolInv, Connect \/ TypeIndex \/ EditForm \/ TypeManual \/ CreateKeys
    PROVE  ToolInv'
<1>1. /\ UNCHANGED <<schema, attributes, shown, calls, value, error, last, key, sent>>
      /\ events' = events + 1 /\ events < MaxEvents
  BY DEF Connect, TypeIndex, EditForm, TypeManual, CreateKeys, UserActs, inputs, readVars, boxVars
<1>2. /\ link' \in Accounts \cup {None} /\ index' \in Indices /\ form' \in Forms
      /\ keys' \in BOOLEAN /\ manual' \in BOOLEAN
      /\ timers' \subseteq Reads /\ reads' \subseteq Reads
  <2>1. \A a \in Accounts \cup {None}, i \in Indices : Restart(timers, a, i) \subseteq Reads
    BY DEF Restart, Reads, Indices
  <2>2. CASE Connect
    <3>1. \A a \in Accounts : AccountRead(a) \in Reads
      BY DEF Reads
    <3> QED
      BY <2>1, <2>2, <3>1 DEF Connect, ToolInv, ToolTypeOK
  <2>3. CASE TypeIndex
    <3>1. \A i \in Indices : TypedRead(i) \in Reads
      BY DEF Reads
    <3> QED
      BY <2>1, <2>3, <3>1 DEF TypeIndex, ToolInv, ToolTypeOK
  <2>4. CASE EditForm \/ TypeManual \/ CreateKeys
    BY <2>4 DEF EditForm, TypeManual, CreateKeys, ToolInv, ToolTypeOK, inputs, readVars
  <2> QED
    BY <2>2, <2>3, <2>4
<1>3. events \in 0..MaxEvents /\ events' \in 0..MaxEvents
  BY <1>1, ToolAssumption DEF ToolInv, ToolTypeOK
<1>4. ToolTypeOK'
  BY <1>1, <1>2, <1>3 DEF ToolInv, ToolTypeOK, UnderWay
<1>5. CallsInv'
  BY <1>1, <1>3 DEF ToolInv, CallsInv
<1>6. BoxesInv'
  <2>1. \A b \in Boxes : last[b].id \in Nat
    BY DEF ToolInv, BoxesInv, PressType
  <2>2. \A b \in Boxes : last[b].id <= events'
    BY <1>1, <1>3, <2>1 DEF ToolInv, BoxesInv
  <2> QED
    BY <1>1, <2>2 DEF ToolInv, BoxesInv, Stands, WasSent, UnderWay
<1>7. SentInv'
  BY <1>1, <1>3 DEF ToolInv, SentInv, Registration
<1> QED
  BY <1>1, <1>4, <1>5, <1>6, <1>7 DEF ToolInv, ShownInv

(* A press, of either kind: its call is newer than all there were, and the box
   waits for it and for those of its calls that were under way. *)
LEMMA NewPressKeeps ==
    ASSUME ToolInv, NEW box \in Boxes, NEW offer \in BOOLEAN, NEW kind \in Kinds,
           kind = "send" \/ offer,
           UserActs, Clear(box, offer),
           \/ error' = [error EXCEPT ![box] = 0] /\ calls' = calls \cup {Call(kind, box)}
           \/ error' = [error EXCEPT ![box] = events + 1] /\ calls' = calls,
           key' \in {key, 0},
           UNCHANGED <<inputs, keys, readVars, manual, sent>>
    PROVE  ToolInv'
<1> DEFINE k == Call(kind, box)
           n == events + 1
           l == Latest(offer)
<1>1. /\ UNCHANGED <<link, index, form, timers, keys, schema, attributes, shown, reads, manual,
                     sent>>
      /\ events < MaxEvents /\ events' = n
      /\ value' = [value EXCEPT ![box] = 0]
      /\ last' = [last EXCEPT ![box] = l]
  BY DEF UserActs, Clear, inputs, readVars
<1>2. \/ error' = [error EXCEPT ![box] = 0] /\ calls' = calls \cup {k}
      \/ error' = [error EXCEPT ![box] = n] /\ calls' = calls
  OBVIOUS
<1>3. events \in Nat /\ n \in 0..MaxEvents /\ n > events
  BY <1>1, ToolAssumption DEF ToolInv, ToolTypeOK
<1>4. k \in CallType /\ k.id = n /\ k.kind = kind /\ k.box = box
  BY <1>3 DEF Call, CallType, ToolInv, ToolTypeOK
<1>5. /\ calls \subseteq CallType /\ UnderWay \subseteq 1..events
      /\ \A d \in calls : d.id \in UnderWay
      /\ \A d \in calls' : d \in calls \/ d = k
  BY <1>2 DEF ToolInv, CallsInv, UnderWay
<1>6. l \in PressType /\ l.id = n /\ l.offer = offer /\ l.over = UnderWay
  <2>1. n \in Nat /\ UnderWay \subseteq Nat
    BY <1>3, <1>5
  <2> QED
    BY <2>1 DEF Latest, PressType
<1> HIDE DEF k, n, l
<1>7. UnderWay \subseteq UnderWay' /\ UnderWay' \subseteq UnderWay \cup {n}
  BY <1>2, <1>4 DEF UnderWay
<1>8. ToolTypeOK'
  <2>1. \A b \in Boxes : value'[b] \in 0..n /\ error'[b] \in 0..n
    BY <1>1, <1>2, <1>3 DEF ToolInv, ToolTypeOK, BoxesInv
  <2>2. key' \in 0..n /\ UnderWay' \subseteq 1..n
    BY <1>1, <1>3, <1>5, <1>7 DEF ToolInv, ToolTypeOK
  <2> QED
    BY <1>1, <1>3, <2>1, <2>2 DEF ToolInv, ToolTypeOK
<1>9. CallsInv'
  BY <1>1, <1>3, <1>4, <1>5 DEF ToolInv, CallsInv
<1>10. BoxesInv'
  <2>1. /\ value' \in [Boxes -> Nat] /\ error' \in [Boxes -> Nat]
        /\ last' \in [Boxes -> PressType]
    BY <1>1, <1>2, <1>3, <1>6 DEF ToolInv, BoxesInv
  <2>2. \A b \in Boxes : last'[b].id <= n
    <3>1. ASSUME NEW b \in Boxes
          PROVE  last[b].id \in Nat /\ last[b].id <= events
      BY DEF ToolInv, BoxesInv, PressType
    <3>2. \A b \in Boxes : last'[b] = l \/ last'[b] = last[b]
      BY <1>1 DEF ToolInv, BoxesInv
    <3>3. n \in Nat
      BY <1>3
    <3> QED
      BY <1>3, <1>6, <3>1, <3>2, <3>3
  <2>3. ASSUME NEW b \in Boxes, last'[b].id # 0
        PROVE  /\ value'[b] \in {0, last'[b].id} \cup last'[b].over
               /\ error'[b] \in {0, last'[b].id} \cup last'[b].over
               /\ \A d \in calls' : d.box = b => d.id \in {last'[b].id} \cup last'[b].over
               /\ \A d \in calls' : d.id = last'[b].id
                     => d.box = b /\ (d.kind = "send" \/ last'[b].offer)
               /\ \/ last'[b].id \in UnderWay' \/ value'[b] # 0 \/ error'[b] # 0
                  \/ last'[b].offer /\ ~\E s \in sent : s.offer.id = last'[b].id
    <3>1. CASE b = box
      <4>1. last'[b] = l /\ value'[b] = 0
        BY <1>1, <3>1 DEF ToolInv, BoxesInv
      <4>2. (error'[b] = 0 /\ n \in UnderWay') \/ error'[b] = n
        BY <1>2, <1>4, <3>1 DEF ToolInv, BoxesInv, UnderWay
      <4>3. \A d \in calls' : d.id \in {n} \cup UnderWay
        BY <1>4, <1>5
      <4>4. \A d \in calls' : d.id = n => d = k
        BY <1>3, <1>5
      <4> QED
        BY <1>3, <1>4, <1>6, <3>1, <4>1, <4>2, <4>3, <4>4
    <3>2. CASE b # box
      <4>1. last'[b] = last[b] /\ value'[b] = value[b] /\ error'[b] = error[b]
        BY <1>1, <1>2, <3>2 DEF ToolInv, BoxesInv
      <4>2. last[b].id \in Nat /\ last[b].id <= events /\ last[b].id # 0
        BY <2>3, <4>1 DEF ToolInv, BoxesInv, PressType
      <4>3. last[b].id # n
        BY <1>3, <4>2
      <4>4. /\ value'[b] \in {0, last[b].id} \cup last[b].over
            /\ error'[b] \in {0, last[b].id} \cup last[b].over
        BY <4>1, <4>2 DEF ToolInv, BoxesInv
      <4>5. \A d \in calls' : d.box = b => d.id \in {last[b].id} \cup last[b].over
        BY <1>4, <1>5, <3>2, <4>2 DEF ToolInv, BoxesInv
      <4>6. \A d \in calls' : d.id = last[b].id
                => d.box = b /\ (d.kind = "send" \/ last[b].offer)
        BY <1>4, <1>5, <4>2, <4>3 DEF ToolInv, BoxesInv
      <4>7. \/ last[b].id \in UnderWay' \/ value'[b] # 0 \/ error'[b] # 0
            \/ last[b].offer /\ ~\E s \in sent : s.offer.id = last[b].id
        BY <1>7, <4>1, <4>2 DEF ToolInv, BoxesInv, Stands, WasSent
      <4> QED
        BY <4>1, <4>4, <4>5, <4>6, <4>7
    <3> QED
      BY <3>1, <3>2
  <2> QED
    BY <1>1, <2>1, <2>2, <2>3 DEF BoxesInv, Stands, WasSent
<1>11. SentInv'
  BY <1>1, <1>3, <1>4, <1>5 DEF ToolInv, SentInv, Registration
<1> QED
  BY <1>1, <1>8, <1>9, <1>10, <1>11 DEF ToolInv, ShownInv

(* A press that is one call. *)
LEMMA PressKeeps ==
    ASSUME ToolInv, NEW box \in Boxes, NEW complete, Press(box, complete)
    PROVE  ToolInv'
<1>1. "send" \in Kinds /\ FALSE \in BOOLEAN
  BY DEF Kinds
<1> QED
  BY <1>1, NewPressKeeps DEF Press

(* A press that offers a credential. *)
LEMMA OfferKeeps ==
    ASSUME ToolInv, NEW kind \in Kinds, NEW ready, Offer(kind, ready)
    PROVE  ToolInv'
<1>1. "column" \in Boxes /\ TRUE \in BOOLEAN
  BY DEF Boxes
<1> QED
  BY <1>1, NewPressKeeps DEF Offer

LEMMA ToolStutter ==
    ASSUME ToolInv, UNCHANGED toolVars
    PROVE  ToolInv'
BY DEF ToolInv, toolVars, ToolTypeOK, ShownInv, CallsInv, BoxesInv, Stands, WasSent, SentInv,
       UnderWay, Registration

LEMMA ToolStepKeeps ==
    ASSUME ToolInv, ToolNext
    PROVE  ToolInv'
<1>1. CASE Connect \/ TypeIndex \/ EditForm \/ TypeManual \/ CreateKeys
  BY <1>1, InputsKeep
<1>2. CASE \/ CreateIssuer \/ ViewEntry \/ RevokeCredential \/ RestoreCredential
           \/ UpdateIssuerMetadata \/ UpdateCredentialSchema \/ UpdateCredentialMetadata
           \/ IssueDelayed
  <2>1. \E box \in Boxes : \E complete : Press(box, complete)
    BY <1>2 DEF Boxes, CreateIssuer, ViewEntry, RevokeCredential, RestoreCredential,
                UpdateIssuerMetadata, UpdateCredentialSchema, UpdateCredentialMetadata,
                IssueDelayed
  <2> QED
    BY <2>1, PressKeeps
<1>3. CASE Register \/ RegisterLater \/ WrongProof \/ WrongAttributes
  <2>1. \E kind \in Kinds : \E ready : Offer(kind, ready)
    BY <1>3 DEF Kinds, Register, RegisterLater, WrongProof, WrongAttributes
  <2> QED
    BY <2>1, OfferKeeps
<1> QED
  BY <1>1, <1>2, <1>3, ReadsKeep, CallsKeep DEF ToolNext, UserStep

-----------------------------------------------------------------------------
(* The wizard. *)

(* The schema is made anew whenever an attribute is listed, so that it has a
   title as long as any is listed. *)
SchemaInv == SchemaHasWhatIsListed

(* While there is no wallet nothing of step 3 is there, and the wallet's
   answers still to come belong to a step 3 that was left. *)
DeployInv ==
    /\ presses \in 0..MaxDeployments
    /\ asked \subseteq 1..presses
    /\ wallet \in BOOLEAN /\ waiting \in BOOLEAN
    /\ ~wallet => signing \subseteq orphaned

(* What step 3 keeps. *)
Kept == /\ active # 3 => ~wallet
        /\ ~wallet => balance = "none" /\ revokers = {} /\ hash = 0 /\ polls = {} /\ ~waiting
        /\ signing \subseteq 1..presses /\ orphaned \subseteq 1..presses
        /\ hash \in 0..presses /\ contract \in 0..presses
        /\ polls \subseteq {hash} \ {0}
        /\ DeployInv

WizardInv == WizardTypeOK /\ SchemaInv /\ DeployInv

LEMMA WizardInitInv ==
    ASSUME WizardInit
    PROVE  WizardInv
<1>1. /\ active \in 1..3 /\ nextOff = (active = 3) /\ previousOff = (active = 1)
      /\ isTestnet \in BOOLEAN
  <2>1. active = 1 /\ nextOff = FALSE /\ previousOff = TRUE /\ isTestnet = TRUE
    BY DEF WizardInit
  <2>2. (active = 3) = FALSE /\ (active = 1) = TRUE
    BY <2>1
  <2>3. active \in 1..3
    BY <2>1
  <2> QED
    BY <2>1, <2>2, <2>3, Zenon
<1>2. /\ listed = {} /\ properties = {} /\ required = {}
      /\ signing = {} /\ orphaned = {} /\ polls = {} /\ asked = {}
  BY DEF WizardInit
<1>3. /\ metadata \in [Files -> FormData] /\ saved \in [Files -> FormData]
      /\ chain \in [Deployments -> {"none", "sent", "initialized", "rejected"}]
  BY WizardAssumption DEF WizardInit
<1>4. Kept
  <2>1. /\ wallet = FALSE /\ waiting = FALSE /\ balance = "none" /\ revokers = {}
        /\ hash = 0 /\ contract = 0 /\ presses = 0
    BY DEF WizardInit
  <2>2. DeployInv
    <3>1. presses \in 0..MaxDeployments
      BY <2>1, WizardAssumption
    <3>2. wallet \in BOOLEAN /\ waiting \in BOOLEAN
      BY <2>1, Zenon
    <3> QED
      BY <1>2, <3>1, <3>2 DEF DeployInv
  <2> QED
    BY <1>2, <2>1, <2>2 DEF Kept
<1>5. SchemaInv
  BY <1>2 DEF SchemaInv, SchemaHasWhatIsListed
<1> QED
  BY <1>1, <1>2, <1>3, <1>4, <1>5 DEF WizardInv, WizardTypeOK, Kept

(* Step 1. *)
LEMMA FilesKeep ==
    ASSUME WizardInv, FileStep
    PROVE  WizardInv'
<1>1. /\ UNCHANGED <<active, nextOff, previousOff, isTestnet>>
      /\ UNCHANGED <<wallet, balance, revokers, hash, contract, failed, unread, waiting, signing,
                     orphaned, polls, asked, presses, chain>>
  BY DEF FileStep, AddAttribute, ClearAttributes, CreateMetadata, DownloadMetadata, rootVars,
         deployVars, shownVars
<1>2. metadata' \in [Files -> FormData] /\ saved' \in [Files -> FormData]
  BY DEF FileStep, AddAttribute, ClearAttributes, CreateMetadata, DownloadMetadata, WizardInv,
         WizardTypeOK
<1>3. /\ listed' \subseteq [title : Titles, required : BOOLEAN]
      /\ properties' \subseteq Titles /\ required' \subseteq Titles
      /\ SchemaInv'
  <2>1. CASE AddAttribute
    <3>1. PICK t \in Titles \ ListedTitles, r \in BOOLEAN :
             /\ listed' = listed \cup {[title |-> t, required |-> r]}
             /\ properties' = ListedTitles \cup {t}
             /\ required' = required \cup IF r THEN {t} ELSE {}
      BY <2>1 DEF AddAttribute, PropertiesOf
    <3>2. /\ listed \subseteq [title : Titles, required : BOOLEAN]
          /\ required \subseteq Titles
          /\ ListedTitles \subseteq Titles /\ \A a \in listed : a.title # t
          /\ \A a, b \in listed : a.title = b.title => a = b
          /\ \A a \in listed : a.required => a.title \in required
      BY DEF WizardInv, WizardTypeOK, SchemaInv, SchemaHasWhatIsListed, ListedTitles
    <3>3. ListedTitles' = properties'
      <4>1. \A x : x \in ListedTitles' <=> \E a \in listed' : x = a.title
        BY DEF ListedTitles
      <4>2. \A x : x \in ListedTitles <=> \E a \in listed : x = a.title
        BY DEF ListedTitles
      <4>3. \A x : x \in ListedTitles' <=> x \in ListedTitles \/ x = t
        <5>1. [title |-> t, required |-> r].title = t
          OBVIOUS
        <5>2. \A a : a \in listed' <=> a \in listed \/ a = [title |-> t, required |-> r]
          BY <3>1
        <5> QED
          BY <4>1, <4>2, <5>1, <5>2, Zenon
      <4> QED
        BY <3>1, <4>3
    <3>4. \A a, b \in listed' : a.title = b.title => a = b
      BY <3>1, <3>2
    <3>5. {a.title : a \in {x \in listed' : x.required}} \subseteq required'
      BY <3>1, <3>2
    <3> QED
      BY <3>1, <3>2, <3>3, <3>4, <3>5 DEF SchemaInv, SchemaHasWhatIsListed
  <2>2. CASE ~AddAttribute
    <3>1. (listed' = {} \/ listed' = listed) /\ UNCHANGED <<properties, required>>
      BY <2>2 DEF FileStep, ClearAttributes, CreateMetadata, DownloadMetadata
    <3> QED
      BY <3>1 DEF WizardInv, WizardTypeOK, SchemaInv, SchemaHasWhatIsListed, ListedTitles
  <2> QED
    BY <2>1, <2>2
<1> QED
  BY <1>1, <1>2, <1>3 DEF WizardInv, WizardTypeOK, DeployInv

(* Without its wallet the step is as new, but for the answers it waits for. *)
LEMMA ForgottenKeeps ==
    ASSUME Kept, presses \in Nat, ForgetStep3
    PROVE  Kept'
<1>1. /\ wallet' = FALSE /\ balance' = "none" /\ revokers' = {} /\ hash' = 0 /\ contract' = 0
      /\ waiting' = FALSE /\ polls' = {} /\ asked' = {}
      /\ orphaned' = orphaned \cup signing /\ signing' = signing /\ presses' = presses
  BY DEF ForgetStep3
<1>2. signing \subseteq 1..presses /\ orphaned \subseteq 1..presses /\ presses \in 0..MaxDeployments
  BY DEF Kept, DeployInv
<1>3. DeployInv'
  BY <1>1, <1>2 DEF DeployInv
<1> QED
  BY <1>1, <1>2, <1>3 DEF Kept

(* Step 2 and the buttons between the steps. *)
LEMMA GoToKeeps ==
    ASSUME WizardInv, NEW a \in 1..3, GoTo(a),
           a = active + 1 \/ a = active - 1
    PROVE  WizardInv'
<1>1. active \in 1..3 /\ nextOff = (active = 3) /\ previousOff = (active = 1)
  BY DEF WizardInv, WizardTypeOK
<1>2. /\ active' = a /\ nextOff' = (a = 3) /\ previousOff' = (a = 1)
      /\ UNCHANGED <<isTestnet, chain>>
  BY <1>1 DEF GoTo, UpdateProgress
<1>3. \/ UNCHANGED <<listed, properties, required, metadata, saved>>
      \/ /\ listed' = {} /\ metadata' = [f \in Files |-> ExampleData]
         /\ UNCHANGED <<properties, required, saved>>
  BY DEF GoTo, ForgetStep1, schemaVars
<1>4. /\ listed' \subseteq [title : Titles, required : BOOLEAN]
      /\ properties' \subseteq Titles /\ required' \subseteq Titles
      /\ metadata' \in [Files -> FormData] /\ saved' \in [Files -> FormData]
      /\ SchemaInv'
  BY <1>3, WizardAssumption DEF WizardInv, WizardTypeOK, SchemaInv, SchemaHasWhatIsListed,
     ListedTitles
<1>5. Kept /\ presses \in Nat
  BY DEF WizardInv, WizardTypeOK, DeployInv, Kept
<1>6. Kept'
  <2>1. CASE active = 3
    BY <1>2, <1>5, <2>1, ForgottenKeeps DEF GoTo
  <2>2. CASE active # 3
    BY <1>2, <1>5, <2>2 DEF GoTo, deployVars, shownVars, Kept, DeployInv
  <2> QED
    BY <2>1, <2>2
<1> QED
  BY <1>2, <1>4, <1>6 DEF WizardInv, WizardTypeOK, Kept

(* Step 3. *)
LEMMA DeployKeeps ==
    ASSUME WizardInv, DeployStep
    PROVE  WizardInv'
<1>1. /\ UNCHANGED <<listed, properties, required, metadata, saved, active, isTestnet>>
      /\ nextOff' = (active' = 3) /\ previousOff' = (active' = 1)
  BY DEF DeployStep, ConnectWallet, WalletLeaves, ReadBalance, EditRevocationKeys,
         CreateNewIssuer, Signed, Refused, Finalized, AskStatus, StatusRead, StatusFails,
         UpdateProgress, rootVars, schemaVars, WizardInv, WizardTypeOK
<1>2. SchemaInv'
  BY <1>1 DEF WizardInv, SchemaInv, SchemaHasWhatIsListed, ListedTitles
<1>3. chain' \in [Deployments -> {"none", "sent", "initialized", "rejected"}]
  BY DEF DeployStep, ConnectWallet, WalletLeaves, ReadBalance, EditRevocationKeys,
         CreateNewIssuer, Signed, Refused, Finalized, AskStatus, StatusRead, StatusFails,
         deployVars, WizardInv, WizardTypeOK
<1>4. Kept /\ presses \in Nat
  BY DEF WizardInv, WizardTypeOK, DeployInv, Kept
<1>5. Kept'
  <2>1. CASE ConnectWallet
    BY <1>4, <2>1 DEF ConnectWallet, shownVars, DeployInv, Kept
  <2>2. CASE WalletLeaves
    BY <1>4, <2>2, ForgottenKeeps DEF WalletLeaves, rootVars
  <2>3. CASE ReadBalance
    BY <1>4, <2>3 DEF ReadBalance, rootVars, shownVars, DeployInv, Kept
  <2>4. CASE EditRevocationKeys
    BY <1>4, <2>4 DEF EditRevocationKeys, rootVars, shownVars, DeployInv, Kept
  <2>5. CASE CreateNewIssuer
    BY <1>4, <2>5, WizardAssumption DEF CreateNewIssuer, rootVars, DeployInv, Kept, Poll
  <2>6. ASSUME NEW d \in Deployments, Signed(d)
        PROVE  Kept'
    <3>1. CASE d \in orphaned
      BY <1>4, <2>6, <3>1 DEF Signed, rootVars, DeployInv, Kept
    <3>2. CASE d \notin orphaned
      BY <1>4, <2>6, <3>2 DEF Signed, rootVars, DeployInv, Kept, Poll
    <3> QED
      BY <3>1, <3>2
  <2>7. ASSUME NEW d \in Deployments, Refused(d)
        PROVE  Kept'
    BY <1>4, <2>7 DEF Refused, rootVars, DeployInv, Kept
  <2>8. ASSUME NEW d \in Deployments, Finalized(d)
        PROVE  Kept'
    BY <1>4, <2>8 DEF Finalized, rootVars, deployVars, shownVars, DeployInv, Kept
  <2>9. ASSUME NEW d \in Deployments, AskStatus(d) \/ StatusRead(d) \/ StatusFails(d)
        PROVE  Kept'
    <3>1. /\ UNCHANGED <<active, wallet, balance, revokers, hash, signing, orphaned, polls, presses>>
          /\ contract' \in {contract, d}
          /\ asked' \subseteq asked \cup {d}
          /\ waiting' = waiting \/ waiting' = FALSE
      BY <2>9 DEF AskStatus, StatusRead, StatusFails, rootVars, shownVars
    <3>2. d \in polls \cup asked
      BY <2>9 DEF AskStatus, StatusRead, StatusFails
    <3>3. d \in 1..presses
      BY <1>4, <3>2 DEF Kept, DeployInv
    <3>4. DeployInv'
      BY <1>4, <3>1, <3>3 DEF Kept, DeployInv
    <3> QED
      BY <1>4, <3>1, <3>3, <3>4 DEF Kept, DeployInv
  <2> QED
    BY <2>1, <2>2, <2>3, <2>4, <2>5, <2>6, <2>7, <2>8, <2>9 DEF DeployStep
<1> QED
  BY <1>1, <1>2, <1>3, <1>5 DEF WizardInv, WizardTypeOK, Kept

LEMMA WizardStutter ==
    ASSUME WizardInv, UNCHANGED wizardVars
    PROVE  WizardInv'
BY DEF WizardInv, wizardVars, rootVars, schemaVars, shownVars, deployVars, WizardTypeOK,
       SchemaInv, SchemaHasWhatIsListed, ListedTitles, DeployInv

LEMMA WizardStepKeeps ==
    ASSUME WizardInv, WizardNext
    PROVE  WizardInv'
<1>1. active \in 1..3 /\ nextOff = (active = 3) /\ previousOff = (active = 1)
  BY DEF WizardInv, WizardTypeOK
<1>2. CASE SelectNetwork
  BY <1>2 DEF SelectNetwork, schemaVars, deployVars, shownVars, WizardInv, WizardTypeOK,
              SchemaInv, SchemaHasWhatIsListed, ListedTitles, DeployInv
<1>3. CASE GoNext
  <2>1. active + 1 \in 1..3 /\ GoTo(active + 1)
    BY <1>1, <1>3 DEF GoNext
  <2> QED
    BY <2>1, GoToKeeps
<1>4. CASE GoPrevious
  <2>1. active - 1 \in 1..3 /\ GoTo(active - 1)
    BY <1>1, <1>4 DEF GoPrevious
  <2> QED
    BY <2>1, GoToKeeps
<1> QED
  BY <1>2, <1>3, <1>4, FilesKeep, DeployKeeps DEF WizardNext

-----------------------------------------------------------------------------
(* Both, whichever is open. *)

PagesInv == ToolInv /\ WizardInv /\ open \in {"tool", "wizard"}

(* It holds of every run of the test tool and of the wizard. *)
THEOREM PagesInvHolds == MCSpec => []PagesInv
<1>1. MCInit => PagesInv
  BY ToolInitInv, WizardInitInv DEF MCInit, PagesInv, ToolInit
<1>2. PagesInv /\ [MCNext]_pagesVars => PagesInv'
  BY ToolStepKeeps, ToolStutter, WizardStepKeeps, WizardStutter
     DEF PagesInv, MCNext, pagesVars
<1> QED
  BY <1>1, <1>2, PTL DEF MCSpec

(* Every variable keeps its type; the wizard's buttons are off just where
   there is nowhere to go, and what step 3 asks the node and shows is of
   deployments made, and is gone with the wallet. *)
THEOREM PagesTypes == MCSpec => []PagesTypeOK
<1>1. PagesInv => PagesTypeOK
  BY DEF PagesInv, ToolInv, WizardInv, PagesTypeOK
<1> QED
  BY <1>1, PagesInvHolds, PTL

(* Of every press, those that offer a credential included: once the latest one
   of a box has ended, what the box shows answers it or one that was still
   under way when it was made; and if the box is empty, that press was an offer
   of which no transaction was made.  However many presses there are, in
   whatever order they are answered, refused or called back. *)
THEOREM PressesAreAnswered == MCSpec => []PressIsAnswered
<1>1. PagesInv => PressIsAnswered
  <2> SUFFICES ASSUME PagesInv, NEW b \in Boxes,
                      last[b].id # 0, last[b].id \notin UnderWay
               PROVE  \/ Shown(b) \in {last[b].id} \cup last[b].over
                      \/ Shown(b) = 0 /\ last[b].offer /\ ~WasSent(last[b].id)
    BY DEF PressIsAnswered
  <2>1. CASE Shown(b) # 0
    BY <2>1 DEF PagesInv, ToolInv, BoxesInv, Shown
  <2>2. CASE Shown(b) = 0
    BY <2>2 DEF PagesInv, ToolInv, BoxesInv, Stands, Shown
  <2> QED
    BY <2>1, <2>2
<1> QED
  BY <1>1, PagesInvHolds, PTL

(* What a callback registers names the contract and the form of the press it
   belongs to, and no press registers twice. *)
THEOREM OffersRegisteredAsMade == MCSpec => []RegisteredAsOffered
<1>1. PagesInv => RegisteredAsOffered
  BY DEF PagesInv, ToolInv, SentInv, RegisteredAsOffered, Registration
<1> QED
  BY <1>1, PagesInvHolds, PTL

(* The schema object has the attributes listed, once any is, and requires at
   least those listed as required. *)
THEOREM SchemaMatchesList == MCSpec => []SchemaHasWhatIsListed
<1>1. PagesInv => SchemaHasWhatIsListed
  BY DEF PagesInv, WizardInv, SchemaInv
<1> QED
  BY <1>1, PagesInvHolds, PTL
=============================================================================
