--------------------------- MODULE SynopticsProofs ---------------------------
(***************************************************************************)
(* Theorems about the versions of synoptics, for any number of requests    *)
(* at once (Synoptics), and that their row locks are never in a circle.    *)
(***************************************************************************)
EXTENDS Synoptics, FiniteSetTheorems, FunctionTheorems, TLAPS

Labels ==
  {"slug", "create", "created", "open", "opened", "named", "numbered", "inserted", "emptied",
   "removing"}
Adding == {"create", "save", "restore"}

Types ==
  /\ slug \in [Ids -> Nat]
  /\ rows \in SUBSET [syn : Ids, n : Nat, doc : Nat]
  /\ pc \in [Requests -> Labels \cup Answers \cup {"new"}]
  /\ req \in [Requests -> [kind : Kinds \cup {"none"}, syn : Ids, base : Nat, slug : Nat]]
  /\ num \in [Requests -> Nat]
  /\ doc \in [Requests -> Nat]
  /\ floor \in [Requests -> Nat]

(* The primary key, and the versions 1..k of what exists.  Has says that a *)
(* version is there without the maximum, which the provers cannot follow   *)
(* from one state to the next.                                             *)
Has(s, n) == \E v \in rows : v.syn = s /\ v.n = n
Upto(s, k) == \A n \in Nat : Has(s, n) <=> n \in 1..k
OneRow == \A v, w \in rows : v.syn = w.syn /\ v.n = w.n => v = w
Whole(s) ==
  IF slug[s] = Gone THEN \A v \in rows : v.syn # s
  ELSE \E k \in Nat \ {0} : Upto(s, k)
Chains == \A s \in Ids : Whole(s)

(* Which requests may be where in their handler. *)
Place(r) ==
  /\ IF pc[r] \in Labels \cup {"ok"} THEN req[r].kind \in Kinds ELSE req[r].kind = "none"
  /\ pc[r] \in {"slug", "create", "created"} => req[r].kind = "create"
  /\ pc[r] \in {"open", "opened"} => req[r].kind # "create"
  /\ pc[r] = "named" => req[r].kind \in {"save", "restore"}
  /\ pc[r] \in {"numbered", "inserted"} => req[r].kind \in Adding
  /\ pc[r] \in {"emptied", "removing"} => req[r].kind = "delete"
Places == \A r \in Requests : Place(r)

(* A synoptic belongs to the request that created it; the others name one  *)
(* that was created.                                                       *)
Created(r) == req[r].kind = "create" /\ pc[r] = "ok"
Owner(r) ==
  /\ req[r].kind = "create" =>
       /\ req[r].syn = r
       /\ pc[r] \in {"create", "created", "numbered", "inserted", "ok"} => req[r].slug # Gone
  /\ req[r].kind \in {"save", "restore", "delete"} =>
       req[r].syn = 0 \/ (req[r].syn \in Requests /\ Created(req[r].syn))
  /\ slug[r] # Gone => Created(r)
Owners == \A r \in Requests : Owner(r)

(* The number a request computed: free or taken meanwhile until it is      *)
(* inserted, the next one from then on.                                    *)
Numbered(r) ==
  /\ pc[r] \in {"numbered", "inserted"} =>
       /\ num[r] >= 1
       /\ req[r].kind = "create" => num[r] = 1
  /\ pc[r] = "numbered" /\ slug[req[r].syn] # Gone =>
       num[r] = 1 \/ Has(req[r].syn, num[r] - 1)
  /\ pc[r] = "inserted" /\ req[r].kind # "create" =>
       /\ slug[req[r].syn] # Gone
       /\ Has(req[r].syn, num[r] - 1) /\ ~Has(req[r].syn, num[r])
Numbers == \A r \in Requests : Numbered(r)

(* The lock of a new version keeps another one, and a deletion, away. *)
Locks ==
  \A q, r \in Requests :
    q # r /\ pc[q] = "inserted" /\ pc[r] \in {"inserted", "removing"} => req[q].syn # req[r].syn

(* The document a request writes, and wrote. *)
Row(s, n, d) == [syn |-> s, n |-> n, doc |-> d] \in rows
Writes(r) ==
  /\ req[r].kind # "restore" => doc[r] = r
  /\ /\ pc[r] \in {"named", "numbered", "inserted", "ok"} /\ req[r].kind = "restore"
     /\ slug[req[r].syn] # Gone
     => Row(req[r].syn, req[r].base, doc[r])
  /\ pc[r] = "ok" /\ req[r].kind \in Adding /\ slug[req[r].syn] # Gone
     => Row(req[r].syn, num[r], doc[r])
Written == \A r \in Requests : Writes(r)

(* The base of a save that passed the check is not below its floor. *)
Based(r) ==
  /\ pc[r] \in Labels /\ slug[req[r].syn] # Gone => floor[r] = 0 \/ Has(req[r].syn, floor[r])
  /\ /\ pc[r] \in {"named", "numbered", "inserted", "ok"}
     /\ req[r].kind = "save" /\ req[r].base # 0
     /\ slug[req[r].syn] # Gone \/ pc[r] = "ok"
     => floor[r] <= req[r].base
Bases == \A r \in Requests : Based(r)

SynInv ==
  /\ Types /\ OneRow /\ Chains /\ Places /\ Owners /\ Numbers /\ Locks /\ Written /\ Bases

-----------------------------------------------------------------------------
(* What the versions 1..k of a synoptic say of the operators on them. *)
LEMMA TopOfVersions ==
  ASSUME Types, NEW s, NEW k \in Nat, Upto(s, k)
  PROVE  Versions(s) = 1..k /\ MaxVersion(s) = k
<1>1. \A v \in rows : v.n \in Nat
  BY DEF Types
<1>2. Versions(s) = 1..k
  BY <1>1 DEF Versions, Upto, Has
<1>3. CASE k = 0
  BY <1>2, <1>3 DEF MaxVersion
<1>4. CASE k # 0
  <2>1. k \in 1..k /\ \A j \in 1..k : j <= k
    BY <1>4
  <2>2. (CHOOSE n \in 1..k : \A j \in 1..k : j <= n) = k
    BY <2>1
  <2> QED BY <1>2, <2>1, <2>2 DEF MaxVersion
<1> QED BY <1>2, <1>3, <1>4

LEMMA TopOfNothing ==
  ASSUME NEW s, \A v \in rows : v.syn # s
  PROVE  Versions(s) = {} /\ MaxVersion(s) = 0
BY DEF Versions, MaxVersion

(* The first version of an existing synoptic is there, and no version of a *)
(* synoptic that is gone.                                                  *)
LEMMA MaxIsThere ==
  ASSUME SynInv, NEW s \in Ids
  PROVE  /\ MaxVersion(s) \in Nat
         /\ MaxVersion(s) = 0 \/ Has(s, MaxVersion(s))
         /\ slug[s] = Gone => MaxVersion(s) = 0
         /\ slug[s] # Gone => MaxVersion(s) # 0 /\ Upto(s, MaxVersion(s))
         /\ \A n \in Nat : n \in Versions(s) <=> Has(s, n)
<1>1. CASE slug[s] = Gone
  BY <1>1, TopOfNothing DEF SynInv, Chains, Whole, Has
<1>2. CASE slug[s] # Gone
  <2>1. PICK k \in Nat \ {0} : Upto(s, k)
    BY <1>2 DEF SynInv, Chains, Whole
  <2>2. Versions(s) = 1..k /\ MaxVersion(s) = k
    BY <2>1, TopOfVersions DEF SynInv
  <2> QED BY <1>2, <2>1, <2>2 DEF Upto
<1> QED BY <1>1, <1>2

-----------------------------------------------------------------------------
(* A step of request r before its commit touches nothing of the others. *)
Quiet(r) ==
  /\ pc[r] # "ok" /\ pc'[r] # "ok"
  /\ slug' = slug /\ rows' = rows
  /\ \A q \in Requests \ {r} :
       /\ pc'[q] = pc[q] /\ req'[q] = req[q] /\ num'[q] = num[q]
       /\ doc'[q] = doc[q] /\ floor'[q] = floor[q]
  /\ \A q \in Requests \ {r} :
       \/ pc[q] = "inserted" /\ pc'[r] \in {"inserted", "removing"}
       \/ pc[q] = "removing" /\ pc'[r] = "inserted"
       => req[q].syn # req'[r].syn

LEMMA QuietStep ==
  ASSUME SynInv, NEW r \in Requests, Quiet(r), Types',
         Place(r)', Owner(r)', Numbered(r)', Writes(r)', Based(r)'
  PROVE  SynInv'
<1>1. OneRow'
  BY DEF SynInv, OneRow, Quiet
<1>2. Chains'
  <2>1. \A s, k : Upto(s, k) => Upto(s, k)'
    BY DEF Upto, Has, Quiet
  <2> QED BY <2>1 DEF SynInv, Chains, Whole, Quiet
<1>3. Places'
  BY DEF SynInv, Places, Place, Quiet
<1>4. Owners'
  <2> SUFFICES ASSUME NEW q \in Requests, q # r
               PROVE  Owner(q)'
    BY DEF Owners
  <2>1. Owner(q)
    BY DEF SynInv, Owners
  <2>2. \A x \in Requests : Created(x) => x # r /\ Created(x)'
    BY DEF Quiet, Created
  <2> QED BY <2>1, <2>2 DEF Owner, Quiet, Created
<1>5. Numbers'
  BY DEF SynInv, Numbers, Numbered, Has, Quiet
<1>6. Locks'
  BY DEF SynInv, Locks, Quiet
<1>7. Written'
  BY DEF SynInv, Written, Writes, Row, Quiet
<1>8. Bases'
  BY DEF SynInv, Bases, Based, Has, Quiet
<1> QED BY <1>1, <1>2, <1>3, <1>4, <1>5, <1>6, <1>7, <1>8 DEF SynInv

(* A request that ends without a commit leaves nothing behind. *)
LEMMA RefuseStep ==
  ASSUME SynInv, NEW r \in Requests, pc[r] # "ok", NEW a \in Answers \ {"ok"}, Refuse(r, a)
  PROVE  SynInv'
<1> USE SynopticsAssumption
<1>1. Types /\ Owner(r)
  BY DEF SynInv, Owners
<1>2. /\ pc'[r] = a /\ req'[r] = NoRequest /\ num'[r] = 0 /\ doc'[r] = r /\ floor'[r] = 0
      /\ slug' = slug /\ rows' = rows
  BY <1>1 DEF Refuse, Goto, Types
<1>3. a \notin Labels \cup {"ok", "new"}
  BY DEF Answers, Labels
<1>4. Types'
  <2>1. NoRequest \in [kind : Kinds \cup {"none"}, syn : Ids, base : Nat, slug : Nat]
    BY DEF NoRequest, Ids, Gone
  <2>2. r \in Nat
    OBVIOUS
  <2> QED BY <1>1, <2>1, <2>2 DEF Types, Refuse, Goto
<1>5. Quiet(r)
  BY <1>1, <1>2, <1>3 DEF Quiet, Refuse, Goto, Types, Labels
<1>6. Place(r)' /\ Numbered(r)' /\ Writes(r)' /\ Based(r)'
  BY <1>2, <1>3 DEF Place, Numbered, Writes, Based, NoRequest, Labels
<1>7. Owner(r)'
  BY <1>1, <1>2 DEF Owner, Created, NoRequest
<1> QED BY <1>4, <1>5, <1>6, <1>7, QuietStep

LEMMA ReceiveStep ==
  ASSUME SynInv, NEW r \in Requests, Receive(r)
  PROVE  SynInv'
<1> USE SynopticsAssumption
<1>1. Types /\ Owner(r) /\ Writes(r) /\ pc[r] = "new"
  BY DEF SynInv, Owners, Written, Receive, Arrives
<1>2. PICK kind \in Kinds, s \in Ids, b \in 0..Cardinality(Ids), g \in Given \cup {Gone} :
        /\ kind = "create" => r \in Creators /\ s = r /\ b = 0
        /\ kind # "create" => s \in Known /\ g = Gone
        /\ kind = "save" => b \in Versions(s) \cup {0}
        /\ kind = "restore" => b \in Versions(s) \cup {MaxVersion(s) + 1}
        /\ kind = "delete" => b = 0
        /\ req' = [req EXCEPT ![r] = [kind |-> kind, syn |-> s, base |-> b, slug |-> g]]
        /\ floor' = [floor EXCEPT ![r] = MaxVersion(s)]
        /\ Goto(r, IF kind # "create" THEN "open" ELSE IF g = Gone THEN "slug" ELSE "create")
  BY DEF Receive
<1>3. UNCHANGED <<slug, rows, num, doc, updated>>
  BY DEF Receive
<1>4. MaxVersion(s) \in Nat /\ (MaxVersion(s) = 0 \/ Has(s, MaxVersion(s)))
  BY MaxIsThere
<1>5. b \in Nat /\ g \in Nat
  <2>1. \A n \in Versions(s) : n \in Nat
    BY <1>1 DEF Versions, Types
  <2>2. b \in Nat
    BY <1>2, <1>4, <2>1 DEF Kinds
  <2> QED BY <2>2 DEF Gone
<1>6. /\ req'[r] = [kind |-> kind, syn |-> s, base |-> b, slug |-> g]
      /\ floor'[r] = MaxVersion(s) /\ num'[r] = num[r] /\ doc'[r] = doc[r]
      /\ pc'[r] = IF kind # "create" THEN "open" ELSE IF g = Gone THEN "slug" ELSE "create"
  BY <1>1, <1>2, <1>3 DEF Goto, Types
<1>7. Types'
  BY <1>1, <1>2, <1>3, <1>4, <1>5 DEF Types, Goto, Labels
<1>8. Quiet(r)
  BY <1>1, <1>2, <1>3 DEF Quiet, Goto, Types
<1>9. Place(r)'
  BY <1>6 DEF Place, Labels, Kinds
<1>10. Owner(r)'
  <2>1. s \in Known => s = 0 \/ (s \in Requests /\ s # r /\ Created(s)')
    BY <1>1, <1>2, <1>3, <1>6, <1>8 DEF Known, Created, Quiet
  <2>2. slug'[r] = Gone
    BY <1>1, <1>3 DEF Owner, Created
  <2>3. pc'[r] \in {"create", "created", "numbered", "inserted", "ok"} => g # Gone
    BY <1>6
  <2> QED BY <1>2, <1>6, <2>1, <2>2, <2>3 DEF Owner, Created
<1>11. Numbered(r)' /\ Writes(r)'
  <2>1. doc[r] = r
    BY <1>1 DEF SynInv, Places, Place, Writes, Labels
  <2> QED BY <1>6, <2>1 DEF Numbered, Writes
<1>12. Based(r)'
  BY <1>3, <1>4, <1>6 DEF Based, Has
<1> QED BY <1>7, <1>8, <1>9, <1>10, <1>11, <1>12, QuietStep

(* A statement that only moves its handler on. *)
LEMMA StepOn ==
  ASSUME SynInv, NEW r \in Requests, NEW l \in Labels, pc[r] \in Labels, Step(r, l),
         \A q \in Requests \ {r} :
           \/ pc[q] = "inserted" /\ l \in {"inserted", "removing"}
           \/ pc[q] = "removing" /\ l = "inserted"
           => req[q].syn # req[r].syn,
         Place(r)', Numbered(r)', Writes(r)', Based(r)',
         req[r].kind = "create" => req[r].slug # Gone
  PROVE  SynInv'
<1>1. Types /\ Owner(r)
  BY DEF SynInv, Owners
<1>2. Types'
  BY <1>1 DEF Types, Step, Goto
<1>3. pc'[r] = l /\ req' = req /\ slug' = slug /\ l # "ok" /\ pc[r] # "ok"
  BY <1>1 DEF Types, Step, Goto, Labels
<1>4. Quiet(r)
  BY <1>1, <1>3 DEF Quiet, Step, Goto, Types
<1>5. Owner(r)'
  <2>1. \A x \in Requests : Created(x) => Created(x)'
    BY <1>3, <1>4 DEF Created, Quiet
  <2> QED BY <1>1, <1>3, <2>1 DEF Owner, Created
<1> QED BY <1>2, <1>4, <1>5, QuietStep

LEMMA ProbeSlugStep ==
  ASSUME SynInv, NEW r \in Requests, ProbeSlug(r)
  PROVE  SynInv'
<1>1. Types /\ Owner(r) /\ Place(r) /\ Writes(r) /\ Based(r) /\ pc[r] = "slug"
  BY DEF SynInv, Owners, Places, Written, Bases, ProbeSlug
<1>2. PICK g \in Nat \ {0}, l \in {"slug", "create"} :
        req' = [req EXCEPT ![r].slug = g] /\ Goto(r, l)
  <2> DEFINE probe == IF req[r].slug = Gone THEN 1 ELSE req[r].slug
             taken == \E s \in Ids : slug[s] = probe
  <2>1. probe \in Nat \ {0} /\ probe + 1 \in Nat \ {0}
    BY <1>1 DEF Types, Gone
  <2>2. /\ req' = [req EXCEPT ![r].slug = IF taken THEN probe + 1 ELSE probe]
        /\ Goto(r, IF taken THEN "slug" ELSE "create")
    BY DEF ProbeSlug
  <2> QED BY <2>1, <2>2
<1>3. UNCHANGED <<slug, rows, num, doc, updated, floor>>
  BY DEF ProbeSlug
<1>4. /\ req'[r] = [req[r] EXCEPT !.slug = g] /\ pc'[r] = l
      /\ \A q \in Requests \ {r} : req'[q] = req[q] /\ pc'[q] = pc[q]
  BY <1>1, <1>2 DEF Goto, Types
<1>5. /\ req'[r].kind = "create" /\ req'[r].syn = req[r].syn /\ req'[r].base = req[r].base
      /\ req'[r].slug = g
  BY <1>1, <1>4 DEF Types, Place
<1>6. Types'
  BY <1>1, <1>2, <1>3 DEF Types, Goto, Labels
<1>7. Quiet(r)
  BY <1>1, <1>3, <1>4 DEF Quiet
<1>8. Place(r)' /\ Numbered(r)' /\ Writes(r)' /\ Based(r)'
  BY <1>1, <1>3, <1>4, <1>5 DEF Place, Numbered, Writes, Based, Labels, Kinds, Has
<1>9. Owner(r)'
  BY <1>1, <1>3, <1>5 DEF Owner, Created, Gone, Place
<1> QED BY <1>6, <1>7, <1>8, <1>9, QuietStep

LEMMA InsertSynopticStep ==
  ASSUME SynInv, NEW r \in Requests, InsertSynoptic(r)
  PROVE  SynInv'
<1>1. /\ Types /\ Owner(r) /\ Place(r) /\ Numbered(r) /\ Writes(r) /\ Based(r)
      /\ pc[r] = "create" /\ req[r].kind = "create" /\ req[r].slug # Gone
  BY DEF SynInv, Owners, Owner, Places, Place, Numbers, Written, Bases, InsertSynoptic
<1>2. CASE Refuse(r, "conflict")
  BY <1>1, <1>2, RefuseStep DEF Answers
<1>3. CASE Step(r, "created")
  <2>1. pc'[r] = "created" /\ UNCHANGED <<slug, rows, req, num, doc, floor>>
    BY <1>1, <1>3 DEF Step, Goto, Types
  <2>2. Place(r)' /\ Numbered(r)' /\ Writes(r)' /\ Based(r)'
    BY <1>1, <2>1 DEF Place, Numbered, Writes, Based, Labels, Has, Kinds
  <2> QED BY <1>1, <1>3, <2>2, StepOn DEF Labels
<1> QED BY <1>2, <1>3 DEF InsertSynoptic

LEMMA OpenStep ==
  ASSUME SynInv, NEW r \in Requests, Open(r)
  PROVE  SynInv'
<1>1. /\ Types /\ Place(r) /\ Numbered(r) /\ Writes(r) /\ Based(r)
      /\ pc[r] = "open" /\ req[r].kind # "create"
  BY DEF SynInv, Places, Place, Numbers, Written, Bases, Open
<1>2. CASE Refuse(r, "absent")
  BY <1>1, <1>2, RefuseStep DEF Answers
<1>3. CASE Step(r, "opened")
  <2>1. pc'[r] = "opened" /\ UNCHANGED <<slug, rows, req, num, doc, floor>>
    BY <1>1, <1>3 DEF Step, Goto, Types
  <2>2. Place(r)' /\ Numbered(r)' /\ Writes(r)' /\ Based(r)'
    BY <1>1, <2>1 DEF Place, Numbered, Writes, Based, Labels, Has, Kinds
  <2> QED BY <1>1, <1>3, <2>2, StepOn DEF Labels
<1> QED BY <1>2, <1>3 DEF Open

(* A base that passes the check is the last version, or there was none. *)
LEMMA CheckBaseStep ==
  ASSUME SynInv, NEW r \in Requests, CheckBase(r)
  PROVE  SynInv'
<1>1. /\ Types /\ Place(r) /\ Numbered(r) /\ Writes(r) /\ Based(r)
      /\ pc[r] = "opened" /\ req[r].kind = "save"
  BY DEF SynInv, Places, Numbers, Written, Bases, CheckBase
<1>2. CASE Refuse(r, "conflict")
  BY <1>1, <1>2, RefuseStep DEF Answers
<1>3. CASE ~Stale(r) /\ Step(r, "named")
  <2>1. pc'[r] = "named" /\ UNCHANGED <<slug, rows, req, num, doc, floor>>
    BY <1>1, <1>3 DEF Step, Goto, Types
  <2>2. req[r].syn \in Ids /\ req[r].base \in Nat /\ floor[r] \in Nat
    BY <1>1 DEF Types
  <2>3. slug[req[r].syn] # Gone /\ req[r].base # 0 => floor[r] <= req[r].base
    <3> SUFFICES ASSUME slug[req[r].syn] # Gone, req[r].base # 0
                 PROVE  floor[r] <= req[r].base
      OBVIOUS
    <3> DEFINE s == req[r].syn
               k == MaxVersion(s)
    <3>1. /\ k \in Nat /\ k # 0 /\ Upto(s, k) /\ Has(s, k)
          /\ \A n \in Nat : n \in Versions(s) <=> Has(s, n)
      BY <2>2, MaxIsThere
    <3>2. Versions(s) # {} /\ k = req[r].base
      BY <1>3, <3>1 DEF Stale
    <3>3. floor[r] = 0 \/ Has(s, floor[r])
      BY <1>1 DEF Based, Labels
    <3>4. floor[r] <= k
      BY <2>2, <3>1, <3>3 DEF Upto
    <3> QED BY <3>2, <3>4
  <2>4. Place(r)' /\ Numbered(r)' /\ Writes(r)'
    BY <1>1, <2>1 DEF Place, Numbered, Writes, Labels, Kinds
  <2>5. Based(r)'
    BY <1>1, <2>1, <2>3 DEF Based, Labels, Has
  <2> QED BY <1>1, <1>3, <2>4, <2>5, StepOn DEF Labels
<1> QED BY <1>2, <1>3 DEF CheckBase

(* The document of a version is the one of its row. *)
LEMMA DocumentOfRow ==
  ASSUME Types, NEW s, NEW n, Has(s, n)
  PROVE  Document(s, n) \in Nat /\ Row(s, n, Document(s, n))
<1> DEFINE v == CHOOSE w \in rows : w.syn = s /\ w.n = n
<1>1. v \in rows /\ v.syn = s /\ v.n = n
  BY DEF Has
<1>2. v \in [syn : Ids, n : Nat, doc : Nat]
  BY <1>1 DEF Types
<1>3. v = [syn |-> s, n |-> n, doc |-> v.doc] /\ v.doc \in Nat
  BY <1>1, <1>2
<1> HIDE DEF v
<1>4. [syn |-> s, n |-> n, doc |-> v.doc] \in rows
  BY <1>1, <1>3
<1> QED BY <1>3, <1>4 DEF Document, Row, v

LEMMA ReadOldStep ==
  ASSUME SynInv, NEW r \in Requests, ReadOld(r)
  PROVE  SynInv'
<1>1. /\ Types /\ Owner(r) /\ Place(r) /\ Numbered(r) /\ Writes(r) /\ Based(r)
      /\ pc[r] = "opened" /\ req[r].kind = "restore"
  BY DEF SynInv, Owners, Places, Numbers, Written, Bases, ReadOld
<1>2. CASE Refuse(r, "absent")
  BY <1>1, <1>2, RefuseStep DEF Answers
<1>3. CASE /\ req[r].base \in Versions(req[r].syn)
           /\ doc' = [doc EXCEPT ![r] = Old(r)]
           /\ Goto(r, "named")
           /\ UNCHANGED <<slug, rows, req, num, updated, floor>>
  <2>1. pc'[r] = "named" /\ doc'[r] = Old(r)
    BY <1>1, <1>3 DEF Goto, Types
  <2>2. Old(r) \in Nat /\ Row(req[r].syn, req[r].base, Old(r))
    BY <1>1, <1>3, DocumentOfRow DEF Old, Versions, Has
  <2>3. Types'
    BY <1>1, <1>3, <2>2 DEF Types, Goto, Labels
  <2>4. Quiet(r)
    BY <1>1, <1>3, <2>1 DEF Quiet, Goto, Types
  <2>5. Place(r)' /\ Numbered(r)' /\ Based(r)'
    BY <1>1, <1>3, <2>1 DEF Place, Numbered, Based, Labels, Kinds, Has
  <2>6. Writes(r)'
    BY <1>1, <1>3, <2>1, <2>2 DEF Writes, Row
  <2>7. Owner(r)'
    <3>1. \A x \in Requests : Created(x) => Created(x)'
      BY <1>3, <2>4 DEF Created, Quiet
    <3> QED BY <1>1, <1>3, <2>1, <3>1 DEF Owner, Created
  <2> QED BY <2>3, <2>4, <2>5, <2>6, <2>7, QuietStep
<1> QED BY <1>2, <1>3 DEF ReadOld

LEMMA RenameStep ==
  ASSUME SynInv, NEW r \in Requests, Rename(r)
  PROVE  SynInv'
<1>1. pc[r] = "named"
  BY DEF Rename
<1>2. CASE Refuse(r, "error")
  BY <1>1, <1>2, RefuseStep DEF Answers
<1>3. CASE UNCHANGED <<slug, rows, pc, req, num, doc, floor>>
  <2>1. \A s, k : Upto(s, k) => Upto(s, k)'
    BY <1>3 DEF Upto, Has
  <2>2. Chains'
    BY <1>3, <2>1 DEF SynInv, Chains, Whole
  <2>3. Types' /\ OneRow' /\ Places' /\ Locks'
    BY <1>3 DEF SynInv, Types, OneRow, Places, Place, Locks
  <2>4. Owners' /\ Numbers' /\ Written' /\ Bases'
    BY <1>3 DEF SynInv, Owners, Owner, Created, Numbers, Numbered, Written, Writes, Row,
                Bases, Based, Has
  <2> QED BY <2>2, <2>3, <2>4 DEF SynInv
<1> QED BY <1>2, <1>3 DEF Rename

(* The number is the next one; a synoptic being created has no version. *)
LEMMA ReadMaxStep ==
  ASSUME SynInv, NEW r \in Requests, ReadMax(r)
  PROVE  SynInv'
<1>1. /\ Types /\ Owner(r) /\ Place(r) /\ Writes(r) /\ Based(r)
      /\ pc[r] \in {"created", "named"} /\ req[r].kind \in Adding
  BY DEF SynInv, Owners, Places, Place, Written, Bases, ReadMax, Adding
<1>2. UNCHANGED <<slug, rows, req, doc, updated, floor>>
  BY DEF ReadMax
<1> DEFINE s == req[r].syn
           k == MaxVersion(s)
<1>3. s \in Ids
  BY <1>1 DEF Types
<1>4. k \in Nat /\ (k = 0 \/ Has(s, k)) /\ (slug[s] = Gone => k = 0)
  BY <1>3, MaxIsThere
<1>5. req[r].kind = "create" => k = 0
  <2>1. req[r].kind = "create" => s = r /\ slug[r] = Gone
    BY <1>1 DEF Owner, Created
  <2> QED BY <1>4, <2>1
<1> HIDE DEF k
<1>6. pc'[r] = "numbered" /\ num'[r] = k + 1
  BY <1>1 DEF ReadMax, Goto, Types, Number, k
<1>7. Types'
  BY <1>1, <1>2, <1>4 DEF Types, ReadMax, Goto, Labels, Number, k
<1>8. Quiet(r)
  BY <1>1, <1>2, <1>6 DEF Quiet, ReadMax, Goto, Types
<1>9. Place(r)' /\ Writes(r)'
  BY <1>1, <1>2, <1>6 DEF Place, Writes, Row, Labels, Kinds, Adding
<1>10. Numbered(r)'
  BY <1>1, <1>2, <1>4, <1>5, <1>6 DEF Numbered, Has
<1>11. Based(r)'
  BY <1>1, <1>2, <1>6 DEF Based, Place, Labels, Has
<1>12. Owner(r)'
  <2>1. \A x \in Requests : Created(x) => Created(x)'
    BY <1>2, <1>8 DEF Created, Quiet
  <2> QED BY <1>1, <1>2, <1>6, <2>1 DEF Owner, Place, Created
<1> QED BY <1>7, <1>8, <1>9, <1>10, <1>11, <1>12, QuietStep

(* A number that is not taken is the next one. *)
LEMMA InsertVersionStep ==
  ASSUME SynInv, NEW r \in Requests, InsertVersion(r)
  PROVE  SynInv'
<1>1. /\ Types /\ Owner(r) /\ Place(r) /\ Numbered(r) /\ Writes(r) /\ Based(r)
      /\ pc[r] = "numbered" /\ req[r].kind \in Adding
  BY DEF SynInv, Owners, Places, Place, Numbers, Written, Bases, InsertVersion
<1>2. CASE Refuse(r, Refused(r))
  BY <1>1, <1>2, RefuseStep DEF Answers, Refused
<1>3. CASE /\ ~Duplicate(r) /\ (req[r].kind # "create" => slug[req[r].syn] # Gone)
           /\ Step(r, "inserted")
  <2> DEFINE s == req[r].syn
             k == MaxVersion(s)
  <2>1. pc'[r] = "inserted" /\ UNCHANGED <<slug, rows, req, num, doc, floor>>
    BY <1>1, <1>3 DEF Step, Goto, Types
  <2>2. s \in Ids /\ num[r] \in Nat
    BY <1>1 DEF Types
  <2>3. ~Has(s, num[r])
    BY <1>3, <2>2, MaxIsThere DEF Duplicate
  <2>4. req[r].kind # "create" => num[r] # 1 /\ Has(s, num[r] - 1)
    <3> SUFFICES ASSUME req[r].kind # "create"
                 PROVE  num[r] # 1 /\ Has(s, num[r] - 1)
      OBVIOUS
    <3>1. k \in Nat /\ k # 0 /\ Upto(s, k)
      BY <1>3, <2>2, MaxIsThere
    <3>2. Has(s, 1)
      BY <3>1 DEF Upto
    <3> QED BY <1>1, <1>3, <2>3, <3>2 DEF Numbered
  <2>5. \A q \in Requests \ {r} :
          pc[q] \in {"inserted", "removing"} => req[q].syn # s
    <3> SUFFICES ASSUME NEW q \in Requests \ {r}, pc[q] \in {"inserted", "removing"},
                        req[q].syn = s
                 PROVE  FALSE
      OBVIOUS
    <3>1. pc[q] = "inserted" /\ num[q] # num[r]
      BY DEF InsertVersion, WaitsForDelete, Removing, Inserting
    <3>2. Numbered(q) /\ Owner(q) /\ Place(q) /\ Types
      BY DEF SynInv, Numbers, Owners, Places
    <3>3. CASE req[q].kind = "create"
      <4>1. s = q /\ slug[q] = Gone
        BY <3>1, <3>2, <3>3 DEF Owner, Created
      <4>2. req[r].kind # "create"
        BY <1>1, <4>1 DEF Owner
      <4> QED BY <1>3, <4>1, <4>2
    <3>4. CASE req[q].kind # "create"
      <4>1. num[q] \in Nat /\ num[q] >= 1 /\ Has(s, num[q] - 1) /\ ~Has(s, num[q]) /\ slug[s] # Gone
        BY <3>1, <3>2, <3>4 DEF Numbered, Types
      <4>2. req[r].kind # "create"
        BY <1>1, <3>2, <4>1 DEF Owner, Created
      <4>3. k \in Nat /\ k # 0 /\ Upto(s, k)
        BY <2>2, <4>1, MaxIsThere
      <4>4. num[q] = k + 1
        BY <4>1, <4>3 DEF Upto
      <4>5. num[r] = k + 1
        BY <1>1, <2>2, <2>3, <2>4, <4>2, <4>3 DEF Upto, Numbered
      <4> QED BY <3>1, <4>4, <4>5
    <3> QED BY <3>3, <3>4
  <2>6. Place(r)' /\ Writes(r)' /\ Based(r)'
    BY <1>1, <2>1 DEF Place, Writes, Row, Based, Labels, Kinds, Has, Adding
  <2>7. Numbered(r)'
    BY <1>1, <1>3, <2>1, <2>3, <2>4 DEF Numbered, Has
  <2>8. req[r].kind = "create" => req[r].slug # Gone
    BY <1>1 DEF Owner
  <2> QED BY <1>1, <1>3, <2>5, <2>6, <2>7, <2>8, StepOn DEF Labels
<1> QED BY <1>2, <1>3 DEF InsertVersion

LEMMA DeleteVersionsStep ==
  ASSUME SynInv, NEW r \in Requests, DeleteVersions(r)
  PROVE  SynInv'
<1>1. /\ Types /\ Place(r) /\ Numbered(r) /\ Writes(r) /\ Based(r)
      /\ pc[r] = "opened" /\ req[r].kind = "delete" /\ Step(r, "emptied")
  BY DEF SynInv, Places, Numbers, Written, Bases, DeleteVersions
<1>2. pc'[r] = "emptied" /\ UNCHANGED <<slug, rows, req, num, doc, floor>>
  BY <1>1 DEF Step, Goto, Types
<1>3. Place(r)' /\ Numbered(r)' /\ Writes(r)' /\ Based(r)'
  BY <1>1, <1>2 DEF Place, Numbered, Writes, Based, Labels, Has, Kinds
<1> QED BY <1>1, <1>3, StepOn DEF Labels

LEMMA DeleteSynopticStep ==
  ASSUME SynInv, NEW r \in Requests, DeleteSynoptic(r)
  PROVE  SynInv'
<1>1. /\ Types /\ Place(r) /\ Numbered(r) /\ Writes(r) /\ Based(r)
      /\ pc[r] = "emptied" /\ req[r].kind = "delete" /\ Step(r, "removing")
      /\ \A q \in Requests \ {r} : pc[q] = "inserted" => req[q].syn # req[r].syn
  BY DEF SynInv, Places, Place, Numbers, Written, Bases, DeleteSynoptic, Inserting
<1>2. pc'[r] = "removing" /\ UNCHANGED <<slug, rows, req, num, doc, floor>>
  BY <1>1 DEF Step, Goto, Types
<1>3. Place(r)' /\ Numbered(r)' /\ Writes(r)' /\ Based(r)'
  BY <1>1, <1>2 DEF Place, Numbered, Writes, Based, Labels, Has, Kinds
<1> QED BY <1>1, <1>3, StepOn DEF Labels

-----------------------------------------------------------------------------
(* The commit of a version: only synoptic s has one more, and its lock     *)
(* kept the other requests from adding or deleting it.                     *)
LEMMA CommitVersionStep ==
  ASSUME SynInv, NEW r \in Requests, CommitVersion(r)
  PROVE  SynInv'
<1> USE SynopticsAssumption
<1> DEFINE s == req[r].syn
           n == num[r]
           new == [syn |-> s, n |-> n, doc |-> doc[r]]
           creating == req[r].kind = "create"
<1>1. /\ Types /\ Owner(r) /\ Place(r) /\ Numbered(r) /\ Writes(r) /\ Based(r)
      /\ pc[r] = "inserted" /\ req[r].kind \in Adding
  BY DEF SynInv, Owners, Places, Place, Numbers, Written, Bases, CommitVersion
<1>2. /\ s \in Ids /\ n \in Nat /\ doc[r] \in Nat /\ n >= 1
      /\ creating => s = r /\ n = 1 /\ slug[s] = Gone /\ req[r].slug # Gone
      /\ ~creating => slug[s] # Gone /\ Has(s, n - 1) /\ ~Has(s, n)
  BY <1>1 DEF Types, Numbered, Owner, Created
<1>3. /\ rows' = rows \cup {new} /\ pc' = [pc EXCEPT ![r] = "ok"]
      /\ req' = req /\ num' = num /\ doc' = doc /\ floor' = floor
      /\ slug' = IF creating THEN [slug EXCEPT ![r] = req[r].slug] ELSE slug
  BY DEF CommitVersion, Goto
<1>4. /\ pc'[r] = "ok" /\ \A q \in Requests \ {r} : pc'[q] = pc[q]
      /\ slug'[s] # Gone /\ \A t \in Ids \ {s} : slug'[t] = slug[t]
  BY <1>1, <1>2, <1>3 DEF Types, Ids
<1>5. Types'
  <2>1. new \in [syn : Ids, n : Nat, doc : Nat]
    BY <1>2
  <2>2. req[r].slug \in Nat
    BY <1>1 DEF Types
  <2>3. slug' \in [Ids -> Nat] /\ rows' \in SUBSET [syn : Ids, n : Nat, doc : Nat]
    BY <1>1, <1>3, <2>1, <2>2 DEF Types
  <2> QED BY <1>1, <1>3, <2>3 DEF Types, Answers
<1>6. \A t, m : Has(t, m)' <=> Has(t, m) \/ (t = s /\ m = n)
  <2>1. new.syn = s /\ new.n = n /\ new \in rows'
    BY <1>3
  <2> HIDE DEF new
  <2> QED BY <1>3, <2>1 DEF Has
<1>7. ~Has(s, n)
  <2>1. CASE creating
    BY <1>2, <2>1 DEF SynInv, Chains, Whole, Has
  <2> QED BY <1>2, <2>1
<1>8. OneRow'
  <2> SUFFICES ASSUME NEW v \in rows', NEW w \in rows', v.syn = w.syn, v.n = w.n
               PROVE  v = w
    BY DEF OneRow
  <2>1. CASE v \in rows /\ w \in rows
    BY <2>1 DEF SynInv, OneRow
  <2>2. CASE v \in rows /\ w = new
    BY <1>7, <2>2 DEF Has
  <2>3. CASE v = new /\ w \in rows
    BY <1>7, <2>3 DEF Has
  <2> QED BY <1>3, <2>1, <2>2, <2>3
<1>9. Chains'
  <2> SUFFICES ASSUME NEW t \in Ids
               PROVE  Whole(t)'
    BY DEF Chains
  <2>1. CASE t # s
    <3>1. \A k : Upto(t, k) => Upto(t, k)'
      BY <1>6, <2>1 DEF Upto
    <3>2. slug'[t] = slug[t] /\ \A v \in rows' : v.syn = t => v \in rows
      BY <1>3, <1>4, <2>1
    <3> QED BY <3>1, <3>2 DEF SynInv, Chains, Whole
  <2>2. CASE t = s /\ creating
    <3>1. \A m \in Nat : ~Has(t, m)
      BY <1>2, <2>2 DEF SynInv, Chains, Whole, Has
    <3>2. Upto(t, 1)'
      BY <1>2, <1>6, <2>2, <3>1 DEF Upto
    <3> QED BY <1>4, <2>2, <3>2 DEF Whole
  <2>3. CASE t = s /\ ~creating
    <3>1. PICK k \in Nat \ {0} : Upto(t, k)
      BY <1>2, <2>3 DEF SynInv, Chains, Whole
    <3>2. n = k + 1
      BY <1>2, <2>3, <3>1 DEF Upto
    <3>3. Upto(t, k + 1)'
      BY <1>6, <2>3, <3>1, <3>2 DEF Upto
    <3> QED BY <1>4, <2>3, <3>3 DEF Whole
  <2> QED BY <2>1, <2>2, <2>3
<1>10. Places'
  BY <1>1, <1>3, <1>4 DEF SynInv, Places, Place, Labels, Kinds, Adding
<1>11. Owners'
  <2>1. \A q \in Requests : Created(q) => Created(q)'
    BY <1>3, <1>4 DEF Created
  <2> SUFFICES ASSUME NEW q \in Requests
               PROVE  Owner(q)'
    BY DEF Owners
  <2>2. Owner(q)
    BY DEF SynInv, Owners
  <2>3. req[q].kind = "create" =>
          /\ req[q].syn = q
          /\ pc'[q] \in {"create", "created", "numbered", "inserted", "ok"} => req[q].slug # Gone
    BY <1>2, <1>4, <2>2 DEF Owner
  <2>4. req[q].kind \in {"save", "restore", "delete"} =>
          req[q].syn = 0 \/ (req[q].syn \in Requests /\ Created(req[q].syn)')
    BY <1>3, <2>1, <2>2 DEF Owner, Created
  <2>5. slug'[q] # Gone => Created(q)'
    <3>1. CASE q # r \/ ~creating
      <4>1. slug'[q] = slug[q]
        BY <1>1, <1>3, <3>1 DEF Types, Ids
      <4> QED BY <2>1, <2>2, <4>1 DEF Owner
    <3>2. CASE q = r /\ creating
      BY <1>3, <1>4, <3>2 DEF Created
    <3> QED BY <3>1, <3>2
  <2> QED BY <1>3, <2>3, <2>4, <2>5 DEF Owner, Created
(* Another request either has another synoptic, or one that was there. *)
<1>12. \A q \in Requests \ {r} :
         pc[q] \in Labels \cup {"ok"} => req[q].syn \in Ids /\ slug'[req[q].syn] = slug[req[q].syn]
  <2> SUFFICES ASSUME NEW q \in Requests \ {r}, pc[q] \in Labels \cup {"ok"}, creating
               PROVE  req[q].syn # s
    BY <1>1, <1>3, <1>4 DEF Types
  <2>1. Owner(q) /\ Place(q)
    BY DEF SynInv, Owners, Places
  <2> QED BY <1>1, <1>2, <2>1 DEF Owner, Place, Kinds, Created
<1>13. Numbers'
  <2> SUFFICES ASSUME NEW q \in Requests \ {r}
               PROVE  Numbered(q)'
    BY <1>4 DEF Numbers, Numbered
  <2>1. Numbered(q)
    BY DEF SynInv, Numbers
  <2>2. pc[q] = "inserted" => req[q].syn # s
    BY <1>1 DEF SynInv, Locks
  <2> QED BY <1>3, <1>4, <1>6, <1>12, <2>1, <2>2 DEF Numbered, Labels
<1>14. Locks'
  BY <1>3, <1>4 DEF SynInv, Locks
<1>15. Written'
  <2>1. \A t, m, d : Row(t, m, d) => Row(t, m, d)'
    BY <1>3 DEF Row
  <2>2. Row(s, n, doc[r])'
    BY <1>3 DEF Row
  <2>3. Writes(r)'
    BY <1>1, <1>2, <1>3, <1>4, <2>1, <2>2 DEF Writes, Row
  <2>4. ASSUME NEW q \in Requests \ {r}
        PROVE  Writes(q)'
    <3>1. Writes(q)
      BY DEF SynInv, Written
    <3>2. pc'[q] = pc[q] /\ req'[q] = req[q] /\ num'[q] = num[q] /\ doc'[q] = doc[q]
      BY <1>3, <1>4
    <3>3. pc[q] \in {"named", "numbered", "inserted", "ok"} => slug'[req[q].syn] = slug[req[q].syn]
      BY <1>12 DEF Labels
    <3>4. \A m, d : Row(req[q].syn, m, d) => Row(req[q].syn, m, d)'
      BY <1>3, <3>2 DEF Row
    <3> QED BY <3>1, <3>2, <3>3, <3>4 DEF Writes
  <2> QED BY <2>3, <2>4 DEF Written
<1>16. Bases'
  <2>1. Based(r)'
    BY <1>1, <1>2, <1>3, <1>4 DEF Based, Labels
  <2>2. ASSUME NEW q \in Requests \ {r}
        PROVE  Based(q)'
    <3>1. Based(q)
      BY DEF SynInv, Bases
    <3> QED BY <1>3, <1>4, <1>6, <1>12, <3>1 DEF Based, Labels
  <2> QED BY <2>1, <2>2 DEF Bases
<1> QED BY <1>5, <1>8, <1>9, <1>10, <1>11, <1>13, <1>14, <1>15, <1>16 DEF SynInv

(* The commit of a deletion: no version of the synoptic is left, and no    *)
(* request holds one of its versions.                                      *)
LEMMA CommitDeleteStep ==
  ASSUME SynInv, NEW r \in Requests, CommitDelete(r)
  PROVE  SynInv'
<1> USE SynopticsAssumption
<1> DEFINE s == req[r].syn
<1>1. /\ Types /\ Place(r) /\ Writes(r) /\ pc[r] = "removing" /\ req[r].kind = "delete" /\ s \in Ids
  BY DEF SynInv, Places, Place, Written, CommitDelete, Types
<1>2. /\ rows' = {v \in rows : v.syn # s} /\ pc' = [pc EXCEPT ![r] = "ok"]
      /\ req' = req /\ num' = num /\ doc' = doc /\ floor' = floor
      /\ slug' = [slug EXCEPT ![s] = Gone]
  BY DEF CommitDelete, Goto, RowsAfterDelete
<1>3. /\ pc'[r] = "ok" /\ \A q \in Requests \ {r} : pc'[q] = pc[q]
      /\ slug'[s] = Gone /\ \A t \in Ids \ {s} : slug'[t] = slug[t]
  BY <1>1, <1>2 DEF Types
<1>4. Types'
  BY <1>1, <1>2 DEF Types, Gone, Answers
<1>5. \A t, m : t # s => (Has(t, m)' <=> Has(t, m))
  BY <1>2 DEF Has
<1>6. OneRow'
  BY <1>2 DEF SynInv, OneRow
<1>7. Chains'
  <2> SUFFICES ASSUME NEW t \in Ids
               PROVE  Whole(t)'
    BY DEF Chains
  <2>1. CASE t # s
    <3>1. \A k : Upto(t, k) => Upto(t, k)'
      BY <1>5, <2>1 DEF Upto
    <3>2. slug'[t] = slug[t] /\ \A v \in rows' : v.syn = t => v \in rows
      BY <1>2, <1>3, <2>1
    <3> QED BY <3>1, <3>2 DEF SynInv, Chains, Whole
  <2>2. CASE t = s
    BY <1>2, <1>3, <2>2 DEF Whole
  <2> QED BY <2>1, <2>2
<1>8. Places'
  BY <1>1, <1>2, <1>3 DEF SynInv, Places, Place, Labels, Kinds
<1>9. Owners'
  <2>1. \A q \in Requests : Created(q) => Created(q)'
    BY <1>2, <1>3 DEF Created
  <2> SUFFICES ASSUME NEW q \in Requests
               PROVE  Owner(q)'
    BY DEF Owners
  <2>2. Owner(q)
    BY DEF SynInv, Owners
  <2>3. slug'[q] # Gone => slug[q] # Gone
    BY <1>3 DEF Ids
  <2> QED BY <1>1, <1>2, <1>3, <2>1, <2>2, <2>3 DEF Owner, Created
(* A request that still counts on its synoptic has another one. *)
<1>10. \A q \in Requests : /\ req[q].syn \in Ids
                           /\ slug'[req[q].syn] # Gone => req[q].syn # s /\ slug[req[q].syn] # Gone
                           /\ q # r /\ pc[q] = "inserted" => req[q].syn # s
  BY <1>1, <1>3 DEF Types, SynInv, Locks
<1>11. Numbers'
  <2> SUFFICES ASSUME NEW q \in Requests \ {r}
               PROVE  Numbered(q)'
    BY <1>3 DEF Numbers, Numbered
  <2>1. Numbered(q)
    BY DEF SynInv, Numbers
  <2> QED BY <1>2, <1>3, <1>5, <1>10, <2>1 DEF Numbered
<1>12. Locks'
  BY <1>2, <1>3 DEF SynInv, Locks
<1>13. Written'
  <2>1. \A t, m, d : t # s /\ Row(t, m, d) => Row(t, m, d)'
    BY <1>2 DEF Row
  <2> SUFFICES ASSUME NEW q \in Requests
               PROVE  Writes(q)'
    BY DEF Written
  <2>2. Writes(q)
    BY DEF SynInv, Written
  <2> QED BY <1>1, <1>2, <1>3, <1>10, <2>1, <2>2 DEF Writes, Row, Adding
<1>14. Bases'
  <2> SUFFICES ASSUME NEW q \in Requests
               PROVE  Based(q)'
    BY DEF Bases
  <2>1. Based(q)
    BY DEF SynInv, Bases
  <2> QED BY <1>1, <1>2, <1>3, <1>5, <1>10, <2>1 DEF Based, Labels
<1> QED BY <1>4, <1>6, <1>7, <1>8, <1>9, <1>11, <1>12, <1>13, <1>14 DEF SynInv

-----------------------------------------------------------------------------
LEMMA SynInit == Init => SynInv
<1> SUFFICES ASSUME Init PROVE SynInv
  OBVIOUS
<1> USE SynopticsAssumption DEF Init, NoRequest, Gone
<1>1. Types
  BY DEF Types, Ids
<1>2. OneRow /\ Places /\ Numbers /\ Locks /\ Bases
  BY DEF OneRow, Places, Place, Numbers, Numbered, Locks, Bases, Based, Labels
<1>3. Owners /\ Written
  BY DEF Owners, Owner, Created, Written, Writes, Ids
<1>4. Chains
  <2> SUFFICES ASSUME NEW s \in Ids PROVE Whole(s)
    BY DEF Chains
  <2>1. CASE s = 0
    <3>1. Upto(0, 1)
      BY DEF Upto, Has
    <3> QED BY <2>1, <3>1 DEF Whole, Ids
  <2>2. CASE s # 0
    BY <2>2 DEF Whole, Ids
  <2> QED BY <2>1, <2>2
<1> QED BY <1>1, <1>2, <1>3, <1>4 DEF SynInv

LEMMA SynNext == SynInv /\ [Next]_vars => SynInv'
<1> SUFFICES ASSUME SynInv, [Next]_vars PROVE SynInv'
  OBVIOUS
<1>1. CASE UNCHANGED vars
  <2> USE <1>1 DEF vars
  <2>1. \A s, k : Upto(s, k) => Upto(s, k)'
    BY DEF Upto, Has
  <2>2. Chains'
    BY <2>1 DEF SynInv, Chains, Whole
  <2>3. Types' /\ OneRow' /\ Places' /\ Locks'
    BY DEF SynInv, Types, OneRow, Places, Place, Locks
  <2>4. Owners' /\ Numbers' /\ Written' /\ Bases'
    BY DEF SynInv, Owners, Owner, Created, Numbers, Numbered, Written, Writes, Row,
           Bases, Based, Has
  <2> QED BY <2>2, <2>3, <2>4 DEF SynInv
<1>2. ASSUME NEW r \in Requests, Reject(r)
      PROVE  SynInv'
  BY <1>2, RefuseStep DEF Reject, Arrives, Answers
<1>3. ASSUME NEW r \in Requests, Abort(r)
      PROVE  SynInv'
  BY <1>3, RefuseStep DEF Abort, Running, Answers
<1>4. ASSUME NEW r \in Requests, Handle(r)
      PROVE  SynInv'
  BY <1>4, ProbeSlugStep, InsertSynopticStep, OpenStep, CheckBaseStep, ReadOldStep, RenameStep,
     ReadMaxStep, InsertVersionStep, CommitVersionStep, DeleteVersionsStep, DeleteSynopticStep,
     CommitDeleteStep DEF Handle
<1> QED BY <1>1, <1>2, <1>3, <1>4, ReceiveStep DEF Next

LEMMA SynAlways == Spec => []SynInv
BY SynInit, SynNext, PTL DEF Spec

(* Types of every reachable state, however many requests there are. *)
THEOREM SynopticTypes == Spec => []Types
<1>1. SynInv => Types
  BY DEF SynInv
<1> QED BY <1>1, SynAlways, PTL

(* Whatever saves, restorations and deletions run at once: a synoptic that *)
(* exists has the versions 1..k, each in one row, and one that was deleted *)
(* has none.  The numbers are computed outside any lock (_add_version);    *)
(* the unique index and the foreign key make it true.                      *)
THEOREM HistoryIsWhole == Spec => []HistoryWhole
<1>1. SynInv => HistoryWhole
  <2> SUFFICES ASSUME SynInv, NEW s \in Ids
               PROVE  LET mine == {v \in rows : v.syn = s}
                      IN IF slug[s] = Gone THEN mine = {}
                         ELSE mine # {} /\ Versions(s) = 1..Cardinality(mine)
    BY DEF HistoryWhole
  <2> DEFINE mine == {v \in rows : v.syn = s}
             k == MaxVersion(s)
             number == [v \in mine |-> v.n]
  <2>1. CASE slug[s] = Gone
    BY <2>1 DEF SynInv, Chains, Whole
  <2>2. CASE slug[s] # Gone
    <3>1. k \in Nat /\ k # 0 /\ Upto(s, k) /\ Has(s, k)
      BY <2>2, MaxIsThere
    <3>2. Versions(s) = 1..k
      BY <3>1, TopOfVersions DEF SynInv
    <3>3. mine # {}
      BY <3>1 DEF Has
    <3> HIDE DEF k
    <3>4. number \in Bijection(mine, 1..k)
      <4>1. \A v \in mine : v.n \in 1..k
        BY <3>1 DEF SynInv, Types, Upto, Has
      <4>2. \A v, w \in mine : v.n = w.n => v = w
        BY DEF SynInv, OneRow
      <4>3. \A j \in 1..k : \E v \in mine : v.n = j
        BY <3>1 DEF Upto, Has
      <4> QED BY <4>1, <4>2, <4>3 DEF Bijection, Injection, Surjection, IsInjective
    <3>5. IsFiniteSet(1..k) /\ Cardinality(1..k) = k
      BY <3>1, FS_Interval
    <3>6. mine = {v \in rows : v.syn = s} /\ number \in Bijection(mine, 1..k)
      BY <3>4
    <3> HIDE DEF mine, number
    <3>7. ExistsBijection(1..k, mine)
      BY <3>4, Fun_ExistsBijSymmetric DEF ExistsBijection
    <3>8. Cardinality(mine) = k
      BY <3>5, <3>7, FS_Bijection
    <3> QED BY <2>2, <3>2, <3>3, <3>8 DEF mine
  <2> QED BY <2>1, <2>2
<1> QED BY <1>1, SynAlways, PTL

(* An accepted creation, save or restoration is the document of the        *)
(* version it was answered, as long as its synoptic exists.                *)
THEOREM AcceptedStored == Spec => []AcceptedIsStored
<1>1. ASSUME SynInv, NEW s, NEW n, NEW d, Row(s, n, d)
      PROVE  Has(s, n) /\ Document(s, n) = d
  <2>1. Has(s, n)
    BY <1>1 DEF Has, Row
  <2>2. Row(s, n, Document(s, n))
    BY <1>1, <2>1, DocumentOfRow DEF SynInv
  <2>3. [syn |-> s, n |-> n, doc |-> d] = [syn |-> s, n |-> n, doc |-> Document(s, n)]
    BY <1>1, <2>2 DEF SynInv, OneRow, Row
  <2> QED BY <2>1, <2>3
<1>2. SynInv => AcceptedIsStored
  <2> SUFFICES ASSUME SynInv, NEW r \in Requests, pc[r] = "ok", req[r].kind \in Adding,
                      slug[req[r].syn] # Gone
               PROVE  /\ num[r] \in Versions(req[r].syn)
                      /\ Document(req[r].syn, num[r]) =
                           IF req[r].kind = "restore" THEN Document(req[r].syn, req[r].base) ELSE r
    BY DEF AcceptedIsStored, Adding
  <2>1. Writes(r)
    BY DEF SynInv, Written
  <2>2. Row(req[r].syn, num[r], doc[r])
    BY <2>1 DEF Writes
  <2>3. Has(req[r].syn, num[r]) /\ Document(req[r].syn, num[r]) = doc[r]
    BY <1>1, <2>2
  <2>4. req[r].kind = "restore" => Document(req[r].syn, req[r].base) = doc[r]
    BY <1>1, <2>1 DEF Writes
  <2>5. num[r] \in Versions(req[r].syn)
    BY <2>3 DEF Has, Versions
  <2> QED BY <2>1, <2>3, <2>4, <2>5 DEF Writes
<1> QED BY <1>2, SynAlways, PTL

(* A save whose base was already old when the request came in is refused.  *)
THEOREM OldBaseIsRefused == Spec => []OldBaseRefused
<1>1. SynInv => OldBaseRefused
  BY DEF SynInv, Types, Bases, Based, OldBaseRefused
<1> QED BY <1>1, SynAlways, PTL

-----------------------------------------------------------------------------
(* The locks.                                                              *)
(*                                                                         *)
(* WaitsFor reads the guards of the statements the other way round: what   *)
(* r asks for next is held by q.  A rename waits only when the name        *)
(* changes, which any save or restoration may do.                          *)
WaitsFor(r, q) ==
  LET s == req[r].syn IN
  /\ q # r
  /\ \/ /\ pc[r] = "create"
        /\ \/ /\ req[q].kind = "create" /\ req[q].slug = req[r].slug
              /\ pc[q] \in {"created", "numbered", "inserted"}
           \/ pc[q] = "removing" /\ slug[req[q].syn] = req[r].slug
     \/ pc[r] = "named" /\ r \notin updated /\ (Renaming(q, s) \/ Removing(q, s))
     \/ pc[r] = "numbered" /\ (Removing(q, s) \/ (Inserting(q, s) /\ num[q] = num[r]))
     \/ pc[r] = "opened" /\ req[r].kind = "delete" /\ Emptying(q, s)
     \/ pc[r] = "emptied" /\ (Renaming(q, s) \/ Inserting(q, s))

(* How far a request may be from an end that waits for nobody. *)
Level(r) ==
  IF pc[r] \in {"create", "opened"} THEN 3
  ELSE IF pc[r] = "emptied" \/ (pc[r] = "named" /\ r \notin updated) THEN 2
  ELSE IF pc[r] = "numbered" THEN 1
  ELSE 0

LocksOrdered ==
  \A r, q \in Requests : WaitsFor(r, q) => Running(q) /\ Level(q) < Level(r)

SomebodyMoves ==
  (\E r \in Requests : Running(r)) =>
    \E r \in Requests : Running(r) /\ \A q \in Requests : ~WaitsFor(r, q)

(* Who holds the lock of an UPDATE is on its way to a commit. *)
Renamers ==
  /\ updated \subseteq Requests
  /\ \A r \in updated : pc[r] \in {"named", "numbered", "inserted"}

Holding == {"named", "numbered", "inserted"}

LEMMA RenamersStep ==
  ASSUME Types, Renamers, [Next]_vars
  PROVE  Renamers'
<1>t. pc \in [Requests -> Labels \cup Answers \cup {"new"}]
  BY DEF Types
<1>g. ASSUME NEW r \in Requests, NEW l, Goto(r, l), updated' \subseteq updated,
             r \in updated' => l \in Holding
      PROVE  Renamers'
  BY <1>g, <1>t DEF Renamers, Holding, Goto
<1>r. ASSUME NEW r \in Requests, NEW a, Refuse(r, a)
      PROVE  Renamers'
  BY <1>g, <1>r DEF Refuse, Released
<1>s. ASSUME NEW r \in Requests, NEW l, Step(r, l), pc[r] \notin Holding \/ l \in Holding
      PROVE  Renamers'
  BY <1>g, <1>s DEF Step, Renamers, Holding
<1>1. ASSUME NEW r \in Requests, Reject(r) \/ Abort(r) PROVE Renamers'
  BY <1>1, <1>r DEF Reject, Abort
<1>2. ASSUME NEW r \in Requests, Receive(r) PROVE Renamers'
  <2>1. pc[r] = "new" /\ updated' = updated /\ \E l : Goto(r, l)
    BY <1>2 DEF Receive, Arrives
  <2> QED BY <1>g, <2>1 DEF Renamers
<1>3. ASSUME NEW r \in Requests, Handle(r) PROVE Renamers'
  <2>1. CASE ProbeSlug(r)
    <3>1. pc[r] = "slug" /\ updated' = updated /\ \E l : Goto(r, l)
      BY <2>1 DEF ProbeSlug
    <3> QED BY <1>g, <3>1 DEF Renamers
  <2>2. CASE InsertSynoptic(r)
    BY <1>r, <1>s, <2>2 DEF InsertSynoptic, Holding
  <2>3. CASE Open(r)
    BY <1>r, <1>s, <2>3 DEF Open, Holding
  <2>4. CASE CheckBase(r)
    BY <1>r, <1>s, <2>4 DEF CheckBase, Holding
  <2>5. CASE ReadOld(r)
    BY <1>r, <1>g, <2>5 DEF ReadOld, Holding
  <2>6. CASE Rename(r)
    <3>1. CASE Refuse(r, "error")
      BY <1>r, <3>1
    <3>2. CASE updated' = updated \cup {r} /\ pc' = pc
      BY <2>6, <3>2 DEF Rename, Renamers
    <3> QED BY <2>6, <3>1, <3>2 DEF Rename
  <2>7. CASE ReadMax(r)
    BY <1>g, <2>7 DEF ReadMax, Holding
  <2>8. CASE InsertVersion(r)
    BY <1>r, <1>s, <2>8 DEF InsertVersion, Holding
  <2>9. CASE CommitVersion(r)
    BY <1>g, <2>9 DEF CommitVersion
  <2>10. CASE DeleteVersions(r) \/ DeleteSynoptic(r)
    BY <1>s, <2>10 DEF DeleteVersions, DeleteSynoptic, Holding
  <2>11. CASE CommitDelete(r)
    <3>1. r \notin updated
      BY <2>11 DEF CommitDelete, Renamers
    <3> QED BY <1>g, <2>11, <3>1 DEF CommitDelete
  <2> QED
    BY <1>3, <2>1, <2>2, <2>3, <2>4, <2>5, <2>6, <2>7, <2>8, <2>9, <2>10, <2>11, Zenon DEF Handle
<1>4. CASE UNCHANGED vars
  BY <1>4 DEF vars, Renamers
<1> QED BY <1>1, <1>2, <1>3, <1>4 DEF Next

LEMMA RenamersAlways == Spec => []Renamers
<1>1. Init => Renamers
  BY DEF Init, Renamers
<1>2. SynInv => Types
  BY DEF SynInv
<1> QED BY SynAlways, RenamersStep, <1>1, <1>2, PTL DEF Spec

(* The row locks of creations, saves, renames and deletions never wait for *)
(* each other in a circle: whoever is waited for is in its handler, and    *)
(* nearer to its end than who waits.                                       *)
THEOREM LocksInOrder == Spec => []LocksOrdered
<1>1. Types /\ Places /\ Renamers => LocksOrdered
  <2> SUFFICES ASSUME Types, Places, Renamers,
                      NEW r \in Requests, NEW q \in Requests, WaitsFor(r, q)
               PROVE  Running(q) /\ Level(q) < Level(r)
    BY DEF LocksOrdered
  <2>1. ASSUME q \in updated PROVE pc[q] \in Holding /\ Level(q) \in {0, 1}
    BY <2>1 DEF Renamers, Holding, Level
  <2>2. ASSUME pc[q] \in {"created", "inserted", "removing"} PROVE Level(q) = 0
    BY <2>2 DEF Level
  <2>3. ASSUME pc[q] = "numbered" PROVE Level(q) = 1
    BY <2>3 DEF Level
  <2>4. ASSUME pc[q] = "emptied" PROVE Level(q) = 2
    BY <2>4 DEF Level
  <2>5. CASE pc[r] = "create"
    <3>1. Level(r) = 3
      BY <2>5 DEF Level
    <3>2. pc[q] \in {"created", "numbered", "inserted", "removing"}
      BY <2>5 DEF WaitsFor
    <3> QED BY <2>2, <2>3, <3>1, <3>2 DEF Running, Answers
  <2>6. CASE pc[r] = "opened"
    <3>1. Level(r) = 3
      BY <2>6 DEF Level
    <3>2. pc[q] \in {"emptied", "removing"}
      BY <2>6 DEF WaitsFor, Emptying
    <3> QED BY <2>2, <2>4, <3>1, <3>2 DEF Running, Answers
  <2>7. CASE pc[r] = "named" \/ pc[r] = "emptied"
    <3>1. Level(r) = 2
      BY <2>7 DEF Level, WaitsFor
    <3>2. q \in updated \/ pc[q] \in {"inserted", "removing"}
      BY <2>7 DEF WaitsFor, Renaming, Removing, Inserting
    <3> QED BY <2>1, <2>2, <3>1, <3>2 DEF Running, Answers, Holding
  <2>8. CASE pc[r] = "numbered"
    <3>1. Level(r) = 1
      BY <2>8 DEF Level
    <3>2. pc[q] \in {"inserted", "removing"}
      BY <2>8 DEF WaitsFor, Removing, Inserting
    <3> QED BY <2>2, <3>1, <3>2 DEF Running, Answers
  <2> QED BY <2>5, <2>6, <2>7, <2>8 DEF WaitsFor
<1>2. SynInv => Types /\ Places
  BY DEF SynInv
<1> QED BY SynAlways, RenamersAlways, <1>1, <1>2, PTL

(* While a request is in its handler, one of those in theirs waits for     *)
(* nobody: the safety core of EveryRequestAnswered, for any number of      *)
(* requests at once.                                                       *)
THEOREM SomebodyAlwaysMoves == Spec => []SomebodyMoves
<1>1. LocksOrdered => SomebodyMoves
  <2> SUFFICES ASSUME LocksOrdered, NEW r \in Requests, Running(r),
                      \A q \in Requests : Running(q) => \E p \in Requests : WaitsFor(q, p)
               PROVE  FALSE
    BY DEF SomebodyMoves
  <2>1. \A q \in Requests : Level(q) \in {0, 1, 2, 3}
    BY DEF Level
  <2>2. ASSUME NEW q \in Requests, Running(q)
        PROVE  \E p \in Requests : Running(p) /\ Level(p) < Level(q)
    BY <2>2 DEF LocksOrdered
  <2>3. \A q \in Requests : Running(q) => Level(q) # 0
    BY <2>1, <2>2
  <2>4. \A q \in Requests : Running(q) => Level(q) # 1
    BY <2>1, <2>2, <2>3
  <2>5. \A q \in Requests : Running(q) => Level(q) # 2
    BY <2>1, <2>2, <2>3, <2>4
  <2>6. \A q \in Requests : Running(q) => Level(q) # 3
    BY <2>1, <2>2, <2>3, <2>4, <2>5
  <2> QED BY <2>1, <2>3, <2>4, <2>5, <2>6
<1> QED BY LocksInOrder, <1>1, PTL

=============================================================================
