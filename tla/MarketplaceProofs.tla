--------------------------- MODULE MarketplaceProofs ---------------------------
(***************************************************************************)
(* Proofs about Catalogue, Desk, Statistics and Lists, for any number of   *)
(* users, prompts, purchases, images, inquiries, reviews, days, instances  *)
(* of the server and rows of a list, and any size of its pages.            *)
(***************************************************************************)
EXTENDS Marketplace, DataTheorems, TLAPS

-----------------------------------------------------------------------------
(* Catalogue: prompts, purchases, downloads and images.                     *)
\* CatalogueTypeOK in the parts that an action touches.
OfferType ==
  /\ works \in [Works -> [free : BOOLEAN, price : Terms, by : Patrons \cup {Guest}]]
  /\ likes \subseteq Patrons \X Works
  /\ edited \subseteq Works

SaleType ==
  /\ sheets \subseteq Patrons \X Works
  /\ sales \subseteq SaleRows
  /\ sold \in 0..MaxSales
  /\ charged \subseteq 1..MaxSales
  /\ away \subseteq [by : Patrons, of : Works, paid : BOOLEAN, several : BOOLEAN, approved : BOOLEAN]

PictureType ==
  /\ pictures \subseteq PictureRows
  /\ pictured \in 0..MaxPictures
  /\ objects \subseteq Urls
  /\ damaged \subseteq Works \cup Urls

DoorType == door \in [Doors -> {Shut} \cup Downloads]
CrewType == crew \in [Crew -> {Shut} \cup Deletions \cup PictureDeletions]

LEMMA TypeParts ==
  CatalogueTypeOK <=> OfferType /\ SaleType /\ PictureType /\ DoorType /\ CrewType
PROOF
  BY DEF CatalogueTypeOK, OfferType, SaleType, PictureType, DoorType, CrewType

\* Purchases have numbers of their own; one that was charged has a settlement.
SaleInv ==
  /\ IsFiniteSet(sales)
  /\ \A s \in sales : s.id <= sold /\ (s.id \in charged => s.state # "free")
  /\ \A s, t \in sales : s.id = t.id => s = t
  /\ SalesSurvive /\ FreeOnce

\* A download about to record a free prompt has seen every record of it, but
\* those made since by others.
DoorInv ==
  \A d \in Doors : door[d].step = "record" /\ ~ door[d].raced =>
    \A s \in sales : s.by = door[d].by /\ s.of = door[d].of => s.state # "free"

\* An address in two rows was sent twice.
PictureInv ==
  /\ \A p \in pictures : p.id <= pictured
  /\ \A p, r \in pictures : p.url = r.url /\ p.id # r.id => p.url \in damaged
  /\ \A p, r \in pictures : p.id = r.id => p = r
  /\ PicturesShow

CatalogueInv ==
  /\ OfferType /\ SaleType /\ PictureType /\ DoorType /\ CrewType
  /\ OffersAreChecked /\ SaleInv /\ PaidOpens /\ DoorInv /\ PictureInv
-----------------------------------------------------------------------------
LEMMA CatalogueInitInv == CatalogueInit => CatalogueInv
PROOF
  <1> SUFFICES ASSUME CatalogueInit PROVE CatalogueInv
    OBVIOUS
  <1>1. OfferType /\ SaleType /\ PictureType /\ DoorType /\ CrewType
    BY CatalogueAssumption DEF CatalogueAssumption, CatalogueInit, OfferType, SaleType,
       PictureType, DoorType, CrewType, NotMade
  <1>2. SaleInv
    BY FS_EmptySet DEF CatalogueInit, SaleInv, SalesSurvive, FreeOnce
  <1> QED
    BY <1>1, <1>2 DEF CatalogueInit, CatalogueInv, OffersAreChecked, PaidOpens, DoorInv, PictureInv,
       PicturesShow, Exists, Shut
-----------------------------------------------------------------------------
(* Upload, edit and likes: neither sales nor images.                        *)

LEMMA OfferStep ==
  ASSUME CatalogueInv, OfferType', OffersAreChecked', UNCHANGED <<saleVars, pictureVars, door, crew>>
  PROVE  CatalogueInv'
PROOF
  BY DEF CatalogueInv, saleVars, pictureVars, SaleType, PictureType, DoorType, CrewType, SaleInv,
     SalesSurvive, FreeOnce, PaidOpens, DoorInv, PictureInv, PicturesShow

LEMMA CreateStep ==
  ASSUME CatalogueInv, NEW u \in Patrons, NEW w \in Works, NEW free \in BOOLEAN, NEW price \in Terms,
         OfferAllowed(u, free, price), CreatePromptWrite(u, w, free, IF free THEN 0 ELSE price)
  PROVE  CatalogueInv'
PROOF
  <1>1. PICK c \in Terms : c = IF free THEN 0 ELSE price
    BY CatalogueAssumption DEF CatalogueAssumption
  <1>2. /\ works' = [works EXCEPT ![w] = [free |-> free, price |-> c, by |-> u]]
        /\ UNCHANGED <<edited, likes, saleVars, pictureVars, door, crew>>
    BY <1>1 DEF CreatePromptWrite, CreatePromptWriteRepo
  <1>3. OfferType'
    BY <1>2 DEF CatalogueInv, OfferType
  <1>4. OfferAllowed(u, free, c)
    BY <1>1 DEF OfferAllowed
  <1>5. /\ works'[w].by = u /\ works'[w].free = free /\ works'[w].price = c
        /\ \A x \in Works \ {w} : works'[x] = works[x]
    BY <1>2 DEF CatalogueInv, OfferType
  <1>6. OffersAreChecked'
    BY <1>2, <1>4, <1>5 DEF CatalogueInv, OffersAreChecked, Exists
  <1> QED BY <1>2, <1>3, <1>6, OfferStep

LEMMA EditStep ==
  ASSUME CatalogueInv, NEW w \in Works, NEW free \in BOOLEAN, NEW price \in Terms,
         UpdatePrompt(w, free, price)
  PROVE  CatalogueInv'
PROOF
  <1>1. /\ works' = [works EXCEPT ![w].free = free, ![w].price = price]
        /\ edited' = edited \cup {w}
        /\ UNCHANGED <<likes, saleVars, pictureVars, door, crew>>
    BY DEF UpdatePrompt, UpdatePromptRepo
  <1>2. [works[w] EXCEPT !.free = free, !.price = price]
          \in [free : BOOLEAN, price : Terms, by : Patrons \cup {Guest}]
    BY DEF CatalogueInv, OfferType
  <1>3. works' = [works EXCEPT ![w] = [works[w] EXCEPT !.free = free, !.price = price]]
    BY <1>1 DEF CatalogueInv, OfferType
  <1>4. OfferType'
    BY <1>1, <1>2, <1>3 DEF CatalogueInv, OfferType
  <1>5. \A x \in Works \ {w} : works'[x] = works[x]
    BY <1>3 DEF CatalogueInv, OfferType
  <1>6. OffersAreChecked'
    BY <1>1, <1>5 DEF CatalogueInv, OffersAreChecked, Exists
  <1> QED BY <1>1, <1>4, <1>6, OfferStep

LEMMA LikeStep ==
  ASSUME CatalogueInv, NEW u \in Patrons, NEW w \in Works, LikePrompt(u, w) \/ UnlikePrompt(u, w)
  PROVE  CatalogueInv'
PROOF
  <1>1. UNCHANGED <<works, edited, saleVars, pictureVars, door, crew>>
        /\ likes' \subseteq likes \cup {<<u, w>>}
    BY DEF LikePrompt, UnlikePrompt, AddPromptLike, RemovePromptLike
  <1>2. OfferType'
    BY <1>1 DEF CatalogueInv, OfferType
  <1>3. OffersAreChecked'
    BY <1>1 DEF CatalogueInv, OffersAreChecked, Exists
  <1> QED BY <1>1, <1>2, <1>3, OfferStep
-----------------------------------------------------------------------------
(* Purchase rows: one changes, one comes, some go.                          *)

LEMMA RowChanges ==
  ASSUME CatalogueInv, NEW s \in sales, NEW t \in SaleRows,
         t.id = s.id, t.by = s.by, t.of = s.of, t.raced = s.raced,
         t.state = "free" <=> s.state = "free",
         sales' = (sales \ {s}) \cup {t}, UNCHANGED <<sold, charged>>,
         \A d \in Doors : door'[d].step = "record" => door'[d] = door[d]
  PROVE  SaleInv' /\ DoorInv' /\ sales' \subseteq SaleRows
PROOF
  <1>1. sales' \subseteq SaleRows
    BY DEF CatalogueInv, SaleType
  <1>2. IsFiniteSet(sales')
    BY FS_RemoveElement, FS_AddElement DEF CatalogueInv, SaleInv
  <1>3. \A x \in sales' : \E y \in sales :
          /\ x.id = y.id /\ x.by = y.by /\ x.of = y.of /\ x.raced = y.raced
          /\ x.state = "free" <=> y.state = "free"
    OBVIOUS
  <1>4. \A x, y \in sales' : x.id = y.id => x = y
    BY DEF CatalogueInv, SaleInv
  <1>5. SalesSurvive'
    BY DEF CatalogueInv, SaleInv, SalesSurvive
  <1>6. FreeOnce'
    BY <1>3 DEF CatalogueInv, SaleInv, FreeOnce
  <1>7. \A x \in sales' : x.id <= sold' /\ (x.id \in charged' => x.state # "free")
    BY <1>3 DEF CatalogueInv, SaleInv
  <1>8. DoorInv'
    BY <1>3 DEF CatalogueInv, DoorInv
  <1> QED BY <1>1, <1>2, <1>4, <1>5, <1>6, <1>7, <1>8 DEF SaleInv

LEMMA RowComes ==
  ASSUME CatalogueInv, NEW u \in Patrons, NEW w \in Works, NEW state \in SaleState,
         NEW raced \in BOOLEAN, AddSale(u, w, state, raced),
         charged' \in {charged, charged \cup {sold + 1}},
         state = "free" => /\ charged' = charged
                           /\ raced \/ \A s \in sales : s.by = u /\ s.of = w => s.state # "free",
         \A d \in Doors : door'[d].step = "record" /\ ~ door'[d].raced =>
           /\ door'[d] = door[d]
           /\ ~ (state = "free" /\ door[d].by = u /\ door[d].of = w)
  PROVE  /\ SaleInv' /\ DoorInv' /\ sales' \subseteq SaleRows
         /\ sold' \in 0..MaxSales /\ charged' \subseteq 1..MaxSales
PROOF
  <1>1. sold \in Nat /\ sold + 1 \in 1..MaxSales /\ sold' = sold + 1
    BY CatalogueAssumption DEF CatalogueAssumption, AddSale, CatalogueInv, SaleType
  <1>2. PICK t \in SaleRows :
          /\ t.id = sold + 1 /\ t.by = u /\ t.of = w /\ t.state = state /\ t.raced = raced
          /\ sales' = sales \cup {t}
    BY <1>1 DEF AddSale, SaleRows
  <1>3. sales' \subseteq SaleRows /\ IsFiniteSet(sales')
    BY <1>2, FS_AddElement DEF CatalogueInv, SaleType, SaleInv
  <1>4. \A s \in sales : s.id \in Nat /\ s.id <= sold /\ s.id # t.id /\ ~ (t.id < s.id)
    BY <1>1, <1>2 DEF CatalogueInv, SaleType, SaleInv, SaleRows
  <1>5. charged \subseteq {s.id : s \in sales}
    BY DEF CatalogueInv, SaleInv, SalesSurvive
  <1>6. sold + 1 \notin charged
    BY <1>2, <1>4, <1>5
  <1>7. \A x \in sales' : x.id <= sold' /\ (x.id \in charged' => x.state # "free")
    BY <1>1, <1>2, <1>4, <1>6 DEF CatalogueInv, SaleInv
  <1>8. \A x, y \in sales' : x.id = y.id => x = y
    BY <1>2, <1>4 DEF CatalogueInv, SaleInv
  <1>9. SalesSurvive'
    BY <1>2, <1>5 DEF SalesSurvive
  <1>10. FreeOnce'
    <2> SUFFICES ASSUME NEW x \in sales', NEW y \in sales', x.state = "free", y.state = "free",
                        x.by = y.by, x.of = y.of, x.id < y.id
                 PROVE  y.raced
      BY DEF FreeOnce
    <2>1. x \in sales
      BY <1>1, <1>2, <1>4
    <2>2. CASE y \in sales
      BY <2>1, <2>2 DEF CatalogueInv, SaleInv, FreeOnce
    <2>3. CASE y = t
      BY <1>2, <2>1, <2>3
    <2> QED BY <1>2, <2>2, <2>3
  <1>11. DoorInv'
    BY <1>2 DEF CatalogueInv, DoorInv
  <1>12. sold' \in 0..MaxSales /\ charged' \subseteq 1..MaxSales
    BY <1>1 DEF CatalogueInv, SaleType
  <1> QED BY <1>3, <1>7, <1>8, <1>9, <1>10, <1>11, <1>12 DEF SaleInv

LEMMA RowsGo ==
  ASSUME CatalogueInv, NEW S \in SUBSET sales, sales' = sales \ S, UNCHANGED sold,
         charged' \subseteq charged, \A s \in S : s.id \notin charged',
         \A d \in Doors : door'[d].step = "record" => door'[d] = door[d]
  PROVE  SaleInv' /\ DoorInv' /\ sales' \subseteq SaleRows
PROOF
  <1>1. IsFiniteSet(sales') /\ sales' \subseteq SaleRows
    BY FS_Difference DEF CatalogueInv, SaleInv, SaleType
  <1>2. SalesSurvive'
    BY DEF CatalogueInv, SaleInv, SalesSurvive
  <1> QED BY <1>1, <1>2 DEF CatalogueInv, SaleInv, DoorInv, FreeOnce

\* A step that leaves offers and images alone.
LEMMA SaleStep ==
  ASSUME CatalogueInv, SaleType', DoorType', SaleInv', DoorInv', PaidOpens',
         UNCHANGED <<offerVars, pictureVars, crew>>
  PROVE  CatalogueInv'
PROOF
  BY DEF CatalogueInv, offerVars, pictureVars, OfferType, OffersAreChecked, Exists, PictureType, CrewType,
     PictureInv, PicturesShow

LEMMA SheetStep ==
  ASSUME CatalogueInv, NEW u \in Patrons, NEW w \in Works, AskForSheet(u, w) PROVE CatalogueInv'
PROOF
  <1>1. UNCHANGED <<offerVars, sales, sold, charged, away, pictureVars, door, crew>>
        /\ sheets' \subseteq Patrons \X Works
    BY DEF AskForSheet, CatalogueInv, SaleType
  <1>2. SaleType' /\ DoorType'
    BY <1>1 DEF CatalogueInv, SaleType, DoorType
  <1>3. SaleInv' /\ DoorInv' /\ PaidOpens'
    BY <1>1 DEF CatalogueInv, SaleInv, SalesSurvive, FreeOnce, DoorInv, PaidOpens
  <1> QED BY <1>1, <1>2, <1>3, SaleStep

LEMMA BookStep ==
  ASSUME CatalogueInv, NEW u \in Patrons, NEW w \in Works, BookSale(u, w) PROVE CatalogueInv'
PROOF
  <1>1. /\ AddSale(u, w, "paid", FALSE) /\ charged' = charged \cup {sold + 1}
        /\ sheets' = sheets \ {<<u, w>>}
        /\ UNCHANGED <<offerVars, away, pictureVars, door, crew>>
    BY DEF BookSale
  <1>2. /\ SaleInv' /\ DoorInv' /\ sales' \subseteq SaleRows
        /\ sold' \in 0..MaxSales /\ charged' \subseteq 1..MaxSales
    BY <1>1, RowComes DEF SaleState
  <1>3. SaleType' /\ DoorType' /\ PaidOpens'
    BY <1>1, <1>2 DEF CatalogueInv, SaleType, DoorType, PaidOpens
  <1> QED BY <1>1, <1>2, <1>3, SaleStep

LEMMA RefundStep == ASSUME CatalogueInv, NEW s \in sales, RefundSale(s) PROVE CatalogueInv'
PROOF
  <1>1. PICK x \in {"approved", "refunded"} :
          sales' = (sales \ {s}) \cup {[s EXCEPT !.state = x]}
    BY DEF RefundSale
  <1>2. PICK t \in SaleRows :
          /\ t = [s EXCEPT !.state = x] /\ t.id = s.id /\ t.by = s.by /\ t.of = s.of
          /\ t.raced = s.raced /\ t.state = x
    <2>1. s \in SaleRows
      BY DEF CatalogueInv, SaleType
    <2>2. [s EXCEPT !.state = x] \in SaleRows
      BY <2>1 DEF SaleRows, SaleState
    <2>3. s = [id |-> s.id, by |-> s.by, of |-> s.of, state |-> s.state, opened |-> s.opened,
               raced |-> s.raced]
      BY <2>1 DEF SaleRows
    <2> QED BY <2>2, <2>3
  <1>3. s.state # "free" /\ UNCHANGED <<offerVars, sheets, sold, charged, away, pictureVars, door, crew>>
    BY DEF RefundSale
  <1>4. SaleInv' /\ DoorInv' /\ sales' \subseteq SaleRows
    BY <1>1, <1>2, <1>3, RowChanges
  <1>5. SaleType' /\ DoorType' /\ PaidOpens'
    BY <1>3, <1>4 DEF CatalogueInv, SaleType, DoorType, PaidOpens
  <1> QED BY <1>3, <1>4, <1>5, SaleStep
-----------------------------------------------------------------------------
(* Downloads.                                                               *)

\* A download as it goes on.
LEMMA DoorKinds ==
  ASSUME CatalogueInv, NEW d \in Doors, door[d].step # "none"
  PROVE  /\ door[d] \in Downloads /\ door[d].by \in Patrons /\ door[d].of \in Works
         /\ door[d].step \in {"find", "stamp", "record", "count"}
PROOF
  <1>1. door[d] \in {Shut} \/ door[d] \in Downloads
    BY DEF CatalogueInv, DoorType
  <1>2. door[d] \notin {Shut}
    BY DEF Shut
  <1> QED BY <1>1, <1>2 DEF Downloads

\* A download goes to a step that is not the record of a free prompt.
LEMMA DoorStep ==
  ASSUME CatalogueInv, NEW d \in Doors, NEW v \in {Shut} \cup Downloads, v.step # "record",
         door' = [door EXCEPT ![d] = v],
         SaleType', SaleInv', PaidOpens',
         \A e \in Doors : door[e].step = "record" /\ ~ door[e].raced =>
           \A s \in sales' : s.by = door[e].by /\ s.of = door[e].of => s.state # "free",
         UNCHANGED <<offerVars, pictureVars, crew>>
  PROVE  CatalogueInv'
PROOF
  <1>1. /\ DoorType' /\ door'[d] = v /\ \A e \in Doors \ {d} : door'[e] = door[e]
    BY DEF CatalogueInv, DoorType
  <1>2. DoorInv'
    BY <1>1 DEF DoorInv
  <1> QED BY <1>1, <1>2, SaleStep

\* One that touches no row.
LEMMA PlainDoorStep ==
  ASSUME CatalogueInv, NEW d \in Doors, NEW v \in {Shut} \cup Downloads, v.step # "record",
         door' = [door EXCEPT ![d] = v],
         UNCHANGED <<offerVars, saleVars, pictureVars, crew>>
  PROVE  CatalogueInv'
PROOF
  <1>1. SaleType' /\ SaleInv' /\ PaidOpens'
    BY DEF CatalogueInv, saleVars, SaleType, SaleInv, SalesSurvive, FreeOnce, PaidOpens
  <1>2. sales' = sales
    BY DEF saleVars
  <1> QED BY <1>1, <1>2, DoorStep DEF CatalogueInv, DoorInv

LEMMA ShutStep ==
  ASSUME CatalogueInv, NEW d \in Doors, IncreaseDownload(d) \/ DownloadFails(d) PROVE CatalogueInv'
PROOF
  <1>1. /\ door' = [door EXCEPT ![d] = Shut]
        /\ UNCHANGED <<offerVars, saleVars, pictureVars, crew>>
    BY DEF IncreaseDownload, DownloadFails, Leave
  <1> QED BY <1>1, PlainDoorStep DEF Shut

LEMMA EnterStep ==
  ASSUME CatalogueInv, NEW u \in Patrons, NEW d \in Doors, NEW w \in Works, GetPromptContent(u, d, w)
  PROVE  CatalogueInv'
PROOF
  <1>1. works[w].free \in BOOLEAN /\ 0 \in 0..MaxSales
    BY CatalogueAssumption DEF CatalogueAssumption, CatalogueInv, OfferType
  <1>2. [step |-> "find", by |-> u, of |-> w, free |-> works[w].free, sale |-> 0,
         raced |-> FALSE] \in Downloads
    BY <1>1 DEF Downloads
  <1> QED BY <1>2, PlainDoorStep DEF GetPromptContent

\* Two purchases of one prompt are two entries of the list.
LEMMA SeveralPurchases ==
  ASSUME CatalogueInv, NEW u \in Patrons, NEW w \in Works, NEW s \in RowsOf(u, w), NEW t \in RowsOf(u, w),
         s # t
  PROVE  Cardinality({e \in DownloadedPrompts(u) : e.prompt_id = w}) > 1
PROOF
  <1> DEFINE Entry(r) == [purchase_id |-> r.id, prompt_id |-> r.of, is_refunded |-> RefundSettled(r)]
             E == {e \in DownloadedPrompts(u) : e.prompt_id = w}
  <1>1. IsFiniteSet(DownloadedPrompts(u))
    <2>1. IsFiniteSet({r \in sales : r.by = u})
      BY FS_Subset DEF CatalogueInv, SaleInv
    <2>2. PICK S : S = {r \in sales : r.by = u}
      OBVIOUS
    <2>3. PICK f : f = [r \in S |-> Entry(r)]
      OBVIOUS
    <2>4. f \in Surjection(S, DownloadedPrompts(u))
      BY <2>2, <2>3 DEF DownloadedPrompts, Surjection
    <2> QED BY <2>1, <2>2, <2>4, FS_Surjection
  <1>2. IsFiniteSet(E)
    BY <1>1, FS_Subset
  <1>3. Entry(s) \in E /\ Entry(t) \in E
    BY DEF RowsOf, SalesOf, DownloadedPrompts
  <1>4. Entry(s) # Entry(t)
    BY DEF RowsOf, SalesOf, CatalogueInv, SaleInv
  <1> HIDE DEF E, Entry
  <1>5. PICK a, b : a \in E /\ b \in E /\ a # b
    BY <1>3, <1>4
  <1>6. {a, b} \subseteq E /\ Cardinality({a, b}) = 2
    <2>1. Cardinality({a}) = 1 /\ IsFiniteSet({a})
      BY FS_Singleton
    <2>2. Cardinality({a} \cup {b}) = Cardinality({a}) + 1
      BY <1>5, <2>1, FS_AddElement
    <2>3. {a} \cup {b} = {a, b}
      OBVIOUS
    <2> QED BY <1>5, <2>1, <2>2, <2>3
  <1>7. Cardinality({a, b}) <= Cardinality(E) /\ Cardinality(E) \in Nat
    BY <1>2, <1>6, FS_Subset, FS_CardinalityType
  <1> QED BY <1>6, <1>7 DEF E

\* Who is refused by a purchase that does not open the prompt, while he has one
\* that was paid for, has two of them, or an approved refund.
LEMMA RefusedPaid ==
  ASSUME CatalogueInv, NEW u \in Patrons, NEW w \in Works, IsPaid(u, w),
         RowsOf(u, w) = {} \/ \E s \in RowsOf(u, w) : ~ Opens(s)
  PROVE  \/ Cardinality({e \in DownloadedPrompts(u) : e.prompt_id = w}) > 1
         \/ \E s \in RowsOf(u, w) : s.state = "approved"
PROOF
  <1>1. PICK r \in RowsOf(u, w) : r.state \in {"paid", "approved"}
    BY DEF IsPaid, PaidRows
  <1>2. PICK s \in RowsOf(u, w) : ~ Opens(s)
    BY <1>1
  <1>3. CASE s = r
    BY <1>1, <1>2, <1>3 DEF Opens, RefundSettled
  <1>4. CASE s # r
    BY <1>4, SeveralPurchases
  <1> QED BY <1>3, <1>4

\* A download on its way to another step than the record.
LEMMA WalkStep ==
  ASSUME CatalogueInv, NEW d \in Doors, door[d].step # "none", NEW s \in {"stamp", "count"},
         NEW n \in 0..MaxSales
  PROVE  /\ [door[d] EXCEPT !.step = s, !.sale = n] \in Downloads
         /\ [door[d] EXCEPT !.step = s] \in Downloads
         /\ [door[d] EXCEPT !.step = s, !.sale = n].step = s
         /\ [door[d] EXCEPT !.step = s].step = s
PROOF
  BY DoorKinds DEF Downloads

LEMMA FindPurchaseStep == ASSUME CatalogueInv, NEW d \in Doors, FindPurchase(d) PROVE CatalogueInv'
PROOF
  <1>1. /\ door[d].step = "find" /\ door[d].step # "none"
        /\ UNCHANGED <<offerVars, sheets, sales, sold, charged, pictureVars, crew>>
    BY DEF FindPurchase
  <1>2. PICK u \in Patrons, w \in Works : u = door[d].by /\ w = door[d].of
    BY <1>1, DoorKinds
  <1>3. CASE Refuse(d) /\ (RowsOf(u, w) = {} \/ \E s \in RowsOf(u, w) : ~ Opens(s))
    <2>1. PICK paid, several, approved :
            /\ paid = IsPaid(u, w)
            /\ several = (Cardinality({e \in DownloadedPrompts(u) : e.prompt_id = w}) > 1)
            /\ approved = \E s \in RowsOf(u, w) : s.state = "approved"
      OBVIOUS
    <2> paid \in BOOLEAN /\ several \in BOOLEAN /\ approved \in BOOLEAN
      BY <2>1 DEF IsPaid
    <2>2. /\ away' = away \cup {[by |-> u, of |-> w, paid |-> paid, several |-> several,
                                 approved |-> approved]}
          /\ door' = [door EXCEPT ![d] = Shut]
      BY <1>2, <1>3, <2>1 DEF Refuse, Leave
    <2>3. SaleType'
      BY <1>1, <2>2 DEF CatalogueInv, SaleType
    <2>4. paid => several \/ approved
      BY <1>3, <2>1, RefusedPaid
    <2>5. PaidOpens'
      BY <2>2, <2>4 DEF CatalogueInv, PaidOpens
    <2>6. SaleInv'
      BY <1>1 DEF CatalogueInv, SaleInv, SalesSurvive, FreeOnce
    <2>7. Shut.step # "record"
      BY DEF Shut
    <2> QED BY <1>1, <2>2, <2>3, <2>5, <2>6, <2>7, DoorStep DEF CatalogueInv, DoorInv
  <1>4. ASSUME NEW s \in RowsOf(u, w), UNCHANGED away,
               door' = [door EXCEPT ![d].step = IF s.opened THEN "count" ELSE "stamp",
                                    ![d].sale = s.id]
        PROVE  CatalogueInv'
    <2>1. PICK n \in 0..MaxSales : n = s.id
      BY DEF RowsOf, SalesOf, CatalogueInv, SaleType, SaleRows
    <2>2. PICK x \in {"stamp", "count"} : x = IF s.opened THEN "count" ELSE "stamp"
      OBVIOUS
    <2>3. door' = [door EXCEPT ![d] = [door[d] EXCEPT !.step = x, !.sale = n]]
      BY <1>4, <2>1, <2>2 DEF CatalogueInv, DoorType
    <2>4. /\ [door[d] EXCEPT !.step = x, !.sale = n] \in Downloads
          /\ [door[d] EXCEPT !.step = x, !.sale = n].step = x
      BY <1>1, DoorKinds DEF Downloads
    <2>5. UNCHANGED saleVars
      BY <1>1, <1>4 DEF saleVars
    <2> QED BY <1>1, <2>3, <2>4, <2>5, PlainDoorStep
  <1> QED BY <1>1, <1>2, <1>3, <1>4 DEF FindPurchase

LEMMA StampStep == ASSUME CatalogueInv, NEW d \in Doors, StampDownload(d) PROVE CatalogueInv'
PROOF
  <1>1. /\ door[d].step = "stamp" /\ door[d].step # "none"
        /\ UNCHANGED <<offerVars, sheets, sold, charged, away, pictureVars, crew>>
        /\ door' = [door EXCEPT ![d].step = "count"]
    BY DEF StampDownload, Walk
  <1>2. PICK s \in sales : sales' = (sales \ {s}) \cup {[s EXCEPT !.opened = TRUE]}
    BY DEF StampDownload
  <1>3. PICK t \in SaleRows :
          /\ t = [s EXCEPT !.opened = TRUE] /\ t.id = s.id /\ t.by = s.by /\ t.of = s.of
          /\ t.raced = s.raced /\ t.state = s.state
    <2>1. s \in SaleRows
      BY DEF CatalogueInv, SaleType
    <2>2. [s EXCEPT !.opened = TRUE] \in SaleRows
      BY <2>1 DEF SaleRows, SaleState
    <2>3. s = [id |-> s.id, by |-> s.by, of |-> s.of, state |-> s.state, opened |-> s.opened,
               raced |-> s.raced]
      BY <2>1 DEF SaleRows
    <2> QED BY <2>2, <2>3
  <1>4. /\ door' = [door EXCEPT ![d] = [door[d] EXCEPT !.step = "count"]]
        /\ [door[d] EXCEPT !.step = "count"] \in Downloads
        /\ [door[d] EXCEPT !.step = "count"].step = "count"
    <2>1. 0 \in 0..MaxSales
      BY CatalogueAssumption DEF CatalogueAssumption
    <2> QED BY <1>1, <2>1, WalkStep DEF CatalogueInv, DoorType
  <1>5. DoorType' /\ \A e \in Doors : door'[e].step = "record" => door'[e] = door[e]
    BY <1>4 DEF CatalogueInv, DoorType
  <1>6. SaleInv' /\ DoorInv' /\ sales' \subseteq SaleRows
    BY <1>1, <1>2, <1>3, <1>5, RowChanges
  <1>7. SaleType' /\ PaidOpens'
    BY <1>1, <1>6 DEF CatalogueInv, SaleType, PaidOpens
  <1> QED BY <1>1, <1>5, <1>6, <1>7, SaleStep

LEMMA FindFreeStep == ASSUME CatalogueInv, NEW d \in Doors, FindFreePurchase(d) PROVE CatalogueInv'
PROOF
  <1>1. /\ door[d].step = "find" /\ door[d].step # "none"
        /\ UNCHANGED <<offerVars, saleVars, pictureVars, crew>>
    BY DEF FindFreePurchase
  <1>2. PICK u \in Patrons, w \in Works : u = door[d].by /\ w = door[d].of
    BY <1>1, DoorKinds
  <1>3. 0 \in 0..MaxSales
    BY CatalogueAssumption DEF CatalogueAssumption
  <1>4. CASE ExistingPurchase(u, w) # {}
    <2>1. door' = [door EXCEPT ![d] = [door[d] EXCEPT !.step = "count"]]
      BY <1>2, <1>4 DEF FindFreePurchase, Walk, CatalogueInv, DoorType
    <2> QED BY <1>1, <1>3, <2>1, WalkStep, PlainDoorStep
  <1>5. CASE ExistingPurchase(u, w) = {}
    <2>1. door' = [door EXCEPT ![d] = [door[d] EXCEPT !.step = "record"]]
      BY <1>2, <1>5 DEF FindFreePurchase, Walk, CatalogueInv, DoorType
    <2>2. PICK v \in Downloads : v = [door[d] EXCEPT !.step = "record"] /\ v.by = u /\ v.of = w
      <3>1. door[d] \in Downloads
        BY <1>1, DoorKinds
      <3>2. [door[d] EXCEPT !.step = "record"] \in Downloads
        BY <3>1 DEF Downloads
      <3>3. [door[d] EXCEPT !.step = "record"].by = u /\ [door[d] EXCEPT !.step = "record"].of = w
        BY <1>2, <3>1 DEF Downloads
      <3> QED BY <3>2, <3>3
    <2>3. DoorType' /\ door'[d] = v /\ \A e \in Doors \ {d} : door'[e] = door[e]
      BY <2>1, <2>2 DEF CatalogueInv, DoorType
    <2>4. \A s \in sales : ~ (s.by = u /\ s.of = w)
      BY <1>5 DEF ExistingPurchase, RowsOf, SalesOf
    <2>5. sales' = sales
      BY <1>1 DEF saleVars
    <2>6. DoorInv'
      <3> SUFFICES ASSUME NEW e \in Doors, door'[e].step = "record", ~ door'[e].raced,
                          NEW s \in sales, s.by = door'[e].by, s.of = door'[e].of
                   PROVE  s.state # "free"
        BY <2>5 DEF DoorInv
      <3>1. CASE e = d
        BY <2>2, <2>3, <2>4, <3>1
      <3>2. CASE e # d
        BY <2>3, <3>2 DEF CatalogueInv, DoorInv
      <3> QED BY <3>1, <3>2
    <2>7. SaleType' /\ SaleInv' /\ PaidOpens'
      BY <1>1 DEF CatalogueInv, saleVars, SaleType, SaleInv, SalesSurvive, FreeOnce, PaidOpens
    <2> QED BY <1>1, <2>3, <2>6, <2>7, SaleStep
  <1> QED BY <1>4, <1>5

LEMMA RecordStep == ASSUME CatalogueInv, NEW d \in Doors, RecordFreePurchase(d) PROVE CatalogueInv'
PROOF
  <1>1. /\ door[d].step = "record" /\ door[d].step # "none"
        /\ UNCHANGED <<offerVars, sheets, charged, away, pictureVars, crew>>
    BY DEF RecordFreePurchase
  <1>2. PICK u \in Patrons, w \in Works, raced \in BOOLEAN :
          u = door[d].by /\ w = door[d].of /\ raced = door[d].raced
    BY <1>1, DoorKinds DEF Downloads
  <1>3. AddSale(u, w, "free", raced)
    BY <1>2 DEF RecordFreePurchase
  <1>4. \A e \in Doors : door'[e] =
          IF e = d THEN [door[d] EXCEPT !.step = "count"]
          ELSE IF door[e].step = "record" /\ door[e].by = u /\ door[e].of = w
                 THEN [door[e] EXCEPT !.raced = TRUE] ELSE door[e]
    BY <1>2 DEF RecordFreePurchase
  <1>5. ASSUME NEW e \in Doors
        PROVE  /\ door'[e] \in {Shut} \cup Downloads
               /\ door'[e].step = "record" /\ ~ door'[e].raced =>
                    door'[e] = door[e] /\ ~ (door[e].by = u /\ door[e].of = w)
    <2>1. door[e] \in {Shut} \cup Downloads
      BY DEF CatalogueInv, DoorType
    <2>2. 0 \in 0..MaxSales
      BY CatalogueAssumption DEF CatalogueAssumption
    <2>3. CASE e = d
      BY <1>1, <1>4, <2>2, <2>3, WalkStep
    <2>4. CASE e # d /\ door[e].step = "record" /\ door[e].by = u /\ door[e].of = w
      <3>1. door[e] \in Downloads
        BY <2>4, DoorKinds
      <3>2. [door[e] EXCEPT !.raced = TRUE] \in Downloads /\ [door[e] EXCEPT !.raced = TRUE].raced
        BY <3>1 DEF Downloads
      <3> QED BY <1>4, <2>4, <3>2
    <2>5. CASE e # d /\ ~ (door[e].step = "record" /\ door[e].by = u /\ door[e].of = w)
      BY <1>4, <2>1, <2>5
    <2> QED BY <2>3, <2>4, <2>5
  <1>6. DoorType'
    <2>1. door' = [e \in Doors |-> door'[e]]
      BY DEF RecordFreePurchase
    <2> QED BY <1>5, <2>1 DEF DoorType
  <1>7. raced \/ \A s \in sales : s.by = u /\ s.of = w => s.state # "free"
    BY <1>1, <1>2 DEF CatalogueInv, DoorInv
  <1>8. /\ SaleInv' /\ DoorInv' /\ sales' \subseteq SaleRows
        /\ sold' \in 0..MaxSales /\ charged' \subseteq 1..MaxSales
    BY <1>1, <1>3, <1>5, <1>7, RowComes DEF SaleState
  <1>9. SaleType' /\ PaidOpens'
    BY <1>1, <1>8 DEF CatalogueInv, SaleType, PaidOpens
  <1> QED BY <1>1, <1>6, <1>8, <1>9, SaleStep
-----------------------------------------------------------------------------
(* Images.                                                                  *)

\* A step that leaves offers, sales and downloads alone.
LEMMA PictureStep ==
  ASSUME CatalogueInv, PictureType', CrewType', PictureInv', UNCHANGED <<offerVars, saleVars, door>>
  PROVE  CatalogueInv'
PROOF
  BY DEF CatalogueInv, offerVars, saleVars, OfferType, OffersAreChecked, Exists, SaleType, DoorType,
     SaleInv, SalesSurvive, FreeOnce, PaidOpens, DoorInv

\* A handler takes its next step, the others none.
LEMMA CrewStep ==
  ASSUME CatalogueInv, NEW c \in Crew, NEW v \in {Shut} \cup Deletions \cup PictureDeletions,
         crew' = [crew EXCEPT ![c] = v]
  PROVE  CrewType' /\ crew'[c] = v /\ \A b \in Crew \ {c} : crew'[b] = crew[b]
PROOF
  BY DEF CatalogueInv, CrewType

LEMMA CrewKinds ==
  ASSUME CatalogueInv, NEW c \in Crew, crew[c].step # "none"
  PROVE  /\ crew[c] \in Deletions \cup PictureDeletions /\ crew[c].of \in Works
         /\ crew[c].step = "picture" <=> crew[c] \in PictureDeletions
PROOF
  <1>1. crew[c] \in {Shut} \cup Deletions \cup PictureDeletions
    BY DEF CatalogueInv, CrewType
  <1>2. crew[c] \notin {Shut}
    BY DEF Shut
  <1> QED BY <1>1, <1>2 DEF Deletions, PictureDeletions

LEMMA UploadStep == ASSUME CatalogueInv, NEW url \in Urls, UploadImage(url) PROVE CatalogueInv'
PROOF
  <1>1. /\ objects' = objects \cup {url}
        /\ UNCHANGED <<offerVars, saleVars, pictures, pictured, damaged, door, crew>>
    BY DEF UploadImage
  <1>2. PictureType' /\ CrewType'
    BY <1>1 DEF CatalogueInv, PictureType, CrewType
  <1>3. PictureInv'
    BY <1>1 DEF CatalogueInv, PictureInv, PicturesShow
  <1> QED BY <1>1, <1>2, <1>3, PictureStep

LEMMA PictureComes ==
  ASSUME CatalogueInv, NEW u \in Patrons, NEW w \in Works, NEW url \in Urls, NEW place \in Places,
         CreatePromptImage(u, w, url, place)
  PROVE  CatalogueInv'
PROOF
  <1>1. /\ pictured < MaxPictures /\ pictured' = pictured + 1
        /\ pictures' = pictures \cup {[id |-> pictured + 1, of |-> w, url |-> url, place |-> place]}
        /\ damaged \subseteq damaged' /\ damaged' \subseteq damaged \cup {url}
        /\ url \notin objects \/ (\E p \in pictures : p.url = url) => url \in damaged'
        /\ UNCHANGED <<offerVars, saleVars, objects, door, crew>>
    BY DEF CreatePromptImage, CreatePromptImageRepo
  <1>2. pictured + 1 \in 1..MaxPictures /\ pictured \in Nat
    BY <1>1, CatalogueAssumption DEF CatalogueAssumption, CatalogueInv, PictureType
  <1>3. PICK t \in PictureRows :
          /\ t.id = pictured + 1 /\ t.of = w /\ t.url = url /\ pictures' = pictures \cup {t}
    BY <1>1, <1>2 DEF PictureRows
  <1>4. PictureType' /\ CrewType'
    BY <1>1, <1>2, <1>3 DEF CatalogueInv, PictureType, CrewType
  <1>5. \A p \in pictures : p.id \in Nat /\ p.id <= pictured /\ p.id # t.id
    BY <1>2, <1>3 DEF CatalogueInv, PictureType, PictureInv, PictureRows
  <1>6. \A p \in pictures' : p.id <= pictured'
    BY <1>1, <1>2, <1>3, <1>5
  <1>7. \A p, r \in pictures' : p.id = r.id => p = r
    BY <1>3, <1>5 DEF CatalogueInv, PictureInv
  <1>8. \A p, r \in pictures' : p.url = r.url /\ p.id # r.id => p.url \in damaged'
    BY <1>1, <1>3 DEF CatalogueInv, PictureInv
  <1>9. PicturesShow'
    BY <1>1, <1>3 DEF CatalogueInv, PictureInv, PicturesShow
  <1> QED BY <1>1, <1>4, <1>6, <1>7, <1>8, <1>9, PictureStep DEF PictureInv

\* The address of a picture that changes its place while a deletion runs is damaged.
LEMMA PictureMoves ==
  ASSUME CatalogueInv, NEW u \in Patrons, NEW w \in Works, NEW url \in Urls, NEW place \in Places,
         UpdatePromptImage(u, w, url, place)
  PROVE  CatalogueInv'
PROOF
  <1>1. /\ pictures' = (pictures \ PicturesOf(w))
             \cup {IF p.url = url THEN [p EXCEPT !.place = place] ELSE p : p \in PicturesOf(w)}
        /\ damaged \subseteq damaged' /\ damaged' \subseteq damaged \cup {url}
        /\ (\E c \in Crew : crew[c].step = "picture" /\ crew[c].of = w) => url \in damaged'
        /\ UNCHANGED <<offerVars, saleVars, pictured, objects, door, crew>>
    BY DEF UpdatePromptImage, UpdatePromptImageOrder
  <1>2. ASSUME NEW p \in pictures
        PROVE  /\ [p EXCEPT !.place = place] \in PictureRows
               /\ [p EXCEPT !.place = place].id = p.id
               /\ [p EXCEPT !.place = place].of = p.of
               /\ [p EXCEPT !.place = place].url = p.url
    BY DEF CatalogueInv, PictureType, PictureRows
  <1>3. \A r \in pictures' : \E p \in pictures :
          /\ r.id = p.id /\ r.of = p.of /\ r.url = p.url /\ r \in PictureRows
          /\ r = p \/ (p.of = w /\ p.url = url)
          /\ r = IF p.of = w /\ p.url = url THEN [p EXCEPT !.place = place] ELSE p
    <2> SUFFICES ASSUME NEW r \in pictures'
                 PROVE  \E p \in pictures :
                          /\ r.id = p.id /\ r.of = p.of /\ r.url = p.url /\ r \in PictureRows
                          /\ r = p \/ (p.of = w /\ p.url = url)
                          /\ r = IF p.of = w /\ p.url = url THEN [p EXCEPT !.place = place] ELSE p
      OBVIOUS
    <2>1. PICK p \in pictures : r = IF p.of = w /\ p.url = url THEN [p EXCEPT !.place = place] ELSE p
      BY <1>1 DEF PicturesOf
    <2>2. p \in PictureRows
      BY DEF CatalogueInv, PictureType
    <2> QED BY <1>2, <2>1, <2>2
  <1>4. PictureType' /\ CrewType'
    BY <1>1, <1>3 DEF CatalogueInv, PictureType, CrewType
  <1>5. \A p \in pictures' : p.id <= pictured'
    BY <1>1, <1>3 DEF CatalogueInv, PictureInv
  <1>6. \A p, r \in pictures' : p.id = r.id => p = r
    BY <1>3 DEF CatalogueInv, PictureInv
  <1>7. \A p, r \in pictures' : p.url = r.url /\ p.id # r.id => p.url \in damaged'
    BY <1>1, <1>3 DEF CatalogueInv, PictureInv
  <1>8. PicturesShow'
    <2> SUFFICES ASSUME NEW r \in pictures',
                        ~ (r.url \in objects' \/ damaged' \cap {r.of, r.url} # {})
                 PROVE  \E c \in Crew : crew'[c].step = "picture" /\ crew'[c].of = r.of
                                          /\ crew'[c].place = r.place
      BY DEF PicturesShow
    <2>1. PICK p \in pictures : /\ r.of = p.of /\ r.url = p.url
                                /\ r = p \/ (p.of = w /\ p.url = url)
      BY <1>3
    <2>2. PICK c \in Crew : crew[c].step = "picture" /\ crew[c].of = p.of /\ crew[c].place = p.place
      BY <1>1, <2>1 DEF CatalogueInv, PictureInv, PicturesShow
    <2>3. r = p
      BY <1>1, <2>1, <2>2
    <2> QED BY <1>1, <2>2, <2>3
  <1> QED BY <1>1, <1>4, <1>5, <1>6, <1>7, <1>8, PictureStep DEF PictureInv

\* The object of one image goes, of those that share its address it may be the
\* only one that is deleted.
LEMMA PictureDeleted ==
  ASSUME CatalogueInv, NEW u \in Patrons, NEW c \in Crew, NEW w \in Works, NEW place \in Places,
         DeletePromptImage(u, c, w, place)
  PROVE  CatalogueInv'
PROOF
  <1>1. /\ crew[c] = Shut
        /\ crew' = [crew EXCEPT ![c] = [step |-> "picture", of |-> w, place |-> place]]
        /\ UNCHANGED <<offerVars, saleVars, pictures, pictured, damaged, door>>
    BY DEF DeletePromptImage
  <1>2. PICK p \in pictures : p.of = w /\ p.place = place /\ objects' = objects \ {p.url}
    BY DEF DeletePromptImage, PicturesOf
  <1>3. PICK v \in PictureDeletions : v = [step |-> "picture", of |-> w, place |-> place]
    BY DEF PictureDeletions
  <1>4. CrewType' /\ crew'[c] = v /\ \A b \in Crew \ {c} : crew'[b] = crew[b]
    BY <1>1, <1>3, CrewStep
  <1>5. v.step = "picture" /\ v.of = w /\ v.place = place /\ crew[c].step # "picture"
    BY <1>1, <1>3 DEF Shut
  <1>6. PictureType'
    BY <1>1, <1>2 DEF CatalogueInv, PictureType
  <1>7. \A r \in pictures : r.url = p.url => r = p \/ r.url \in damaged
    BY DEF CatalogueInv, PictureInv
  <1>8. PicturesShow'
    BY <1>1, <1>2, <1>4, <1>5, <1>7 DEF CatalogueInv, PictureInv, PicturesShow
  <1>9. PictureInv'
    BY <1>1, <1>8 DEF CatalogueInv, PictureInv
  <1> QED BY <1>1, <1>4, <1>6, <1>9, PictureStep

LEMMA PictureGoes == ASSUME CatalogueInv, NEW c \in Crew, DeletePromptImageByOrder(c) PROVE CatalogueInv'
PROOF
  <1>1. /\ crew[c].step = "picture"
        /\ pictures' = {p \in pictures : p.of # crew[c].of \/ p.place # crew[c].place}
        /\ crew' = [crew EXCEPT ![c] = Shut]
        /\ UNCHANGED <<offerVars, saleVars, pictured, objects, damaged, door>>
    BY DEF DeletePromptImageByOrder, Dismiss
  <1>2. CrewType' /\ crew'[c] = Shut /\ \A b \in Crew \ {c} : crew'[b] = crew[b]
    BY <1>1, CrewStep
  <1>3. PictureType'
    BY <1>1 DEF CatalogueInv, PictureType
  <1>4. PicturesShow'
    BY <1>1, <1>2 DEF CatalogueInv, PictureInv, PicturesShow
  <1>5. PictureInv'
    BY <1>1, <1>4 DEF CatalogueInv, PictureInv
  <1> QED BY <1>1, <1>2, <1>3, <1>5, PictureStep
-----------------------------------------------------------------------------
(* Deletion of prompts.                                                     *)

LEMMA StartStep ==
  ASSUME CatalogueInv, NEW c \in Crew, NEW w \in Works, NEW admin \in BOOLEAN, StartDeletion(c, w, admin)
  PROVE  CatalogueInv'
PROOF
  <1>1. /\ crew[c].step # "picture"
        /\ crew' = [crew EXCEPT ![c] = [step |-> "objects", of |-> w, admin |-> admin]]
        /\ UNCHANGED <<offerVars, saleVars, pictureVars, door>>
    BY DEF StartDeletion, Shut
  <1>2. [step |-> "objects", of |-> w, admin |-> admin] \in Deletions
    BY DEF Deletions
  <1>3. CrewType' /\ \A b \in Crew \ {c} : crew'[b] = crew[b]
    BY <1>1, <1>2, CrewStep
  <1>4. PictureType' /\ PictureInv'
    BY <1>1, <1>3 DEF CatalogueInv, pictureVars, PictureType, PictureInv, PicturesShow
  <1> QED BY <1>1, <1>3, <1>4, PictureStep

LEMMA ObjectsStep == ASSUME CatalogueInv, NEW c \in Crew, DeleteS3Images(c) PROVE CatalogueInv'
PROOF
  <1>1. /\ crew[c].step = "objects" /\ crew[c].step # "none" /\ crew[c].step # "picture"
        /\ crew' = [crew EXCEPT ![c].step = "rows"]
        /\ UNCHANGED <<offerVars, saleVars, pictures, pictured, door>>
    BY DEF DeleteS3Images
  <1>2. PICK w \in Works : w = crew[c].of
    BY <1>1, CrewKinds
  <1>3. /\ objects' = objects \ {p.url : p \in PicturesOf(w)}
        /\ damaged' = IF PicturesOf(w) = {} THEN damaged ELSE damaged \cup {w}
    BY <1>2 DEF DeleteS3Images
  <1>4. PICK v \in Deletions : v = [crew[c] EXCEPT !.step = "rows"]
    <2>1. crew[c] \in Deletions
      BY <1>1, CrewKinds
    <2> QED BY <2>1 DEF Deletions
  <1>5. crew' = [crew EXCEPT ![c] = v]
    BY <1>1, <1>4 DEF CatalogueInv, CrewType
  <1>6. CrewType' /\ \A b \in Crew \ {c} : crew'[b] = crew[b]
    BY <1>5, CrewStep
  <1>7. PictureType'
    BY <1>1, <1>3 DEF CatalogueInv, PictureType
  <1>8. \A p \in pictures : p.of = w => p.of \in damaged'
    BY <1>3 DEF PicturesOf
  <1>9. \A p, r \in pictures : p.of # w /\ r.of = w /\ p.url = r.url => p.url \in damaged
    BY DEF CatalogueInv, PictureInv
  <1>10. \A p \in pictures : p.url \in objects => \/ p.url \in objects' \/ p.of = w
                                                   \/ p.url \in damaged
    BY <1>3, <1>9 DEF PicturesOf
  <1>11. damaged \subseteq damaged'
    BY <1>3
  <1>12. PicturesShow'
    <2> SUFFICES ASSUME NEW p \in pictures, p.url \notin objects', damaged' \cap {p.of, p.url} = {}
                 PROVE  \E b \in Crew : crew'[b].step = "picture" /\ crew'[b].of = p.of
                                          /\ crew'[b].place = p.place
      BY <1>1 DEF PicturesShow
    <2>1. p.url \notin objects /\ damaged \cap {p.of, p.url} = {}
      BY <1>8, <1>10, <1>11
    <2>2. PICK b \in Crew : /\ crew[b].step = "picture" /\ crew[b].of = p.of
                            /\ crew[b].place = p.place
      BY <2>1 DEF CatalogueInv, PictureInv, PicturesShow
    <2> QED BY <1>1, <1>6, <2>2
  <1>13. PictureInv'
    BY <1>1, <1>11, <1>12 DEF CatalogueInv, PictureInv
  <1> QED BY <1>1, <1>6, <1>7, <1>13, PictureStep

LEMMA FailStep == ASSUME CatalogueInv, NEW c \in Crew, DeletionFails(c) PROVE CatalogueInv'
PROOF
  <1>1. /\ crew' = [crew EXCEPT ![c] = Shut]
        /\ damaged' = IF crew[c].step # "picture" THEN damaged
                      ELSE damaged \cup {p.url : p \in {r \in PicturesOf(crew[c].of) :
                                                           r.place = crew[c].place}}
        /\ UNCHANGED <<offerVars, saleVars, pictures, pictured, objects, door>>
    BY DEF DeletionFails, Dismiss
  <1>2. CrewType' /\ \A b \in Crew \ {c} : crew'[b] = crew[b]
    BY <1>1, CrewStep
  <1>3. damaged \subseteq damaged' /\ damaged' \subseteq damaged \cup {p.url : p \in pictures}
    BY <1>1 DEF PicturesOf
  <1>4. PictureType'
    BY <1>1, <1>3 DEF CatalogueInv, PictureType, PictureRows
  <1>5. crew[c].step = "picture" => \A p \in pictures :
          p.of = crew[c].of /\ p.place = crew[c].place => p.url \in damaged'
    BY <1>1 DEF PicturesOf
  <1>6. PicturesShow'
    <2> SUFFICES ASSUME NEW p \in pictures, p.url \notin objects, damaged' \cap {p.of, p.url} = {}
                 PROVE  \E b \in Crew : crew'[b].step = "picture" /\ crew'[b].of = p.of
                                          /\ crew'[b].place = p.place
      BY <1>1 DEF PicturesShow
    <2>1. PICK b \in Crew : /\ crew[b].step = "picture" /\ crew[b].of = p.of
                            /\ crew[b].place = p.place
      BY <1>3 DEF CatalogueInv, PictureInv, PicturesShow
    <2>2. b # c
      BY <1>5, <2>1
    <2> QED BY <1>2, <2>1, <2>2
  <1>7. PictureInv'
    BY <1>1, <1>3, <1>6 DEF CatalogueInv, PictureInv
  <1> QED BY <1>1, <1>2, <1>4, <1>7, PictureStep

\* A prompt goes with its rows, by an owner when none of its sales was charged
\* (its settlement would be in the way), by an admin when not one stays charged.
LEMMA RemoveStep ==
  ASSUME CatalogueInv, NEW c \in Crew, NEW w \in Works, RemovePrompt(w), Dismiss(c),
         crew[c].step # "picture",
         charged' \subseteq charged, \A s \in SalesOf(w) : s.id \notin charged',
         UNCHANGED <<sheets, sold, away, pictured, objects, damaged, door>>
  PROVE  CatalogueInv'
PROOF
  <1>1. OfferType'
    BY CatalogueAssumption DEF CatalogueAssumption, RemovePrompt, NotMade, CatalogueInv, OfferType
  <1>2. works'[w] = NotMade /\ \A x \in Works \ {w} : works'[x] = works[x]
    BY DEF RemovePrompt, CatalogueInv, OfferType
  <1>3. OffersAreChecked'
    BY <1>2 DEF RemovePrompt, CatalogueInv, OffersAreChecked, Exists
  <1>4. SalesOf(w) \in SUBSET sales /\ sales' = sales \ SalesOf(w)
    BY DEF SalesOf, RemovePrompt
  <1>5. SaleInv' /\ DoorInv' /\ sales' \subseteq SaleRows
    BY <1>4, RowsGo
  <1>6. SaleType' /\ DoorType' /\ PaidOpens'
    BY <1>5 DEF CatalogueInv, SaleType, DoorType, PaidOpens
  <1>7. CrewType' /\ \A b \in Crew \ {c} : crew'[b] = crew[b]
    BY CrewStep DEF Dismiss
  <1>8. pictures' \subseteq pictures
    BY DEF RemovePrompt
  <1>9. PictureType'
    BY <1>8 DEF CatalogueInv, PictureType
  <1>10. PicturesShow'
    BY <1>7, <1>8 DEF CatalogueInv, PictureInv, PicturesShow
  <1>11. PictureInv'
    BY <1>8, <1>10 DEF CatalogueInv, PictureInv
  <1> QED BY <1>1, <1>3, <1>5, <1>6, <1>7, <1>9, <1>11 DEF CatalogueInv

LEMMA DeleteStep ==
  ASSUME CatalogueInv, NEW c \in Crew, DeletePromptRepo(c) \/ AdminDeletePromptRepo(c)
  PROVE  CatalogueInv'
PROOF
  <1>1. /\ crew[c].step = "rows" /\ crew[c].step # "none" /\ crew[c].step # "picture"
        /\ RemovePrompt(crew[c].of) /\ Dismiss(c)
        /\ UNCHANGED <<sheets, sold, away, pictured, objects, damaged, door>>
    BY DEF DeletePromptRepo, AdminDeletePromptRepo
  <1>2. PICK w \in Works : w = crew[c].of
    BY <1>1, CrewKinds
  <1>3. CASE DeletePromptRepo(c)
    <2>1. charged' = charged /\ Settlements(w) = {}
      BY <1>2, <1>3 DEF DeletePromptRepo, OwnerMayDelete
    <2>2. \A s \in SalesOf(w) : s.id \notin charged
      BY <2>1 DEF Settlements, SalesOf, CatalogueInv, SaleInv
    <2> QED BY <1>1, <1>2, <2>1, <2>2, RemoveStep
  <1>4. CASE AdminDeletePromptRepo(c)
    <2>1. charged' = charged \ {s.id : s \in SalesOf(w)}
      BY <1>2, <1>4 DEF AdminDeletePromptRepo
    <2> QED BY <1>1, <1>2, <2>1, RemoveStep
  <1> QED BY <1>3, <1>4
-----------------------------------------------------------------------------
\* Who is signed in, is a user.
LEMMA Senders ==
  ASSUME NEW U, U \subseteq Patrons, NEW q \in Requests(U), SignedIn(q)
  PROVE  q.user \in Patrons
PROOF
  BY DEF Requests, SignedIn

LEMMA CatalogueNextInv == CatalogueInv /\ [CatalogueNext]_catalogueVars => CatalogueInv'
PROOF
  <1> SUFFICES ASSUME CatalogueInv, [CatalogueNext]_catalogueVars PROVE CatalogueInv'
    OBVIOUS
  <1> USE DEF WellFormed, ByAdmin
  <1>1. CASE OfferNext
    BY <1>1, Senders, CreateStep, EditStep DEF OfferNext, CreatePromptRoute, UpdatePromptRoute
  <1>2. CASE DeleteNext
    BY <1>2, StartStep, ObjectsStep, DeleteStep, FailStep
       DEF DeleteNext, DeletePromptRoute, AdminDeletePromptRoute
  <1>3. CASE SaleNext
    BY <1>3, SheetStep, BookStep, RefundStep, CatalogueAssumption DEF SaleNext, CatalogueAssumption
  <1>4. CASE DownloadNext
    BY <1>4, Senders, EnterStep, FindPurchaseStep, StampStep, FindFreeStep, RecordStep, ShutStep,
       CatalogueAssumption DEF DownloadNext, DownloadRoute, CatalogueAssumption
  <1>5. CASE PictureNext
    BY <1>5, Senders, UploadStep, PictureComes, PictureMoves, PictureDeleted, PictureGoes
       DEF PictureNext, CreateImageRoute, UpdateImageRoute, DeleteImageRoute
  <1>6. CASE LikeNext
    BY <1>6, Senders, LikeStep DEF LikeNext, LikeRoute, UnlikeRoute
  <1>7. CASE UNCHANGED catalogueVars
    <2>1. OfferType' /\ OffersAreChecked' /\ UNCHANGED <<saleVars, pictureVars, door, crew>>
      BY <1>7 DEF catalogueVars, saleVars, pictureVars, CatalogueInv, OfferType, OffersAreChecked, Exists
    <2> QED BY <2>1, OfferStep
  <1> QED BY <1>1, <1>2, <1>3, <1>4, <1>5, <1>6, <1>7 DEF CatalogueNext

LEMMA CatalogueAlways == CatalogueSpec => []CatalogueInv
PROOF
  BY CatalogueInitInv, CatalogueNextInv, PTL DEF CatalogueSpec
-----------------------------------------------------------------------------
(* Desk: inquiries and their replies, reviews.                              *)

\* What a handler holds; the texts it may hold are those of replies 1 to n.
HandKinds(n) ==
  {Empty} \cup [act : {"reply"}, reply : Reply] \cup [act : {"letter"}, text : 1..n]
    \cup [act : {"edit"}, review : 1..MaxReviews, rating : Ratings]
    \cup [act : {"delete"}, review : 1..MaxReviews]

InquiryRows == [id : 1..MaxInquiries, by : Folk, to : Folk, status : {"waiting", "read"}]
ReviewRows  == [id : 1..MaxReviews, by : Folk, made : 0..LastDay, rating : Ratings]

InquiryType == inquiries \subseteq InquiryRows /\ asked \in 0..MaxInquiries
ReviewType  == reviews \subseteq ReviewRows /\ reviewed \in 0..MaxReviews /\ today \in 0..LastDay

\* The replies up to the n-th, what hangs on them, and who has asked.
ReplyType(n) ==
  /\ DOMAIN replies = 1..n /\ \A m \in 1..n : replies[m] \in Reply
  /\ letters \subseteq [to : Folk, text : 1..n] /\ unsent \subseteq 1..n
  /\ hand \in [Hands -> HandKinds(n)]

DeskInv ==
  /\ InquiryType /\ ReviewType
  /\ \E n \in 0..MaxReplies : ReplyType(n)
  /\ AnswersReachAskers

LEMMA DeskInvTypes == DeskInv => DeskTypeOK
PROOF
  <1> SUFFICES ASSUME DeskInv PROVE DeskTypeOK
    OBVIOUS
  <1>1. PICK n \in 0..MaxReplies : ReplyType(n)
    BY DEF DeskInv
  <1>2. n \in Nat /\ Cardinality(1..n) = n
    <2>1. n \in Nat /\ 1 \in Int /\ n \in Int
      BY <1>1, DeskAssumption DEF DeskAssumption
    <2>2. Cardinality(1..n) = IF 1 > n THEN 0 ELSE n - 1 + 1
      BY <2>1, FS_Interval
    <2> QED BY <2>1, <2>2
  <1>3. DOMAIN replies = 1..Cardinality(DOMAIN replies)
    BY <1>1, <1>2 DEF ReplyType
  <1> QED BY <1>1, <1>3 DEF DeskInv, DeskTypeOK, InquiryType, ReviewType, InquiryRows, ReviewRows,
     ReplyType, HandKinds

LEMMA DeskInitInv == DeskInit => DeskInv
PROOF
  <1> SUFFICES ASSUME DeskInit PROVE DeskInv
    OBVIOUS
  <1>1. 0 \in 0..MaxReplies /\ 0 \in 0..MaxReviews /\ 0 \in 0..LastDay /\ 0 \in 0..MaxInquiries
    BY DeskAssumption DEF DeskAssumption
  <1>2. DOMAIN replies = 1..0 /\ 1..0 = {}
    BY DEF DeskInit
  <1>3. ReplyType(0)
    BY <1>2 DEF DeskInit, ReplyType, HandKinds
  <1>4. AnswersReachAskers
    BY <1>2 DEF DeskInit, AnswersReachAskers
  <1> QED BY <1>1, <1>3, <1>4 DEF DeskInv, DeskInit, InquiryType, ReviewType

\* A step that neither adds a reply nor holds or lays down one that is to be sent.
LEMMA QuietStep ==
  ASSUME DeskInv, InquiryType', ReviewType', UNCHANGED <<replies, letters, unsent>>,
         NEW h \in Hands, NEW w, w = hand[h] \/ hand[h].act # "letter",
         \A n \in 0..MaxReplies : hand[h] \in HandKinds(n) => w \in HandKinds(n),
         hand' = [hand EXCEPT ![h] = w]
  PROVE  DeskInv'
PROOF
  <1>1. PICK n \in 0..MaxReplies : ReplyType(n)
    BY DEF DeskInv
  <1>2. hand[h] \in HandKinds(n) /\ w \in HandKinds(n)
    BY <1>1 DEF ReplyType
  <1>3. ReplyType(n)'
    BY <1>1, <1>2 DEF ReplyType, HandKinds
  <1>4. \A g \in Hands : hand[g].act = "letter" => hand'[g] = hand[g]
    BY <1>1 DEF ReplyType
  <1>5. AnswersReachAskers'
    BY <1>4 DEF DeskInv, AnswersReachAskers
  <1> QED BY <1>1, <1>3, <1>5 DEF DeskInv

LEMMA RowStep ==
  ASSUME DeskInv, InquiryType', ReviewType', UNCHANGED <<replies, letters, unsent, hand>>
  PROVE  DeskInv'
PROOF
  <1>1. PICK n \in 0..MaxReplies : ReplyType(n)
    BY DEF DeskInv
  <1>2. ReplyType(n)'
    BY <1>1 DEF ReplyType, HandKinds
  <1>3. AnswersReachAskers'
    BY DEF DeskInv, AnswersReachAskers
  <1> QED BY <1>1, <1>2, <1>3 DEF DeskInv

LEMMA InquiryStep ==
  ASSUME DeskInv, NEW u \in Folk,
         \/ \E to \in Folk : CreateInquiry(u, to)
         \/ \E i \in inquiries : MarkInquiryAsRead(u, i) \/ DeleteInquiry(u, i)
  PROVE  DeskInv'
PROOF
  <1>1. UNCHANGED <<replies, letters, unsent, reviewVars, hand>>
    BY DEF CreateInquiry, MarkInquiryAsRead, DeleteInquiry
  <1>2. ReviewType'
    BY <1>1 DEF DeskInv, ReviewType, reviewVars
  <1>3. InquiryType'
    <2>1. CASE \E to \in Folk : CreateInquiry(u, to)
      <3>1. PICK to \in Folk : CreateInquiry(u, to)
        BY <2>1
      <3>2. asked \in Nat /\ asked + 1 \in 1..MaxInquiries /\ asked + 1 \in 0..MaxInquiries
        BY <3>1, DeskAssumption DEF CreateInquiry, DeskAssumption, DeskInv, InquiryType
      <3>3. [id |-> asked + 1, by |-> u, to |-> to, status |-> "waiting"] \in InquiryRows
        BY <3>2 DEF InquiryRows
      <3> QED BY <3>1, <3>2, <3>3 DEF CreateInquiry, DeskInv, InquiryType
    <2>2. CASE \E i \in inquiries : MarkInquiryAsRead(u, i)
      <3>1. PICK i \in inquiries : MarkInquiryAsRead(u, i)
        BY <2>2
      <3>2. [i EXCEPT !.status = "read"] \in InquiryRows
        BY <3>1 DEF DeskInv, InquiryType, InquiryRows
      <3> QED BY <3>1, <3>2 DEF MarkInquiryAsRead, Replace, DeskInv, InquiryType
    <2>3. CASE \E i \in inquiries : DeleteInquiry(u, i)
      BY <2>3 DEF DeleteInquiry, DeskInv, InquiryType
    <2> QED BY <2>1, <2>2, <2>3
  <1> QED BY <1>1, <1>2, <1>3, RowStep

LEMMA AnswerStep ==
  ASSUME DeskInv, NEW u \in Folk, NEW h \in Hands, NEW i \in inquiries, CreateInquiryReply(u, h, i)
  PROVE  DeskInv'
PROOF
  <1> DEFINE w == [act |-> "reply", reply |-> [of |-> i.id, by |-> u, asker |-> i.by]]
  <1>1. [of |-> i.id, by |-> u, asker |-> i.by] \in Reply
    BY DEF DeskInv, InquiryType, InquiryRows, Reply
  <1>2. \A n \in 0..MaxReplies : w \in HandKinds(n)
    BY <1>1 DEF HandKinds
  <1>3. hand[h] = Empty /\ hand' = [hand EXCEPT ![h] = w] /\ UNCHANGED <<inquiryVars, reviewVars>>
    BY DEF CreateInquiryReply, TakeUp
  <1>4. InquiryType' /\ ReviewType' /\ UNCHANGED <<replies, letters, unsent>>
    BY <1>3 DEF DeskInv, InquiryType, ReviewType, inquiryVars, reviewVars
  <1>5. hand[h].act # "letter"
    BY <1>3 DEF Empty
  <1> HIDE DEF w
  <1> QED BY <1>2, <1>3, <1>4, <1>5, QuietStep

LEMMA InsertReplyStep == ASSUME DeskInv, NEW h \in Hands, InsertReply(h) PROVE DeskInv'
PROOF
  <1>1. PICK n \in 0..MaxReplies : ReplyType(n)
    BY DEF DeskInv
  <1>2. n \in Nat /\ Cardinality(1..n) = n
    <2>1. n \in Nat /\ 1 \in Int /\ n \in Int
      BY <1>1, DeskAssumption DEF DeskAssumption
    <2>2. Cardinality(1..n) = IF 1 > n THEN 0 ELSE n - 1 + 1
      BY <2>1, FS_Interval
    <2> QED BY <2>1, <2>2
  <1>3. NextReply = n + 1
    BY <1>1, <1>2 DEF NextReply, ReplyType
  <1>4. PICK k \in 0..MaxReplies : k = n + 1
    BY <1>2, <1>3, DeskAssumption DEF InsertReply, DeskAssumption
  <1>5. /\ replies' = [m \in 1..k |-> IF m = k THEN hand[h].reply ELSE replies[m]]
        /\ hand' = [hand EXCEPT ![h] = [act |-> "letter", text |-> k]]
        /\ UNCHANGED <<inquiries, asked, letters, unsent, reviewVars>> /\ hand[h].act = "reply"
    BY <1>3, <1>4 DEF InsertReply
  <1>6. hand[h].reply \in Reply
    BY <1>1, <1>5 DEF ReplyType, HandKinds, Empty
  <1>7. 1..n \subseteq 1..k /\ k \in 1..k /\ k \notin 1..n /\ \A m \in 1..k : m # k => m \in 1..n
    BY <1>2, <1>4
  <1>8. ReplyType(k)'
    <2>1. DOMAIN replies' = 1..k /\ \A m \in 1..k : replies'[m] \in Reply
      BY <1>1, <1>5, <1>6, <1>7 DEF ReplyType
    <2>2. letters' \subseteq [to : Folk, text : 1..k] /\ unsent' \subseteq 1..k
      BY <1>1, <1>5, <1>7 DEF ReplyType
    <2>3. HandKinds(n) \subseteq HandKinds(k) /\ [act |-> "letter", text |-> k] \in HandKinds(k)
      BY <1>7 DEF HandKinds
    <2>4. hand' \in [Hands -> HandKinds(k)]
      BY <1>1, <1>5, <2>3 DEF ReplyType
    <2> QED BY <2>1, <2>2, <2>4 DEF ReplyType, HandKinds
  <1>9. \A g \in Hands : hand[g].act = "letter" => hand'[g] = hand[g]
    BY <1>1, <1>5 DEF ReplyType
  <1>10. \A m \in 1..n : replies'[m] = replies[m]
    BY <1>5, <1>7
  <1>11. AnswersReachAskers'
    <2>1. ASSUME NEW m \in DOMAIN replies'
          PROVE  \/ [to |-> replies'[m].asker, text |-> m] \in letters'
                 \/ m \in unsent'
                 \/ \E g \in Hands : hand'[g].act = "letter" /\ hand'[g].text = m
      <3>1. CASE m = k
        BY <1>1, <1>5, <3>1 DEF ReplyType
      <3>2. CASE m # k
        <4>1. m \in 1..n /\ m \in DOMAIN replies
          BY <1>1, <1>5, <1>7, <3>2 DEF ReplyType
        <4>2. \/ [to |-> replies[m].asker, text |-> m] \in letters
              \/ m \in unsent
              \/ \E g \in Hands : hand[g].act = "letter" /\ hand[g].text = m
          BY <4>1 DEF DeskInv, AnswersReachAskers
        <4>3. replies'[m] = replies[m]
          BY <1>10, <4>1
        <4> QED BY <1>5, <1>9, <4>2, <4>3
      <3> QED BY <3>1, <3>2
    <2>2. \A l \in letters' : l.to = replies'[l.text].asker
      <3>1. \A l \in letters : l.text \in 1..n
        BY <1>1 DEF ReplyType
      <3> QED BY <1>5, <1>10, <3>1 DEF DeskInv, AnswersReachAskers
    <2> QED BY <2>1, <2>2 DEF AnswersReachAskers
  <1>12. InquiryType' /\ ReviewType'
    BY <1>5 DEF DeskInv, InquiryType, ReviewType, reviewVars
  <1> QED BY <1>4, <1>8, <1>11, <1>12 DEF DeskInv

LEMMA LetterStep ==
  ASSUME DeskInv, NEW h \in Hands, InsertLetter(h) \/ LetterFails(h) PROVE DeskInv'
PROOF
  <1>1. PICK n \in 0..MaxReplies : ReplyType(n)
    BY DEF DeskInv
  <1>2. hand[h].act = "letter" /\ hand' = [hand EXCEPT ![h] = Empty]
        /\ UNCHANGED <<inquiries, asked, replies, reviewVars>>
    BY DEF InsertLetter, LetterFails, PutDown
  <1>3. PICK m \in 1..n : m = hand[h].text
    BY <1>1, <1>2 DEF ReplyType, HandKinds, Empty
  <1>4. replies[m] \in Reply /\ replies[m].asker \in Folk
    BY <1>1 DEF ReplyType, Reply
  <1>5. \/ letters' = letters \cup {[to |-> replies[m].asker, text |-> m]} /\ unsent' = unsent
        \/ letters' = letters /\ unsent' = unsent \cup {m}
    BY <1>3 DEF InsertLetter, LetterFails, Addressee
  <1>6. ReplyType(n)'
    <2>1. Empty \in HandKinds(n)
      BY DEF HandKinds
    <2>2. hand' \in [Hands -> HandKinds(n)]
      BY <1>1, <1>2, <2>1 DEF ReplyType
    <2>3. [to |-> replies[m].asker, text |-> m] \in [to : Folk, text : 1..n]
      BY <1>4
    <2>4. letters \subseteq [to : Folk, text : 1..n] /\ unsent \subseteq 1..n
      BY <1>1 DEF ReplyType
    <2>5. letters' \subseteq [to : Folk, text : 1..n] /\ unsent' \subseteq 1..n
      BY <1>5, <2>3, <2>4
    <2> QED BY <1>1, <1>2, <2>2, <2>5 DEF ReplyType, HandKinds
  <1>7. \A g \in Hands : hand[g].act = "letter" => hand'[g] = hand[g] \/ hand[g].text = m
    BY <1>1, <1>2, <1>3 DEF ReplyType
  <1>8. AnswersReachAskers'
    <2>1. ASSUME NEW k \in DOMAIN replies'
          PROVE  \/ [to |-> replies'[k].asker, text |-> k] \in letters'
                 \/ k \in unsent'
                 \/ \E g \in Hands : hand'[g].act = "letter" /\ hand'[g].text = k
      BY <1>2, <1>5, <1>7 DEF DeskInv, AnswersReachAskers
    <2>2. \A l \in letters' : l.to = replies'[l.text].asker
      BY <1>2, <1>5 DEF DeskInv, AnswersReachAskers
    <2> QED BY <2>1, <2>2 DEF AnswersReachAskers
  <1>9. InquiryType' /\ ReviewType'
    BY <1>2 DEF DeskInv, InquiryType, ReviewType, reviewVars
  <1> QED BY <1>1, <1>6, <1>8, <1>9 DEF DeskInv

LEMMA PutDownStep ==
  ASSUME DeskInv, NEW h \in Hands, UpdateReviewById(h) \/ DeleteReviewById(h) \/ HandFails(h)
  PROVE  DeskInv'
PROOF
  <1>1. hand' = [hand EXCEPT ![h] = Empty] /\ UNCHANGED <<inquiryVars, reviewed, today>>
        /\ hand[h].act # "letter"
    BY DEF UpdateReviewById, DeleteReviewById, HandFails, PutDown, reviewVars
  <1>2. PICK n \in 0..MaxReplies : ReplyType(n)
    BY DEF DeskInv
  <1>3. reviews' \subseteq ReviewRows
    <2>1. CASE UpdateReviewById(h)
      <3>1. PICK r \in reviews : reviews' = Replace(reviews, r, [r EXCEPT !.rating = hand[h].rating])
        BY <2>1 DEF UpdateReviewById
      <3>2. hand[h].rating \in Ratings
        BY <1>2, <2>1 DEF UpdateReviewById, ReplyType, HandKinds, Empty
      <3>3. [r EXCEPT !.rating = hand[h].rating] \in ReviewRows
        BY <3>2 DEF DeskInv, ReviewType, ReviewRows
      <3> QED BY <3>1, <3>3 DEF Replace, DeskInv, ReviewType
    <2>2. CASE DeleteReviewById(h)
      BY <2>2 DEF DeleteReviewById, DeskInv, ReviewType
    <2>3. CASE HandFails(h)
      BY <2>3 DEF HandFails, reviewVars, DeskInv, ReviewType
    <2> QED BY <2>1, <2>2, <2>3
  <1>4. InquiryType' /\ ReviewType' /\ UNCHANGED <<replies, letters, unsent>>
    BY <1>1, <1>3 DEF DeskInv, InquiryType, ReviewType, inquiryVars
  <1>5. \A k \in 0..MaxReplies : Empty \in HandKinds(k)
    BY DEF HandKinds
  <1> QED BY <1>1, <1>4, <1>5, QuietStep

LEMMA TakeUpStep ==
  ASSUME DeskInv, NEW u, NEW admin, NEW h \in Hands, NEW r \in reviews,
         \/ \E rating \in Ratings : EditReview(u, h, r, rating)
         \/ DeleteReview(u, admin, h, r)
  PROVE  DeskInv'
PROOF
  <1>1. r.id \in 1..MaxReviews
    BY DEF DeskInv, ReviewType, ReviewRows
  <1>2. PICK w \in [act : {"edit"}, review : 1..MaxReviews, rating : Ratings]
                     \cup [act : {"delete"}, review : 1..MaxReviews] :
          hand[h] = Empty /\ hand' = [hand EXCEPT ![h] = w]
    <2>1. CASE \E rating \in Ratings : EditReview(u, h, r, rating)
      BY <1>1, <2>1 DEF EditReview, TakeUp
    <2>2. CASE DeleteReview(u, admin, h, r)
      BY <1>1, <2>2 DEF DeleteReview, TakeUp
    <2> QED BY <2>1, <2>2
  <1>3. UNCHANGED <<inquiryVars, reviewVars>>
    BY DEF EditReview, DeleteReview
  <1>4. InquiryType' /\ ReviewType' /\ UNCHANGED <<replies, letters, unsent>>
    BY <1>3 DEF DeskInv, InquiryType, ReviewType, inquiryVars, reviewVars
  <1>5. hand[h].act # "letter" /\ \A k \in 0..MaxReplies : w \in HandKinds(k)
    BY <1>2 DEF Empty, HandKinds
  <1> QED BY <1>2, <1>4, <1>5, QuietStep

LEMMA ReviewStep ==
  ASSUME DeskInv, NEW u \in Folk, NEW rating \in Ratings, CreateReview(u, rating)
  PROVE  DeskInv'
PROOF
  <1>1. reviewed + 1 \in 1..MaxReviews /\ reviewed + 1 \in 0..MaxReviews
    BY DeskAssumption DEF CreateReview, DeskAssumption, DeskInv, ReviewType
  <1>2. [id |-> reviewed + 1, by |-> u, made |-> today, rating |-> rating] \in ReviewRows
    BY <1>1 DEF ReviewRows, DeskInv, ReviewType
  <1>3. ReviewType'
    BY <1>1, <1>2 DEF CreateReview, DeskInv, ReviewType
  <1>4. InquiryType' /\ UNCHANGED <<replies, letters, unsent, hand>>
    BY DEF CreateReview, DeskInv, InquiryType, inquiryVars
  <1> QED BY <1>3, <1>4, RowStep

LEMMA DayStep == DeskInv /\ DayPasses => DeskInv'
PROOF
  <1> SUFFICES ASSUME DeskInv, DayPasses PROVE DeskInv'
    OBVIOUS
  <1>1. ReviewType'
    BY DeskAssumption DEF DayPasses, DeskAssumption, DeskInv, ReviewType
  <1>2. InquiryType' /\ UNCHANGED <<replies, letters, unsent, hand>>
    BY DEF DayPasses, DeskInv, InquiryType, inquiryVars
  <1> QED BY <1>1, <1>2, RowStep

LEMMA DeskNextInv == DeskInv /\ [DeskNext]_deskVars => DeskInv'
PROOF
  <1> SUFFICES ASSUME DeskInv, [DeskNext]_deskVars PROVE DeskInv'
    OBVIOUS
  <1>0. \A q \in Requests(Folk) : WellFormed(q) => q.user \in Folk
    BY DEF Requests, WellFormed, SignedIn
  <1>1. CASE InquiryNext
    BY <1>0, <1>1, InquiryStep, AnswerStep, InsertReplyStep, LetterStep, PutDownStep
       DEF InquiryNext, InquiryRoute, MarkInquiryRoute, DeleteInquiryRoute, AnswerRoute
  <1>2. CASE ReviewNext
    <2>1. CASE \E q \in Requests(Folk), rating \in Ratings : ReviewRoute(q, rating)
      BY <1>0, <2>1, ReviewStep DEF ReviewRoute
    <2>2. CASE \E q \in Requests(Folk), rating \in Ratings, h \in Hands, r \in reviews :
                 EditReviewRoute(q, h, r, rating) \/ DeleteReviewRoute(q, h, r)
      BY <2>2, TakeUpStep DEF EditReviewRoute, DeleteReviewRoute
    <2>3. CASE \E h \in Hands : UpdateReviewById(h) \/ DeleteReviewById(h) \/ HandFails(h)
      BY <2>3, PutDownStep
    <2>4. CASE DayPasses
      BY <2>4, DayStep
    <2> QED BY <1>2, <2>1, <2>2, <2>3, <2>4 DEF ReviewNext
  <1>3. CASE UNCHANGED deskVars
    BY <1>3, RowStep DEF deskVars, DeskInv, InquiryType, ReviewType
  <1> QED BY <1>1, <1>2, <1>3 DEF DeskNext

LEMMA DeskAlways == DeskSpec => []DeskInv
PROOF
  BY DeskInitInv, DeskNextInv, PTL DEF DeskSpec
-----------------------------------------------------------------------------
(* Statistics: the activity of users.                                       *)

ClockType ==
  /\ clock \in 0..FinalTick
  /\ lastActive \in [Visitors -> 0..FinalTick] /\ lastSeen \in [Visitors -> 0..FinalTick]
  /\ mutedTill \in [Visitors -> 0..FinalTick + Throttle]
  /\ updating \cup unwritten \subseteq Visitors

\* The key is set when an update is due, and outlives it by the throttle at most.
ClockInv ==
  /\ ClockType
  /\ \A v \in Visitors :
       /\ lastSeen[v] <= clock /\ mutedTill[v] <= clock + Throttle
       /\ v \notin updating \cup unwritten =>
            mutedTill[v] <= lastActive[v] + Throttle /\ lastSeen[v] < lastActive[v] + Throttle

LEMMA ClockInit == StatInit => ClockInv
PROOF
  <1> SUFFICES ASSUME StatInit PROVE ClockInv
    OBVIOUS
  <1>1. 0 \in 0..FinalTick /\ 0 \in 0..FinalTick + Throttle /\ 0 < 0 + Throttle /\ 0 <= 0 + Throttle
    BY StatisticsAssumption DEF StatisticsAssumption
  <1> QED BY <1>1 DEF StatInit, ClockInv, ClockType

LEMMA ClockStep == ClockInv /\ [StatNext]_statVars => ClockInv'
PROOF
  <1> SUFFICES ASSUME ClockInv, [StatNext]_statVars PROVE ClockInv'
    OBVIOUS
  <1>0. /\ FinalTick \in Nat /\ Throttle \in Nat /\ 0 < Throttle
        /\ clock \in Nat /\ clock <= FinalTick /\ clock \in 0..FinalTick
        /\ \A v \in Visitors : lastActive[v] \in Nat /\ lastSeen[v] \in Nat /\ mutedTill[v] \in Nat
    BY StatisticsAssumption DEF StatisticsAssumption, ClockInv, ClockType
  <1>1. CASE Tick
    <2>1. clock' = clock + 1 /\ clock' \in 0..FinalTick
          /\ UNCHANGED <<lastActive, mutedTill, updating, lastSeen, unwritten>>
      BY <1>0, <1>1 DEF Tick
    <2>2. \A v \in Visitors : lastSeen[v] <= clock + 1 /\ mutedTill[v] <= (clock + 1) + Throttle
      BY <1>0 DEF ClockInv
    <2> QED BY <2>1, <2>2 DEF ClockInv, ClockType
  <1>2. ASSUME NEW v \in Visitors, RecordUserActivity(v) PROVE ClockInv'
    <2>1. lastSeen' = [lastSeen EXCEPT ![v] = clock] /\ UNCHANGED <<clock, lastActive, unwritten>>
      BY <1>2 DEF RecordUserActivity
    <2>2. CASE mutedTill[v] > clock
      <3>1. UNCHANGED <<mutedTill, updating>>
        BY <1>2, <2>2 DEF RecordUserActivity, SetKey, Muted
      <3>2. v \notin updating \cup unwritten => clock < lastActive[v] + Throttle
        BY <1>0, <2>2 DEF ClockInv
      <3> QED BY <1>0, <2>1, <3>1, <3>2 DEF ClockInv, ClockType
    <2>3. CASE ~ (mutedTill[v] > clock)
      <3>1. /\ mutedTill' = [mutedTill EXCEPT ![v] = clock + Throttle]
            /\ updating' = updating \cup {v}
        BY <1>2, <2>3 DEF RecordUserActivity, SetKey, Muted
      <3>2. clock + Throttle \in 0..FinalTick + Throttle
        BY <1>0
      <3> QED BY <1>0, <2>1, <3>1, <3>2 DEF ClockInv, ClockType
    <2> QED BY <2>2, <2>3
  <1>3. ASSUME NEW v \in Visitors, UpdateLastActive(v) PROVE ClockInv'
    <2>1. /\ updating' = updating \ {v} /\ lastActive' = [lastActive EXCEPT ![v] = clock]
          /\ unwritten' = unwritten \ {v} /\ UNCHANGED <<clock, mutedTill, lastSeen>>
      BY <1>3 DEF UpdateLastActive
    <2>2. lastSeen[v] < clock + Throttle
      BY <1>0 DEF ClockInv
    <2> QED BY <1>0, <2>1, <2>2 DEF ClockInv, ClockType
  <1>4. ASSUME NEW v \in Visitors, ActivityFails(v) PROVE ClockInv'
    BY <1>4 DEF ActivityFails, ClockInv, ClockType
  <1>5. CASE UNCHANGED clockVars
    BY <1>5 DEF clockVars, ClockInv, ClockType
  <1>6. CASE SnapshotNext \/ VisitNext
    <2>1. CASE VisitNext
      BY <1>5, <2>1 DEF VisitNext, Upload, Hit, RecordVisit, Midnight
    <2>2. CASE SnapshotNext
      <3>1. UNCHANGED clockVars
        <4>1. ASSUME NEW w \in Items, Upload(w) \/ Hit(w) PROVE UNCHANGED clockVars
          BY <4>1 DEF Upload, Hit
        <4>2. ASSUME NEW i \in Instances, StartInstance(i) \/ StopInstance(i) \/ EnsureTodaySnapshot(i)
              PROVE  UNCHANGED clockVars
          BY <4>2 DEF StartInstance, StopInstance, EnsureTodaySnapshot
        <4>3. ASSUME NEW i \in Instances, NEW o \in Origins,
                     \/ SnapshotDate(i, o) \/ ReadPrompts(i, o) \/ CreateSnapshots(i, o)
                     \/ CleanupOldSnapshots(i, o) \/ RunFails(i, o)
              PROVE  UNCHANGED clockVars
          BY <4>3 DEF SnapshotDate, ReadPrompts, CreateSnapshots, CleanupOldSnapshots, RunFails
        <4>4. Midnight => UNCHANGED clockVars
          BY DEF Midnight
        <4> QED BY <2>2, <4>1, <4>2, <4>3, <4>4 DEF SnapshotNext
      <3> QED BY <1>5, <3>1
    <2> QED BY <1>6, <2>1, <2>2
  <1>7. CASE UNCHANGED statVars
    BY <1>5, <1>7 DEF statVars
  <1> QED BY <1>1, <1>2, <1>3, <1>4, <1>6, <1>7 DEF StatNext, ActivityNext
-----------------------------------------------------------------------------
(* Statistics: the snapshots.                                               *)

SnapRows == [of : Items, snapshot_date : Dates, hits : 0..MaxHits]
Kept     == [of : Items, hits : 0..MaxHits]
Runs     == [step : {"count", "date", "read", "clean"}, due : Dates, date : Dates]
              \cup [step : {"write"}, due : Dates, date : Dates, kept : SUBSET Kept]

CountType ==
  /\ date \in Dates
  /\ hits \in [Items -> 0..MaxHits] /\ born \in [Items -> 0..Unborn]
  /\ dawn \in [Items -> [Dates -> 0..MaxHits]]
  /\ visits \in [Dates -> SUBSET Visitors]

JobType ==
  /\ snaps \subseteq SnapRows /\ up \subseteq Instances
  /\ job \in [Instances -> [Origins -> {Resting} \cup Runs]]
  /\ begun \cup covered \cup spoilt \subseteq Dates

\* Nothing is later than today, and counters only grow.
DateInv ==
  /\ \A d \in begun \cup covered : d <= date
  /\ \A w \in Active : born[w] <= date
  /\ \A w \in Items, d \in Dates : dawn[w][d] <= hits[w]
  /\ IsFiniteSet(Active)

\* n was counted on day d, and unless a run of d was spoilt, not later.
CountedOn(w, d, n) ==
  /\ dawn[w][d] <= n /\ n <= hits[w]
  /\ d \in spoilt \/ date < d + 1 \/ n <= dawn[w][d + 1]

SnapsInv ==
  /\ \A s \in snaps : /\ s.snapshot_date \in covered
                      /\ CountedOn(s.of, s.snapshot_date, s.hits)
  /\ \A s, t \in snaps : s.of = t.of /\ s.snapshot_date = t.snapshot_date => s = t

\* A run is for one day, and what it is about to insert is of that day.
RunInv(r) ==
  /\ r.date = r.due /\ r.due <= date
  /\ r.step = "write" =>
       /\ \A k \in r.kept : CountedOn(k.of, r.due, k.hits)
       /\ \A j, k \in r.kept : j.of = k.of => j = k
       /\ \A w \in Active : born[w] < r.due => \E k \in r.kept : k.of = w

RunsInv == \A i \in Instances, o \in Origins, r \in Runs : job[i][o] = r => RunInv(r)

CoverInv ==
  \A w \in Active, d \in covered : born[w] < d /\ d + Retention >= date
    => \E s \in snaps : s.of = w /\ s.snapshot_date = d

\* A run of day d has not come to its insert.
Awaited(d) == \E i \in Instances, o \in Origins :
                job[i][o] # Resting /\ job[i][o].due = d /\ job[i][o].step # "clean"

BegunInv ==
  \A w \in Active, d \in begun : born[w] < d => d \in covered \cup spoilt \/ Awaited(d)

\* A run ends with its instance.
StoppedInv == \A i \in Instances \ up, o \in Origins : job[i][o] = Resting

SnapInv == CountType /\ JobType /\ StoppedInv /\ DateInv /\ SnapsInv /\ RunsInv /\ CoverInv /\ BegunInv

LEMMA Numbers ==
  ASSUME SnapInv
  PROVE  /\ FinalDay \in Nat /\ MaxHits \in Nat /\ Retention \in Nat /\ date \in Nat /\ Unborn \in Nat
         /\ \A w \in Items : hits[w] \in Nat /\ born[w] \in Nat
         /\ \A w \in Items, d \in Dates : dawn[w][d] \in Nat
         /\ Dates \subseteq Nat /\ Dates \subseteq Int
PROOF
  <1>1. FinalDay \in Nat /\ MaxHits \in Nat /\ Retention \in Nat
    BY StatisticsAssumption DEF StatisticsAssumption
  <1>2. Unborn \in Nat /\ Dates \subseteq Nat /\ Dates \subseteq Int
    BY <1>1 DEF Unborn, Dates
  <1>3. CountType /\ 0..Unborn \subseteq Nat /\ 0..MaxHits \subseteq Nat
    BY <1>1, <1>2 DEF SnapInv
  <1>4. date \in Nat /\ \A w \in Items : hits[w] \in Nat /\ born[w] \in Nat
    BY <1>2, <1>3 DEF CountType
  <1>5. \A w \in Items, d \in Dates : dawn[w][d] \in Nat
    BY <1>3 DEF CountType
  <1> QED BY <1>1, <1>2, <1>4, <1>5

LEMMA SnapInit == StatInit => SnapInv
PROOF
  <1> SUFFICES ASSUME StatInit PROVE SnapInv
    OBVIOUS
  <1>0. /\ FinalDay \in Nat /\ MaxHits \in Nat /\ 0 \in Dates /\ 0 \in 0..MaxHits
        /\ Unborn \in 0..Unborn
    BY StatisticsAssumption DEF StatisticsAssumption, Dates, Unborn
  <1>1. CountType
    BY <1>0 DEF StatInit, CountType
  <1>2. JobType
    BY DEF StatInit, JobType
  <1>3. Active = {} /\ snaps = {} /\ covered = {} /\ begun = {}
    BY DEF StatInit, Active
  <1>4. DateInv
    BY <1>0, <1>3, FS_EmptySet DEF DateInv, StatInit
  <1>5. RunsInv
    <2>1. \A r \in Runs : r # Resting
      <3>1. \A r \in Runs : r.step # "none"
        BY DEF Runs
      <3> QED BY <3>1 DEF Resting
    <2> QED BY <2>1 DEF RunsInv, StatInit
  <1>6. StoppedInv
    BY DEF StatInit, StoppedInv
  <1> QED BY <1>1, <1>2, <1>3, <1>4, <1>5, <1>6 DEF SnapInv, SnapsInv, CoverInv, BegunInv

LEMMA RunKinds ==
  ASSUME SnapInv, NEW i \in Instances, NEW o \in Origins, job[i][o].step # "none"
  PROVE  /\ job[i][o] \in Runs /\ RunInv(job[i][o]) /\ job[i][o] # Resting
         /\ job[i][o].due \in Dates /\ job[i][o].date \in Dates /\ i \in up
PROOF
  <1>1. job[i][o] \in {Resting} \cup Runs
    BY DEF SnapInv, JobType
  <1>2. job[i][o] # Resting
    BY DEF Resting
  <1>3. RunInv(job[i][o])
    BY <1>1, <1>2 DEF SnapInv, RunsInv
  <1>4. i \in up
    BY <1>2 DEF SnapInv, StoppedInv
  <1> QED BY <1>1, <1>2, <1>3, <1>4 DEF Runs

LEMMA ItemStep == ASSUME SnapInv, NEW w \in Items, Upload(w) PROVE SnapInv'
PROOF
  <1>1. /\ w \notin Active /\ born' = [born EXCEPT ![w] = date]
        /\ UNCHANGED <<date, hits, snaps, up, job, visits, dawn, begun, covered, spoilt>>
    BY DEF Upload
  <1>2. /\ date \in 0..Unborn /\ date # Unborn
    BY Numbers DEF SnapInv, CountType, Dates, Unborn
  <1>3. /\ Active' = Active \cup {w} /\ born'[w] = date
        /\ \A x \in Active : born'[x] = born[x]
    BY <1>1, <1>2 DEF Active, SnapInv, CountType
  <1>4. CountType' /\ JobType'
    BY <1>1, <1>2 DEF SnapInv, CountType, JobType
  <1>5. IsFiniteSet(Active')
    BY <1>3, FS_AddElement DEF SnapInv, DateInv
  <1>6. DateInv'
    BY <1>1, <1>3, <1>5, Numbers DEF SnapInv, DateInv
  <1>7. SnapsInv'
    BY <1>1 DEF SnapInv, SnapsInv, CountedOn
  <1>8. RunsInv'
    <2>1. ASSUME NEW i \in Instances, NEW o \in Origins, NEW r \in Runs, job[i][o] = r
          PROVE  RunInv(r)'
      <3>1. RunInv(r)
        BY <2>1 DEF SnapInv, RunsInv
      <3>2. r.due \in Dates
        BY DEF Runs
      <3>3. r.step = "write" => \A x \in Active' : born'[x] < r.due => \E k \in r.kept : k.of = x
        BY <1>2, <1>3, <3>1, <3>2, Numbers DEF RunInv
      <3> QED BY <1>1, <3>1, <3>3 DEF RunInv, CountedOn
    <2> QED BY <1>1, <2>1 DEF RunsInv
  <1>9. \A d \in begun \cup covered : ~ (date < d)
    BY Numbers DEF SnapInv, DateInv, JobType
  <1>10. CoverInv' /\ BegunInv'
    BY <1>1, <1>3, <1>9 DEF SnapInv, CoverInv, BegunInv, Awaited
  <1>11. StoppedInv'
    BY <1>1 DEF SnapInv, StoppedInv
  <1> QED BY <1>4, <1>6, <1>7, <1>8, <1>10, <1>11 DEF SnapInv

LEMMA HitStep == ASSUME SnapInv, NEW w \in Items, Hit(w) PROVE SnapInv'
PROOF
  <1>1. /\ hits' = [hits EXCEPT ![w] = hits[w] + 1] /\ hits[w] < MaxHits
        /\ UNCHANGED <<date, born, snaps, up, job, visits, dawn, begun, covered, spoilt>>
    BY DEF Hit
  <1>2. /\ hits[w] + 1 \in 0..MaxHits
        /\ \A x \in Items : hits[x] <= hits'[x]
        /\ \A x \in Items : hits'[x] \in Nat
    BY <1>1, Numbers DEF SnapInv, CountType
  <1>3. CountType' /\ JobType' /\ Active' = Active
    BY <1>1, <1>2 DEF SnapInv, CountType, JobType, Active
  <1>4. DateInv'
    BY <1>1, <1>2, <1>3, Numbers DEF SnapInv, DateInv
  <1>5. ASSUME NEW x \in Items, NEW d, NEW n \in 0..MaxHits, CountedOn(x, d, n)
        PROVE  CountedOn(x, d, n)'
    <2>1. n <= hits'[x]
      BY <1>2, <1>5, Numbers DEF CountedOn
    <2> QED BY <1>1, <1>5, <2>1 DEF CountedOn
  <1>6. SnapsInv'
    <2>1. \A s \in snaps : s.of \in Items /\ s.hits \in 0..MaxHits
      BY DEF SnapInv, JobType, SnapRows
    <2>2. \A s \in snaps : CountedOn(s.of, s.snapshot_date, s.hits)'
      BY <1>5, <2>1 DEF SnapInv, SnapsInv
    <2> QED BY <1>1, <2>2 DEF SnapInv, SnapsInv, CountedOn
  <1>7. RunsInv'
    <2>1. ASSUME NEW i \in Instances, NEW o \in Origins, NEW r \in Runs, job[i][o] = r
          PROVE  RunInv(r)'
      <3>1. RunInv(r)
        BY <2>1 DEF SnapInv, RunsInv
      <3>2. r.step = "write" => \A k \in r.kept : k.of \in Items /\ k.hits \in 0..MaxHits
        BY DEF Runs, Kept
      <3>3. r.step = "write" => \A k \in r.kept : CountedOn(k.of, r.due, k.hits)'
        BY <1>5, <3>1, <3>2 DEF RunInv
      <3> QED BY <1>1, <1>3, <3>1, <3>3 DEF RunInv
    <2> QED BY <1>1, <2>1 DEF RunsInv
  <1>8. CoverInv' /\ BegunInv'
    BY <1>1, <1>3 DEF SnapInv, CoverInv, BegunInv, Awaited
  <1>9. StoppedInv'
    BY <1>1 DEF SnapInv, StoppedInv
  <1> QED BY <1>3, <1>4, <1>6, <1>7, <1>8, <1>9 DEF SnapInv

LEMMA MidnightStep == SnapInv /\ Midnight => SnapInv'
PROOF
  <1> SUFFICES ASSUME SnapInv, Midnight PROVE SnapInv'
    OBVIOUS
  <1>1. /\ date' = date + 1 /\ date < FinalDay
        /\ dawn' = [w \in Items |-> [dawn[w] EXCEPT ![date + 1] = hits[w]]]
        /\ UNCHANGED <<hits, born, snaps, up, visits, covered, spoilt>>
    BY DEF Midnight
  <1>2. PICK t \in Dates : t = date + 1 /\ t \in Nat /\ date < t
    BY <1>1, Numbers DEF Dates
  <1>3. Active' = Active
    BY <1>1 DEF Active
  <1>4. /\ \A w \in Items : dawn'[w][t] = hits[w]
        /\ \A w \in Items, d \in Dates : d # t => dawn'[w][d] = dawn[w][d]
        /\ dawn' \in [Items -> [Dates -> 0..MaxHits]]
    BY <1>1, <1>2 DEF SnapInv, CountType
  <1>5. CountType'
    BY <1>1, <1>2, <1>4 DEF SnapInv, CountType
  <1>6. PICK dawned \in Runs : dawned = [step |-> "date", due |-> t, date |-> t]
    BY <1>2 DEF Runs
  <1>7. /\ \A i \in Instances, o \in Origins :
             job'[i][o] = job[i][o] \/ job'[i][o] = dawned
        /\ \A i \in up : job'[i]["cron"] = dawned /\ job[i]["cron"] = Resting
        /\ \A i \in Instances, o \in Origins : job[i][o] # Resting => job'[i][o] = job[i][o]
        /\ job' \in [Instances -> [Origins -> {Resting} \cup Runs]] /\ StoppedInv'
    <2>1. \A i \in up : job[i]["cron"] = Resting
      BY DEF Midnight
    <2>2. job' = [i \in Instances |-> IF i \notin up THEN job[i] ELSE [job[i] EXCEPT !["cron"] = dawned]]
      BY <1>2, <1>6 DEF Midnight
    <2>3. up \subseteq Instances /\ "cron" \in Origins
      BY DEF SnapInv, JobType, Origins
    <2>4. StoppedInv'
      BY <1>1, <2>2 DEF SnapInv, StoppedInv
    <2> QED BY <2>1, <2>2, <2>3, <2>4 DEF SnapInv, JobType
  <1>8. begun' \subseteq begun \cup {t} /\ (t \in begun' => t \in begun \/ \E i \in up : TRUE)
    BY <1>2 DEF Midnight
  <1>9. JobType'
    BY <1>1, <1>2, <1>7, <1>8 DEF SnapInv, JobType
  <1>10. DateInv'
    <2>0. \A d \in begun \cup covered : d \in Nat /\ d <= date
      BY Numbers DEF SnapInv, DateInv, JobType
    <2>1. \A d \in begun' \cup covered' : d <= date'
      BY <1>1, <1>2, <1>8, <2>0, Numbers
    <2>2. \A w \in Active' : born'[w] <= date'
      BY <1>1, <1>3, Numbers DEF SnapInv, DateInv, Active
    <2>3. \A w \in Items, d \in Dates : dawn'[w][d] <= hits'[w]
      BY <1>1, <1>4, Numbers DEF SnapInv, DateInv
    <2> QED BY <1>3, <2>1, <2>2, <2>3 DEF SnapInv, DateInv
  <1>11. ASSUME NEW x \in Items, NEW d \in Dates, NEW n \in 0..MaxHits, d <= date, CountedOn(x, d, n)
         PROVE  CountedOn(x, d, n)'
    <2>0. d \in Nat /\ n \in Nat /\ date \in Nat
      BY <1>11, Numbers
    <2>1. dawn'[x][d] = dawn[x][d]
      BY <1>2, <1>4, <2>0, <1>11
    <2>2. d \in spoilt \/ date' < d + 1 \/ n <= dawn'[x][d + 1]
      <3>1. CASE d = date
        BY <1>2, <1>4, <1>11, <3>1 DEF CountedOn
      <3>2. CASE d # date
        <4>1. d + 1 \in Dates /\ d + 1 # t /\ ~ (date < d + 1)
          BY <1>1, <1>2, <1>11, <2>0, <3>2, Numbers DEF Dates
        <4> QED BY <1>4, <1>11, <4>1 DEF CountedOn
      <3> QED BY <3>1, <3>2
    <2> QED BY <1>1, <1>11, <2>1, <2>2 DEF CountedOn
  <1>12. SnapsInv'
    <2>1. \A s \in snaps : /\ s.of \in Items /\ s.hits \in 0..MaxHits /\ s.snapshot_date \in Dates
                           /\ s.snapshot_date <= date
      BY DEF SnapInv, JobType, SnapRows, SnapsInv, DateInv
    <2>2. \A s \in snaps : CountedOn(s.of, s.snapshot_date, s.hits)'
      BY <1>11, <2>1 DEF SnapInv, SnapsInv
    <2> QED BY <1>1, <2>2 DEF SnapInv, SnapsInv
  <1>13. RunsInv'
    <2>1. ASSUME NEW i \in Instances, NEW o \in Origins, NEW r \in Runs, job'[i][o] = r
          PROVE  RunInv(r)'
      <3>1. CASE r = dawned
        BY <1>1, <1>2, <1>6, <3>1 DEF RunInv
      <3>2. CASE r # dawned
        <4>1. RunInv(r)
          BY <1>7, <2>1, <3>2 DEF SnapInv, RunsInv
        <4>2. r.due \in Dates /\ r.due <= date'
          BY <1>1, <4>1, Numbers DEF Runs, RunInv
        <4>3. r.step = "write" => \A k \in r.kept : k.of \in Items /\ k.hits \in 0..MaxHits
          BY DEF Runs, Kept
        <4>4. r.step = "write" => \A k \in r.kept : CountedOn(k.of, r.due, k.hits)'
          BY <1>11, <4>1, <4>2, <4>3 DEF RunInv
        <4> QED BY <1>1, <1>3, <4>1, <4>2, <4>4 DEF RunInv
      <3> QED BY <3>1, <3>2
    <2> QED BY <2>1 DEF RunsInv
  <1>14. CoverInv'
    <2>1. \A d \in covered : d + Retention >= date + 1 => d + Retention >= date
      BY Numbers DEF SnapInv, JobType
    <2> QED BY <1>1, <1>3, <2>1 DEF SnapInv, CoverInv
  <1>15. BegunInv'
    <2>1. \A d \in Dates : Awaited(d) => Awaited(d)'
      BY <1>7 DEF Awaited
    <2>2. begun \subseteq Dates
      BY DEF SnapInv, JobType
    <2>3. (\E i \in up : TRUE) => Awaited(t)'
      <3>1. dawned # Resting /\ dawned.due = t /\ dawned.step # "clean"
        <4>1. dawned.step # "none"
          BY <1>6
        <4> QED BY <1>6, <4>1 DEF Resting
      <3>2. up \subseteq Instances /\ "cron" \in Origins
        BY DEF SnapInv, JobType, Origins
      <3> QED BY <1>7, <3>1, <3>2 DEF Awaited
    <2>4. \A w \in Active, d \in begun : born[w] < d => d \in covered \cup spoilt \/ Awaited(d)'
      BY <2>1, <2>2 DEF SnapInv, BegunInv
    <2> QED BY <1>1, <1>3, <1>8, <2>3, <2>4 DEF BegunInv
  <1> QED BY <1>5, <1>7, <1>9, <1>10, <1>12, <1>13, <1>14, <1>15 DEF SnapInv

-----------------------------------------------------------------------------
(* Statistics: the job.                                                     *)

\* Run o of instance i becomes r: unless it was for a day that is covered, spoilt or
\* of no concern by then, the run that comes after is for the same day.
LEMMA RunStep ==
  ASSUME SnapInv, NEW i \in Instances, NEW o \in Origins, NEW r \in {Resting} \cup Runs,
         job' = [job EXCEPT ![i][o] = r],
         UNCHANGED <<date, hits, born, visits, dawn, begun>>, i \in up', up' \in {up, up \cup {i}},
         snaps' \subseteq SnapRows, covered' \subseteq Dates, spoilt' \subseteq Dates,
         covered \subseteq covered', spoilt \subseteq spoilt', \A d \in covered' : d <= date,
         r # Resting => RunInv(r)', SnapsInv', CoverInv',
         \A w \in Active, d \in begun : born[w] < d /\ d \notin covered' \cup spoilt'
             /\ job[i][o] # Resting /\ job[i][o].step # "clean" /\ job[i][o].due = d =>
           r # Resting /\ r.due = d /\ r.step # "clean"
  PROVE  SnapInv'
PROOF
  <1>1. /\ job' \in [Instances -> [Origins -> {Resting} \cup Runs]] /\ job'[i][o] = r
        /\ \A e \in Instances, p \in Origins : e # i \/ p # o => job'[e][p] = job[e][p]
    BY DEF SnapInv, JobType
  <1>2. CountType' /\ JobType' /\ Active' = Active
    BY <1>1 DEF SnapInv, CountType, JobType, Active
  <1>3. DateInv'
    BY <1>2 DEF SnapInv, DateInv
  <1>4. RunsInv'
    <2>1. ASSUME NEW e \in Instances, NEW p \in Origins, NEW x \in Runs, job'[e][p] = x
          PROVE  RunInv(x)'
      <3>1. CASE e = i /\ p = o
        <4>1. x # Resting
          <5>1. x.step # "none"
            BY DEF Runs
          <5> QED BY <5>1 DEF Resting
        <4> QED BY <1>1, <2>1, <3>1, <4>1
      <3>2. CASE e # i \/ p # o
        <4>1. RunInv(x)
          BY <1>1, <2>1, <3>2 DEF SnapInv, RunsInv
        <4> QED BY <1>2, <4>1 DEF RunInv, CountedOn
      <3> QED BY <3>1, <3>2
    <2> QED BY <2>1 DEF RunsInv
  <1>5. BegunInv'
    <2>1. ASSUME NEW w \in Active, NEW d \in begun, born[w] < d, d \notin covered' \cup spoilt'
          PROVE  Awaited(d)'
      <3>1. PICK e \in Instances, p \in Origins :
              job[e][p] # Resting /\ job[e][p].due = d /\ job[e][p].step # "clean"
        BY <2>1 DEF SnapInv, BegunInv, Awaited
      <3>2. CASE e = i /\ p = o
        BY <1>1, <2>1, <3>1, <3>2 DEF Awaited
      <3>3. CASE e # i \/ p # o
        BY <1>1, <3>1, <3>3 DEF Awaited
      <3> QED BY <3>2, <3>3
    <2> QED BY <1>2, <2>1 DEF BegunInv
  <1>6. StoppedInv'
    BY <1>1 DEF SnapInv, StoppedInv
  <1> QED BY <1>2, <1>3, <1>4, <1>5, <1>6 DEF SnapInv

\* One that inserts and deletes nothing.
LEMMA IdleRunStep ==
  ASSUME SnapInv, NEW i \in Instances, NEW o \in Origins, NEW r \in {Resting} \cup Runs,
         job' = [job EXCEPT ![i][o] = r], i \in up', up' \in {up, up \cup {i}},
         UNCHANGED <<date, hits, born, snaps, visits, dawn, begun, covered>>,
         spoilt' = spoilt \/ (job[i][o].due \in Dates /\ spoilt' = spoilt \cup {job[i][o].due}),
         r # Resting => RunInv(r)',
         \/ job[i][o] = Resting \/ job[i][o].due \in covered \cup spoilt'
         \/ r # Resting /\ r.due = job[i][o].due /\ r.step # "clean"
  PROVE  SnapInv'
PROOF
  <1>1. spoilt \subseteq spoilt' /\ spoilt' \subseteq Dates /\ covered \subseteq Dates
        /\ snaps \subseteq SnapRows /\ \A d \in covered : d <= date
    BY DEF SnapInv, JobType, DateInv
  <1>2. SnapsInv'
    BY <1>1 DEF SnapInv, SnapsInv, CountedOn
  <1>3. CoverInv'
    BY DEF SnapInv, CoverInv, Active
  <1>4. \A w \in Active, d \in begun : born[w] < d /\ d \notin covered' \cup spoilt'
            /\ job[i][o] # Resting /\ job[i][o].step # "clean" /\ job[i][o].due = d =>
          r # Resting /\ r.due = d /\ r.step # "clean"
    OBVIOUS
  <1>5. UNCHANGED <<date, hits, born, visits, dawn, begun>> /\ covered \subseteq covered'
        /\ snaps' \subseteq SnapRows /\ covered' \subseteq Dates /\ \A d \in covered' : d <= date
    BY <1>1
  <1> QED BY <1>1, <1>2, <1>3, <1>4, <1>5, RunStep

LEMMA InstanceStep == ASSUME SnapInv, NEW i \in Instances, StartInstance(i) PROVE SnapInv'
PROOF
  <1>1. date \in Dates /\ date <= date /\ "start" \in Origins
    BY Numbers DEF SnapInv, CountType, Origins
  <1>2. PICK r \in Runs : r = [step |-> "count", due |-> date, date |-> date]
    BY <1>1 DEF Runs
  <1>3. /\ job' = [job EXCEPT ![i]["start"] = r] /\ i \in up' /\ up' = up \cup {i}
        /\ UNCHANGED <<date, hits, born, snaps, visits, dawn, begun, covered, spoilt>>
    BY <1>2 DEF StartInstance, RunAt
  <1>4. RunInv(r)'
    BY <1>1, <1>2, <1>3 DEF RunInv
  <1>5. job[i]["start"] = Resting
    BY <1>1 DEF StartInstance, SnapInv, StoppedInv
  <1> QED BY <1>1, <1>3, <1>4, <1>5, IdleRunStep

LEMMA EnsureStep == ASSUME SnapInv, NEW i \in Instances, EnsureTodaySnapshot(i) PROVE SnapInv'
PROOF
  <1>1. "start" \in Origins /\ job[i]["start"].step = "count"
        /\ UNCHANGED <<date, hits, born, snaps, up, visits, dawn, begun, covered, spoilt>>
    BY DEF EnsureTodaySnapshot, Origins
  <1>2. job[i]["start"].step # "none"
    BY <1>1
  <1>3. PICK x \in Runs : /\ x = job[i]["start"] /\ x.step = "count" /\ RunInv(x) /\ i \in up
                         /\ x.due \in Dates /\ x.date \in Dates
    BY <1>1, <1>2, RunKinds
  <1>4. x \in [step : {"count", "date", "read", "clean"}, due : Dates, date : Dates]
    BY <1>3 DEF Runs
  <1>5. CASE \E s \in snaps : s.snapshot_date = x.date
    <2>1. job[i]["start"].due \in covered
      BY <1>3, <1>5 DEF SnapInv, SnapsInv, RunInv
    <2>2. job' = [job EXCEPT ![i]["start"] = Resting]
      BY <1>3, <1>5 DEF EnsureTodaySnapshot, RunAt
    <2> QED BY <1>1, <1>3, <2>1, <2>2, IdleRunStep
  <1>6. CASE ~ \E s \in snaps : s.snapshot_date = x.date
    <2>1. job' = [job EXCEPT ![i]["start"] = [x EXCEPT !.step = "date"]]
      BY <1>3, <1>6 DEF EnsureTodaySnapshot, RunAt
    <2>2. PICK r \in Runs : /\ r = [x EXCEPT !.step = "date"] /\ r.step = "date"
                           /\ r.due = x.due /\ r.date = x.date
      <3>1. [x EXCEPT !.step = "date"] \in [step : {"count", "date", "read", "clean"}, due : Dates, date : Dates]
        BY <1>4
      <3> QED BY <1>4, <3>1 DEF Runs
    <2>3. RunInv(r)' /\ r.step # "clean" /\ r # Resting
      <3>1. r.step # "none" /\ r.step # "clean" /\ r.step # "write"
        BY <2>2
      <3> QED BY <1>1, <1>3, <2>2, <3>1 DEF RunInv, Resting
    <2>4. job' = [job EXCEPT ![i]["start"] = r] /\ r.due = job[i]["start"].due
      BY <1>3, <2>1, <2>2
    <2> QED BY <1>1, <1>3, <2>3, <2>4, IdleRunStep
  <1> QED BY <1>5, <1>6

LEMMA DateStep ==
  ASSUME SnapInv, NEW i \in Instances, NEW o \in Origins, SnapshotDate(i, o) PROVE SnapInv'
PROOF
  <1>1. job[i][o].step = "date"
        /\ UNCHANGED <<date, hits, born, snaps, up, visits, dawn, begun, covered>>
    BY DEF SnapshotDate
  <1>2. PICK x \in Runs : /\ x = job[i][o] /\ x.step = "date" /\ i \in up /\ x.due \in Dates
    BY <1>1, RunKinds
  <1>3. date \in Dates /\ date <= date
    BY Numbers DEF SnapInv, CountType
  <1>4. x \in [step : {"count", "date", "read", "clean"}, due : Dates, date : Dates]
    BY <1>2 DEF Runs
  <1>5. PICK r \in Runs : /\ job' = [job EXCEPT ![i][o] = r]
                         /\ r.step = "read" /\ r.due = date /\ r.date = date
    <2>1. job' = [job EXCEPT ![i][o] = [x EXCEPT !.step = "read", !.due = date, !.date = date]]
      BY <1>2 DEF SnapshotDate, RunAt, KstDate
    <2>2. PICK r : r = [x EXCEPT !.step = "read", !.due = date, !.date = date]
      OBVIOUS
    <2>3. r \in [step : {"count", "date", "read", "clean"}, due : Dates, date : Dates]
          /\ r.step = "read" /\ r.due = date /\ r.date = date
      BY <1>3, <1>4, <2>2
    <2> QED BY <2>1, <2>2, <2>3 DEF Runs
  <1>6. RunInv(r)' /\ r # Resting /\ r.step # "clean"
    <2>1. r.step # "none" /\ r.step # "clean" /\ r.step # "write"
      BY <1>5
    <2> QED BY <1>1, <1>3, <1>5, <2>1 DEF RunInv, Resting
  <1>7. CASE date # x.due
    <2>1. spoilt' = spoilt \cup {job[i][o].due} /\ job[i][o].due \in Dates
      BY <1>2, <1>7 DEF SnapshotDate, Spoil
    <2>2. job[i][o].due \in covered \cup spoilt'
      BY <2>1
    <2> QED BY <1>1, <1>2, <1>5, <1>6, <2>1, <2>2, IdleRunStep
  <1>8. CASE date = x.due
    <2>1. spoilt' = spoilt /\ r.due = job[i][o].due
      BY <1>2, <1>5, <1>8 DEF SnapshotDate
    <2> QED BY <1>1, <1>2, <1>5, <1>6, <2>1, IdleRunStep
  <1> QED BY <1>7, <1>8

LEMMA ReadStep ==
  ASSUME SnapInv, NEW i \in Instances, NEW o \in Origins, ReadPrompts(i, o) PROVE SnapInv'
PROOF
  <1>1. job[i][o].step = "read"
        /\ UNCHANGED <<date, hits, born, snaps, up, visits, dawn, begun, covered>>
    BY DEF ReadPrompts
  <1>2. PICK x \in Runs : /\ x = job[i][o] /\ x.step = "read" /\ i \in up /\ RunInv(x)
                         /\ x.due \in Dates /\ x.date \in Dates
    BY <1>1, RunKinds
  <1>3. PICK kept \in SUBSET Kept : kept = {[of |-> w, hits |-> hits[w]] : w \in Active}
    <2>1. \A w \in Active : w \in Items /\ hits[w] \in 0..MaxHits
      BY DEF Active, SnapInv, CountType
    <2>2. \A w \in Active : [of |-> w, hits |-> hits[w]] \in Kept
      BY <2>1 DEF Kept
    <2>3. {[of |-> w, hits |-> hits[w]] : w \in Active} \in SUBSET Kept
      BY <2>2
    <2> QED BY <2>3
  <1>4. PICK r : r = [step |-> "write", due |-> x.due, date |-> x.date, kept |-> kept]
    OBVIOUS
  <1>5. /\ r \in Runs /\ job' = [job EXCEPT ![i][o] = r]
        /\ r.step = "write" /\ r.due = x.due /\ r.date = x.date /\ r.kept = kept
    BY <1>2, <1>3, <1>4 DEF Runs, ReadPrompts, RunAt
  <1>6. r # Resting /\ r.step # "clean"
    <2>1. r.step # "none" /\ r.step # "clean"
      BY <1>5
    <2> QED BY <2>1 DEF Resting
  <1>7. x.date = x.due /\ x.due <= date
    BY <1>2 DEF RunInv
  <1>8. \/ date # x.due /\ spoilt' = spoilt \cup {x.due}
        \/ date = x.due /\ spoilt' = spoilt
    BY <1>2 DEF ReadPrompts, Spoil
  <1>9. RunInv(r)'
    <2>1. ASSUME NEW k \in kept PROVE CountedOn(k.of, x.due, k.hits)'
      <3>1. PICK w \in Active : k = [of |-> w, hits |-> hits[w]]
        BY <1>3
      <3>2. w \in Items /\ k.of = w /\ k.hits = hits[w] /\ dawn[w][x.due] <= hits[w] /\ hits[w] \in Nat
        BY <1>2, <3>1, Numbers DEF Active, SnapInv, DateInv
      <3>3. hits[w] <= hits[w]
        BY <3>2
      <3>4. x.due \in spoilt' \/ date < x.due + 1
        BY <1>8, Numbers
      <3> QED BY <1>1, <3>2, <3>3, <3>4 DEF CountedOn
    <2>2. \A j, k \in kept : j.of = k.of => j = k
      BY <1>3
    <2>3. ASSUME NEW w \in Active' PROVE \E k \in kept : k.of = w
      <3>1. w \in Active
        BY <1>1 DEF Active
      <3>2. [of |-> w, hits |-> hits[w]] \in kept
        BY <1>3, <3>1
      <3> QED BY <3>2
    <2> QED BY <1>1, <1>5, <1>7, <2>1, <2>2, <2>3 DEF RunInv
  <1>10. spoilt' = spoilt \/ (job[i][o].due \in Dates /\ spoilt' = spoilt \cup {job[i][o].due})
    BY <1>2, <1>8
  <1>11. r.due = job[i][o].due
    BY <1>2, <1>5
  <1> QED BY <1>1, <1>2, <1>5, <1>6, <1>9, <1>10, <1>11, IdleRunStep

LEMMA RunFailsStep ==
  ASSUME SnapInv, NEW i \in Instances, NEW o \in Origins, RunFails(i, o) PROVE SnapInv'
PROOF
  <1>1. /\ job[i][o] # Resting /\ spoilt' = spoilt \cup {job[i][o].due}
        /\ job' = [job EXCEPT ![i][o] = Resting]
        /\ UNCHANGED <<date, hits, born, snaps, up, visits, dawn, begun, covered>>
    BY DEF RunFails, Spoil, RunAt
  <1>2. job[i][o] \in Runs /\ i \in up
    BY <1>1 DEF SnapInv, JobType, StoppedInv
  <1>3. job[i][o].due \in Dates
    BY <1>2 DEF Runs
  <1> QED BY <1>1, <1>2, <1>3, IdleRunStep

LEMMA CreateSnapsStep ==
  ASSUME SnapInv, NEW i \in Instances, NEW o \in Origins, CreateSnapshots(i, o) PROVE SnapInv'
PROOF
  <1>1. job[i][o].step = "write"
        /\ UNCHANGED <<date, hits, born, up, visits, dawn, begun, spoilt>>
    BY DEF CreateSnapshots
  <1>2. PICK x \in Runs : /\ x = job[i][o] /\ x.step = "write" /\ i \in up /\ RunInv(x)
                         /\ x.due \in Dates /\ x.date \in Dates
    BY <1>1, RunKinds
  <1>3. x.kept \in SUBSET Kept
    BY <1>2 DEF Runs
  <1>4. PICK d \in Dates : d = x.due /\ d = x.date /\ d <= date
    BY <1>2 DEF RunInv
  <1>5. PICK kept \in SUBSET Kept :
          /\ kept = x.kept /\ \A k \in kept : CountedOn(k.of, d, k.hits)
          /\ \A j, k \in kept : j.of = k.of => j = k
          /\ \A w \in Active : born[w] < d => \E k \in kept : k.of = w
    BY <1>2, <1>3, <1>4 DEF RunInv
  <1>6. PICK new : new = {k \in kept : \A s \in snaps : s.of # k.of \/ s.snapshot_date # d}
    OBVIOUS
  <1>7. /\ snaps' = snaps \cup {[of |-> k.of, snapshot_date |-> d, hits |-> k.hits] : k \in new}
        /\ covered' = IF kept = {} THEN covered ELSE covered \cup {d}
        /\ job' = [job EXCEPT ![i][o] = [step |-> "clean", due |-> d, date |-> d]]
    BY <1>2, <1>4, <1>5, <1>6 DEF CreateSnapshots, RunAt
  <1>8. PICK r \in Runs : r = [step |-> "clean", due |-> d, date |-> d]
    BY DEF Runs
  <1>9. RunInv(r)'
    BY <1>1, <1>4, <1>8 DEF RunInv
  <1>10. snaps' \subseteq SnapRows
    BY <1>6, <1>7 DEF SnapInv, JobType, SnapRows, Kept
  <1>11. /\ covered \subseteq covered' /\ covered' \subseteq Dates /\ \A e \in covered' : e <= date
         /\ spoilt' = spoilt /\ spoilt \subseteq Dates
    BY <1>1, <1>4, <1>7 DEF SnapInv, JobType, DateInv
  <1>12. SnapsInv'
    <2>1. ASSUME NEW s \in snaps'
          PROVE  s.snapshot_date \in covered' /\ CountedOn(s.of, s.snapshot_date, s.hits)'
      <3>1. CASE s \in snaps
        BY <1>1, <1>11, <3>1 DEF SnapInv, SnapsInv, CountedOn
      <3>2. CASE s \notin snaps
        <4>1. PICK k \in new : s = [of |-> k.of, snapshot_date |-> d, hits |-> k.hits]
          BY <1>7, <3>2
        <4>2. k \in kept /\ s.of = k.of /\ s.snapshot_date = d /\ s.hits = k.hits
          BY <1>6, <4>1
        <4> QED BY <1>1, <1>5, <1>7, <4>2 DEF CountedOn
      <3> QED BY <3>1, <3>2
    <2>2. ASSUME NEW s \in snaps', NEW t \in snaps', s.of = t.of, s.snapshot_date = t.snapshot_date
          PROVE  s = t
      <3>1. \A y \in snaps' : y \notin snaps =>
              \E k \in new : y = [of |-> k.of, snapshot_date |-> d, hits |-> k.hits]
        BY <1>7
      <3>2. CASE s \in snaps /\ t \in snaps
        BY <2>2, <3>2 DEF SnapInv, SnapsInv
      <3>3. CASE s \in snaps /\ t \notin snaps
        BY <1>6, <2>2, <3>1, <3>3
      <3>4. CASE s \notin snaps /\ t \in snaps
        BY <1>6, <2>2, <3>1, <3>4
      <3>5. CASE s \notin snaps /\ t \notin snaps
        BY <1>5, <1>6, <2>2, <3>1, <3>5
      <3> QED BY <3>2, <3>3, <3>4, <3>5
    <2> QED BY <2>1, <2>2 DEF SnapsInv
  <1>13. Active' = Active
    BY <1>1 DEF Active
  <1>14. CoverInv'
    <2> SUFFICES ASSUME NEW w \in Active, NEW e \in covered', born[w] < e, e + Retention >= date
                 PROVE  \E s \in snaps' : s.of = w /\ s.snapshot_date = e
      BY <1>1, <1>13 DEF CoverInv
    <2>1. CASE e \in covered
      BY <1>7, <2>1 DEF SnapInv, CoverInv
    <2>2. CASE e \notin covered
      <3>1. e = d
        BY <1>7, <2>2
      <3>2. PICK k \in kept : k.of = w
        BY <1>5, <3>1
      <3>3. CASE k \in new
        <4>1. [of |-> k.of, snapshot_date |-> d, hits |-> k.hits] \in snaps'
          BY <1>7, <3>3
        <4> QED BY <3>1, <3>2, <4>1
      <3>4. CASE k \notin new
        <4>1. PICK s \in snaps : s.of = k.of /\ s.snapshot_date = d
          BY <1>6, <3>4
        <4> QED BY <1>7, <3>1, <3>2, <4>1
      <3> QED BY <3>3, <3>4
    <2> QED BY <2>1, <2>2
  <1>15. ASSUME NEW w \in Active, NEW e \in begun, born[w] < e, job[i][o].due = e
         PROVE  e \in covered'
    <2>1. e = d
      BY <1>2, <1>4, <1>15
    <2>2. kept # {}
      BY <1>5, <1>15, <2>1
    <2> QED BY <1>7, <2>1, <2>2
  <1> QED BY <1>1, <1>2, <1>7, <1>8, <1>9, <1>10, <1>11, <1>12, <1>14, <1>15, RunStep

LEMMA CleanupStep ==
  ASSUME SnapInv, NEW i \in Instances, NEW o \in Origins, CleanupOldSnapshots(i, o) PROVE SnapInv'
PROOF
  <1>1. /\ job[i][o].step = "clean" /\ snaps' = {s \in snaps : s.snapshot_date + Retention >= date}
        /\ job' = [job EXCEPT ![i][o] = Resting]
        /\ UNCHANGED <<date, hits, born, up, visits, dawn, begun, covered, spoilt>>
    BY DEF CleanupOldSnapshots, RunAt, KstDate
  <1>2. i \in up
    BY <1>1, RunKinds
  <1>3. /\ snaps' \subseteq SnapRows /\ covered \subseteq Dates /\ spoilt \subseteq Dates
        /\ \A d \in covered : d <= date
    BY <1>1 DEF SnapInv, JobType, DateInv
  <1>4. SnapsInv'
    BY <1>1 DEF SnapInv, SnapsInv, CountedOn
  <1>5. CoverInv'
    BY <1>1 DEF SnapInv, CoverInv, Active
  <1> QED BY <1>1, <1>2, <1>3, <1>4, <1>5, RunStep

LEMMA StopStep == ASSUME SnapInv, NEW i \in Instances, StopInstance(i) PROVE SnapInv'
PROOF
  <1>1. /\ up' = up \ {i} /\ job' = [job EXCEPT ![i] = [o \in Origins |-> Resting]]
        /\ spoilt' = spoilt \cup {job[i][o].due : o \in {p \in Origins : job[i][p] # Resting}}
        /\ UNCHANGED <<date, hits, born, snaps, visits, dawn, begun, covered>>
    BY DEF StopInstance
  <1>2. /\ \A o \in Origins : job'[i][o] = Resting
        /\ \A e \in Instances \ {i}, o \in Origins : job'[e][o] = job[e][o]
        /\ job' \in [Instances -> [Origins -> {Resting} \cup Runs]]
    BY <1>1 DEF SnapInv, JobType
  <1>3. \A o \in {p \in Origins : job[i][p] # Resting} : job[i][o].due \in Dates
    BY DEF SnapInv, JobType, Runs
  <1>4. CountType' /\ JobType' /\ Active' = Active /\ spoilt \subseteq spoilt'
    BY <1>1, <1>2, <1>3 DEF SnapInv, CountType, JobType, Active
  <1>5. DateInv' /\ StoppedInv' /\ CoverInv'
    BY <1>1, <1>2, <1>4 DEF SnapInv, DateInv, StoppedInv, CoverInv
  <1>6. SnapsInv'
    BY <1>1, <1>4 DEF SnapInv, SnapsInv, CountedOn
  <1>7. RunsInv'
    <2>1. ASSUME NEW e \in Instances, NEW o \in Origins, NEW r \in Runs, job'[e][o] = r
          PROVE  RunInv(r)'
      <3>1. r # Resting
        <4>1. r.step # "none"
          BY DEF Runs
        <4> QED BY <4>1 DEF Resting
      <3>2. RunInv(r)
        BY <1>2, <2>1, <3>1 DEF SnapInv, RunsInv
      <3> QED BY <1>1, <1>4, <3>2 DEF RunInv, CountedOn
    <2> QED BY <2>1 DEF RunsInv
  <1>8. BegunInv'
    <2>1. ASSUME NEW w \in Active, NEW d \in begun, born[w] < d, d \notin covered \cup spoilt'
          PROVE  Awaited(d)'
      <3>1. PICK e \in Instances, o \in Origins :
              job[e][o] # Resting /\ job[e][o].due = d /\ job[e][o].step # "clean"
        BY <1>4, <2>1 DEF SnapInv, BegunInv, Awaited
      <3>2. e # i
        BY <1>1, <2>1, <3>1
      <3> QED BY <1>2, <3>1, <3>2 DEF Awaited
    <2> QED BY <1>1, <1>4, <2>1 DEF BegunInv
  <1> QED BY <1>4, <1>5, <1>6, <1>7, <1>8 DEF SnapInv

LEMMA VisitStep == ASSUME SnapInv, NEW v \in Visitors, RecordVisit(v) PROVE SnapInv'
PROOF
  <1>1. /\ visits' = [visits EXCEPT ![date] = visits[date] \cup {v}]
        /\ UNCHANGED <<date, hits, born, snaps, up, job, dawn, begun, covered, spoilt>>
    BY DEF RecordVisit
  <1> QED BY <1>1 DEF SnapInv, CountType, JobType, StoppedInv, DateInv, Active, SnapsInv, CountedOn,
     RunsInv, RunInv, CoverInv, BegunInv, Awaited

LEMMA SnapStep == SnapInv /\ [StatNext]_statVars => SnapInv'
PROOF
  <1> SUFFICES ASSUME SnapInv, [StatNext]_statVars PROVE SnapInv'
    OBVIOUS
  <1>1. CASE SnapshotNext
    BY <1>1, ItemStep, HitStep, InstanceStep, StopStep, EnsureStep, DateStep, ReadStep,
       CreateSnapsStep, CleanupStep, RunFailsStep, MidnightStep DEF SnapshotNext
  <1>2. CASE VisitNext
    BY <1>2, MidnightStep, VisitStep DEF VisitNext
  <1>3. CASE UNCHANGED snapVars
    BY <1>3 DEF snapVars, SnapInv, CountType, JobType, StoppedInv, DateInv, Active, SnapsInv,
       CountedOn, RunsInv, RunInv, CoverInv, BegunInv, Awaited
  <1>4. CASE ActivityNext \/ UNCHANGED statVars
    <2>1. UNCHANGED snapVars
      BY <1>4 DEF ActivityNext, Tick, RecordUserActivity, UpdateLastActive, ActivityFails, statVars
    <2> QED BY <1>3, <2>1
  <1> QED BY <1>1, <1>2, <1>4 DEF StatNext
-----------------------------------------------------------------------------
(* Statistics: what the admin is told.                                      *)

LEMMA PopularIsCounted == SnapInv => PopularCountsPeriod
PROOF
  <1> SUFFICES ASSUME SnapInv, NEW w \in Active, date >= Period
               PROVE  LET from == date - Period IN
                        IF SnapshotOf(w, from) = {} THEN born[w] >= from \/ from \notin covered
                        ELSE /\ PopularScore(w) <= hits[w] - dawn[w][from]
                             /\ from \in spoilt \/ PopularScore(w) >= hits[w] - dawn[w][from + 1]
    BY DEF PopularCountsPeriod
  <1>1. Period \in Nat /\ 0 < Period /\ Period < Retention /\ Retention \in Nat
    BY StatisticsAssumption DEF StatisticsAssumption
  <1>2. PICK from \in Dates : from = date - Period /\ from + 1 \in Dates /\ from + Retention >= date
                              /\ ~ (date < from + 1) /\ from \in Nat
    BY <1>1, Numbers DEF SnapInv, CountType, Dates
  <1>3. w \in Items /\ born[w] \in Nat /\ hits[w] \in Nat /\ dawn[w][from] \in Nat
        /\ dawn[w][from + 1] \in Nat
    BY <1>2, Numbers DEF Active
  <1>4. CASE SnapshotOf(w, from) = {}
    <2>1. born[w] < from => from \notin covered
      BY <1>2, <1>4 DEF SnapInv, CoverInv, SnapshotOf
    <2> QED BY <1>2, <1>3, <1>4, <2>1
  <1>5. CASE SnapshotOf(w, from) # {}
    <2>1. PICK s : s = CHOOSE t \in SnapshotOf(w, from) : TRUE
      OBVIOUS
    <2>2. s \in snaps /\ s.of = w /\ s.snapshot_date = from
      BY <1>5, <2>1 DEF SnapshotOf
    <2>3. CountedOn(w, from, s.hits) /\ s.hits \in 0..MaxHits
      BY <2>2 DEF SnapInv, SnapsInv, JobType, SnapRows
    <2>4. PICK n \in Nat : n = s.hits /\ dawn[w][from] <= n /\ (from \in spoilt \/ n <= dawn[w][from + 1])
      BY <1>2, <2>3, Numbers DEF CountedOn
    <2>5. PopularScore(w) = hits[w] - n
      <3>1. ~ (date < Period)
        BY <1>1, Numbers
      <3> QED BY <1>2, <1>5, <2>1, <2>4, <3>1 DEF PopularScore
    <2>6. PopularScore(w) <= hits[w] - dawn[w][from]
          /\ (from \in spoilt \/ PopularScore(w) >= hits[w] - dawn[w][from + 1])
      BY <1>3, <2>4, <2>5
    <2> QED BY <1>2, <1>5, <2>6
  <1> QED BY <1>4, <1>5

LEMMA DaysAreTaken == SnapInv => SnapshotsAreTaken
PROOF
  <1> SUFFICES ASSUME SnapInv, NEW w \in Active, NEW d \in Dates, born[w] < d, d + Retention >= date
               PROVE  /\ d \in begun /\ ~ Pending(d) => d \in covered \cup spoilt
                      /\ d \in covered => SnapshotOf(w, d) # {}
    BY DEF SnapshotsAreTaken
  <1>1. Awaited(d) => Pending(d)
    BY DEF Awaited, Pending
  <1> QED BY <1>1 DEF SnapInv, BegunInv, CoverInv, SnapshotOf

LEMMA ClockLags == ClockInv => ActivityLags
PROOF
  BY DEF ClockInv, ActivityLags

\* The uploads of a week, day by day, are the prompts of the week.
LEMMA WeekAddsUp ==
  ASSUME SnapInv PROVE WeeklyCount = Cardinality({w \in Active : born[w] + Buckets > date})
PROOF
  <1> DEFINE I == 0..Buckets - 1
             ones == [w \in Active |-> 1]
             portion == [ago \in I |-> {w \in Active : born[w] + ago = date}]
             week == {w \in Active : born[w] + Buckets > date}
  <1>1. Buckets \in Nat /\ 0 < Buckets /\ IsFiniteSet(I)
    BY FS_Interval, StatisticsAssumption DEF StatisticsAssumption
  <1>2. IsFiniteSet(Active) /\ \A w \in Active : born[w] \in Nat /\ born[w] <= date /\ date \in Nat
    BY Numbers DEF SnapInv, DateInv, Active
  <1>3. \A i \in I : portion[i] \in SUBSET Active /\ IsFiniteSet(portion[i])
    BY <1>2, FS_Subset
  <1>4. \A i, j \in I : i # j => portion[i] \cap portion[j] = {}
    BY <1>1, <1>2
  <1>5. UNION {portion[i] : i \in I} = week
    <2>1. ASSUME NEW w \in Active PROVE (\E i \in I : born[w] + i = date) <=> born[w] + Buckets > date
      <3>1. born[w] \in Nat /\ date \in Nat /\ born[w] <= date
        BY <1>2
      <3>2. ASSUME NEW i \in I, born[w] + i = date PROVE born[w] + Buckets > date
        BY <1>1, <3>1, <3>2
      <3>3. ASSUME born[w] + Buckets > date PROVE \E i \in I : born[w] + i = date
        <4>1. date - born[w] \in I /\ born[w] + (date - born[w]) = date
          BY <1>1, <3>1, <3>3
        <4> QED BY <4>1
      <3> QED BY <3>2, <3>3
    <2> QED BY <2>1
  <1>6. \A i \in I : DailyUploads[i] = SumFunctionOnSet(ones, portion[i])
    <2>1. ASSUME NEW i \in I PROVE SumFunctionOnSet(ones, portion[i]) = Cardinality(portion[i])
      <3>1. \A y \in portion[i] : ones[y] = 1
        BY <1>3
      <3> HIDE DEF ones, portion
      <3> QED BY <1>3, <3>1, SumOnes
    <2>2. \A i \in I : DailyUploads[i] = Cardinality(portion[i])
      BY DEF DailyUploads
    <2> HIDE DEF ones, portion, I
    <2> QED BY <2>1, <2>2
  <1>7. \A y \in Active : ones[y] \in Int /\ ones[y] = 1
    OBVIOUS
  <1>8. WeeklyCount = SumFunctionOnSet(DailyUploads, I)
    BY DEF WeeklyCount
  <1>9. week \in SUBSET Active /\ IsFiniteSet(week)
    BY <1>2, FS_Subset
  <1> HIDE DEF ones, portion, I, week
  <1>10. SumFunctionOnSet(DailyUploads, I) = SumFunctionOnSet(ones, UNION {portion[i] : i \in I})
    <2>1. \A i \in I : portion[i] \in SUBSET Active
      BY <1>3
    <2>2. IsFiniteSet(Active) /\ \A y \in Active : ones[y] \in Int
      BY <1>2, <1>7
    <2> QED BY <1>1, <1>4, <1>6, <2>1, <2>2, SumParts
  <1>11. SumFunctionOnSet(ones, week) = Cardinality(week)
    BY <1>7, <1>9, SumOnes
  <1>12. WeeklyCount = Cardinality(week)
    BY <1>5, <1>8, <1>10, <1>11
  <1> QED BY <1>12 DEF week

LEMMA WindowsDoAbut == SnapInv => WindowsAbut
PROOF
  <1> SUFFICES ASSUME SnapInv PROVE WindowsAbut
    OBVIOUS
  <1>1. Window \in Nat /\ date \in Nat /\ Dates \subseteq Nat
    BY Numbers, StatisticsAssumption DEF StatisticsAssumption
  <1>2. ASSUME NEW d \in Dates
        PROVE  /\ d \in CurrentDates <=> date + Window <= d + 2 * Window /\ d < date
               /\ d \in PreviousDates <=> date <= d + 2 * Window /\ d + 2 * Window < date + Window
    <2>1. d \in Nat
      BY <1>1
    <2> QED BY <1>1, <2>1 DEF CurrentDates, PreviousDates, DateRange
  <1>3. ASSUME NEW d \in Dates
        PROVE  /\ ~ (d \in CurrentDates /\ d \in PreviousDates)
               /\ d \in CurrentDates \/ d \in PreviousDates <=> d < date /\ d + 2 * Window >= date
    <2>1. d \in Nat
      BY <1>1
    <2> QED BY <1>1, <1>2, <2>1
  <1>4. CurrentDates \subseteq Dates /\ PreviousDates \subseteq Dates
    BY DEF CurrentDates, PreviousDates, DateRange
  <1> QED BY <1>3, <1>4, WeekAddsUp DEF WindowsAbut

LEMMA SnapTypes == SnapInv /\ ClockInv => StatTypeOK
PROOF
  BY DEF SnapInv, CountType, JobType, SnapRows, Kept, Runs, ClockInv, ClockType, StatTypeOK

LEMMA StatAlways == StatSpec => [](SnapInv /\ ClockInv)
PROOF
  BY SnapInit, ClockInit, SnapStep, ClockStep, PTL DEF StatSpec
-----------------------------------------------------------------------------
(* Lists.                                                                   *)

PageRecords ==
  [open : {TRUE}, unread : BOOLEAN, next : 0..MaxPosts + 2, seen : SUBSET (1..MaxPosts),
   due : SUBSET (1..MaxPosts), slips : Nat, cut : BOOLEAN, done : BOOLEAN]

ListRows == [id : 1..MaxPosts, shown : BOOLEAN, read : BOOLEAN]

\* Rows have numbers of their own; most lists hide none.
RowsInv ==
  /\ list \in ByCursor \cup ByPage \cup ById \cup Sorted
  /\ rows \subseteq ListRows /\ posted \in 0..MaxPosts
  /\ \A r \in rows : r.id <= posted
  /\ \A r, s \in rows : r.id = s.id => r = s
  /\ list \in {"reports", "reviews", "mine", "search", "sorted"} => \A r \in rows : r.shown

\* What somebody has scrolled past, what he is still to be shown, and what has
\* moved up to the pages before his next one.
Passed(i)  == \E n \in pages.seen : n <= i
Still      == pages.due \cap Matching(pages.unread)
Overtaken  == LatestOf(Matching(pages.unread), (pages.next - 1) * PageSize)
Missed     == {i \in Still \ pages.seen : Passed(i)}
                \cup {i \in Overtaken : list \in ByPage /\ ~ Passed(i)}

\* A page by number begins after the pages before, one by cursor or id after the
\* last row seen; a page sorted otherwise anywhere.
PlaceInv ==
  IF list \in ByPage
    THEN /\ pages.next >= 1
         /\ ~ pages.done => pages.next <= MaxPosts + 1 /\ (pages.next = 1 \/ pages.seen # {})
  ELSE IF list \in Sorted
    THEN pages.next >= 1 /\ (~ pages.done => pages.next <= MaxPosts + 1)
    ELSE /\ pages.next <= MaxPosts
         /\ ~ pages.done => IF pages.next = 0 THEN pages.seen = {}
                            ELSE pages.next \in pages.seen /\ \A n \in pages.seen : pages.next <= n

ReaderInv ==
  /\ pages \in PageRecords
  /\ pages.due \subseteq 1..posted /\ pages.seen \subseteq 1..posted
  /\ pages.unread => list = "messages"
  /\ PlaceInv
  /\ list \in Sorted => pages.cut
  /\ ~ pages.cut /\ ~ pages.done => Cardinality(Missed) <= pages.slips
  /\ ~ pages.cut /\ pages.done => Cardinality(Still \ pages.seen) <= pages.slips

ListInv == RowsInv /\ (pages = Closed \/ ReaderInv)

LEMMA ListInvTypes == ListInv => ListTypeOK
PROOF
  BY DEF ListInv, RowsInv, ListRows, ReaderInv, PageRecords, ListTypeOK

LEMMA ListInvMisses == ListInv => ListsMissNothing
PROOF
  <1>1. Closed.open = FALSE
    BY DEF Closed
  <1> QED BY <1>1 DEF ListInv, ReaderInv, Still, ListsMissNothing

LEMMA ListInitInv == ListInit => ListInv
PROOF
  BY ListsAssumption DEF ListsAssumption, ListInit, ListInv, RowsInv

LEMMA PostNumbers ==
  ASSUME RowsInv
  PROVE  /\ MaxPosts \in Nat /\ PageSize \in Nat /\ PageSize # 0 /\ posted \in Nat /\ posted <= MaxPosts
         /\ 1..posted \subseteq 0..MaxPosts /\ 1..MaxPosts \subseteq 0..MaxPosts
PROOF
  BY ListsAssumption DEF ListsAssumption, RowsInv

LEMMA InMatching ==
  ASSUME NEW u, NEW i
  PROVE  /\ i \in Matching(u) <=> \E r \in rows : r.id = i /\ r.shown /\ (u => ~ r.read)
         /\ i \in Ids <=> \E r \in rows : r.id = i
PROOF
  BY DEF Matching, Ids

LEMMA IdsInside ==
  ASSUME RowsInv
  PROVE  /\ Ids \in SUBSET (0..MaxPosts) /\ Ids \subseteq 1..posted
         /\ \A u : Matching(u) \subseteq Ids /\ Matching(u) \in SUBSET (0..MaxPosts)
PROOF
  <1>1. \A r \in rows : r.id \in 1..posted
    BY PostNumbers DEF RowsInv, ListRows
  <1>2. Ids \subseteq 1..posted
    BY <1>1 DEF Ids
  <1>3. \A u : Matching(u) \subseteq Ids
    BY DEF Matching, Ids
  <1> QED BY <1>2, <1>3, PostNumbers

\* Where no row is hidden and nobody asks for unread ones, all of them match.
LEMMA AllMatch ==
  ASSUME RowsInv, NEW u \in BOOLEAN, ~ u, list \in {"reports", "reviews", "mine", "search", "sorted"}
  PROVE  Matching(u) = Ids
PROOF
  BY DEF RowsInv, Matching, Ids

LEMMA RowIs == ASSUME NEW id \in Ids PROVE Row(id) \in rows /\ Row(id).id = id
PROOF
  <1>1. \E r \in rows : r.id = id
    BY DEF Ids
  <1> QED BY <1>1 DEF Row

LEMMA Finite ==
  ASSUME RowsInv, ReaderInv
  PROVE  /\ Still \subseteq pages.due /\ IsFiniteSet(Still) /\ IsFiniteSet(Still \ pages.seen)
         /\ IsFiniteSet(Missed) /\ Cardinality(Missed) \in Nat /\ pages.slips \in Nat
         /\ Cardinality(Still \ pages.seen) \in Nat
         /\ Still \subseteq Matching(pages.unread)
         /\ pages.next \in Nat /\ pages.seen \subseteq Nat
PROOF
  <1>1. Still \subseteq 0..MaxPosts /\ Matching(pages.unread) \subseteq 0..MaxPosts
    BY IdsInside DEF Still
  <1>2. Missed \subseteq 0..MaxPosts
    BY <1>1 DEF Missed, Overtaken, LatestOf
  <1>3. IsFiniteSet(0..MaxPosts)
    BY PostNumbers, FS_Interval
  <1>4. IsFiniteSet(Still) /\ IsFiniteSet(Still \ pages.seen) /\ IsFiniteSet(Missed)
    BY <1>1, <1>2, <1>3, FS_Subset
  <1>5. pages.slips \in Nat /\ pages.next \in Nat /\ pages.seen \subseteq Nat
    BY PostNumbers DEF ReaderInv, PageRecords
  <1> QED BY <1>4, <1>5, FS_CardinalityType DEF Still
-----------------------------------------------------------------------------
(* Lists: rows come and go.                                                 *)

\* A step of the rows that takes matches away or adds later ones.
LEMMA RowsStep ==
  ASSUME ListInv, RowsInv', posted <= posted', UNCHANGED list,
         pages' = pages \/ (pages # Closed /\ pages' = [pages EXCEPT !.slips = pages.slips + 1]),
         pages # Closed => Still' \subseteq Still,
         pages # Closed /\ ~ pages.cut /\ ~ pages.done => Cardinality(Missed') <= pages'.slips
  PROVE  ListInv'
PROOF
  <1>1. CASE pages = Closed
    BY <1>1 DEF ListInv
  <1>2. CASE pages # Closed
    <2>1. RowsInv /\ ReaderInv
      BY <1>2 DEF ListInv
    <2>2. /\ pages' \in PageRecords /\ pages.slips <= pages'.slips
          /\ pages'.due = pages.due /\ pages'.seen = pages.seen /\ pages'.unread = pages.unread
          /\ pages'.next = pages.next /\ pages'.cut = pages.cut /\ pages'.done = pages.done
      <3>1. pages \in PageRecords /\ pages.slips \in Nat
        BY <2>1 DEF ReaderInv, PageRecords
      <3>2. CASE pages' = pages
        BY <3>1, <3>2
      <3>3. CASE pages' = [pages EXCEPT !.slips = pages.slips + 1]
        <4>1. pages.slips + 1 \in Nat /\ pages.slips <= pages.slips + 1
          BY <3>1
        <4>2. pages' \in PageRecords
          BY <3>1, <3>3, <4>1 DEF PageRecords
        <4> QED BY <3>1, <3>3, <4>1, <4>2 DEF PageRecords
      <3> QED BY <3>2, <3>3
    <2>3. 1..posted \subseteq 1..posted'
      BY <2>1, PostNumbers DEF RowsInv
    <2>4. PlaceInv'
      BY <2>1, <2>2 DEF ReaderInv, PlaceInv
    <2>5. ~ pages.cut /\ pages.done => Cardinality(Still' \ pages.seen) <= pages'.slips
      <3>1. Still' \ pages.seen \subseteq Still \ pages.seen
        BY <1>2
      <3>2. Cardinality(Still' \ pages.seen) <= Cardinality(Still \ pages.seen)
            /\ Cardinality(Still' \ pages.seen) \in Nat
        BY <2>1, <3>1, Finite, FS_Subset, FS_CardinalityType
      <3>3. pages'.slips \in Nat
        BY <2>2 DEF PageRecords
      <3> QED BY <2>1, <2>2, <3>2, <3>3, Finite DEF ReaderInv
    <2>6. (pages'.unread => list' = "messages") /\ (list' \in Sorted => pages'.cut) /\ pages'.due \subseteq 1..posted'
          /\ pages'.seen \subseteq 1..posted'
      BY <2>1, <2>2, <2>3 DEF ReaderInv
    <2>7. ReaderInv'
      BY <1>2, <2>2, <2>4, <2>5, <2>6 DEF ReaderInv
    <2> QED BY <2>7 DEF ListInv
  <1> QED BY <1>1, <1>2

\* Without a number to go by, less to be shown is less to be missed.
LEMMA FewerMissed ==
  ASSUME RowsInv, ReaderInv, UNCHANGED <<list, pages>>, Still' \subseteq Still,
         list \in ByPage => {i \in Overtaken' : ~ Passed(i)} \subseteq Overtaken,
         ~ pages.cut, ~ pages.done
  PROVE  Cardinality(Missed') <= pages'.slips
PROOF
  <1>1. Missed' \subseteq Missed
    BY DEF Missed, Passed
  <1>2. Cardinality(Missed') <= Cardinality(Missed) /\ Cardinality(Missed') \in Nat
    BY <1>1, Finite, FS_Subset, FS_CardinalityType
  <1> QED BY <1>2, Finite DEF ReaderInv

LEMMA PostStep == ASSUME ListInv, Post, UNCHANGED list PROVE ListInv'
PROOF
  <1>1. /\ posted < MaxPosts /\ posted' = posted + 1 /\ pages' = pages
        /\ rows' = rows \cup {[id |-> posted + 1, shown |-> TRUE, read |-> FALSE]}
    BY DEF Post
  <1>2. PICK new : new = [id |-> posted + 1, shown |-> TRUE, read |-> FALSE]
    OBVIOUS
  <1>3. RowsInv /\ posted \in Nat /\ posted + 1 \in 1..MaxPosts /\ posted' \in 0..MaxPosts
        /\ posted <= posted' /\ 1..posted \subseteq 1..posted + 1
    BY <1>1, PostNumbers DEF ListInv
  <1>4. new.id = posted + 1 /\ new.shown = TRUE /\ new.read = FALSE
    BY <1>2
  <1>5. RowsInv'
    <2>1. new \in ListRows
      BY <1>2, <1>3 DEF ListRows
    <2>2. \A r \in rows : r.id # new.id /\ r.id <= posted'
      BY <1>1, <1>3, <1>4 DEF RowsInv, ListRows
    <2>3. rows' = rows \cup {new}
      BY <1>1, <1>2
    <2>4. rows' \subseteq ListRows /\ (\A r \in rows' : r.id <= posted')
      BY <1>1, <1>3, <1>4, <2>1, <2>2, <2>3 DEF RowsInv
    <2>5. \A r, s \in rows' : r.id = s.id => r = s
      BY <1>3, <2>2, <2>3 DEF RowsInv
    <2>6. list \in {"reports", "reviews", "mine", "search", "sorted"} => \A r \in rows' : r.shown
      BY <1>3, <1>4, <2>3 DEF RowsInv
    <2> QED BY <1>3, <2>4, <2>5, <2>6 DEF RowsInv
  <1>6. \A u : Matching(u)' = Matching(u) \cup {posted + 1}
    <2>1. rows' = rows \cup {new}
      BY <1>1, <1>2
    <2> QED BY <1>4, <2>1 DEF Matching
  <1>7. CASE pages = Closed
    BY <1>1, <1>3, <1>5, <1>7, RowsStep
  <1>8. CASE pages # Closed
    <2>1. ReaderInv
      BY <1>8 DEF ListInv
    <2>2. posted + 1 \notin pages.due
      BY <1>3, <2>1 DEF ReaderInv
    <2>3. Still' \subseteq Still
      BY <1>1, <1>6, <2>2 DEF Still
    <2>4. ASSUME list \in ByPage, ~ pages.done
          PROVE  {i \in Overtaken' : ~ Passed(i)} \subseteq Overtaken
      <3> DEFINE S == Matching(pages.unread)
                 k == (pages.next - 1) * PageSize
                 T == Matching(pages.unread)'
      <3>1. T = S \cup {posted + 1} /\ T \in SUBSET (0..MaxPosts)
        BY <1>1, <1>3, <1>6, IdsInside
      <3>2. k \in Nat /\ (pages.next = 1 => k = 0)
        <4>1. pages.next - 1 \in Nat /\ PageSize \in Nat /\ (pages.next = 1 => pages.next - 1 = 0)
          BY <1>3, <2>1, <2>4, Finite, PostNumbers DEF ReaderInv, PlaceInv
        <4>2. \A m \in Nat : m * PageSize \in Nat /\ 0 * PageSize = 0
          BY <4>1
        <4> QED BY <4>1, <4>2
      <3>3. Overtaken' = LatestOf(T, k) /\ Overtaken = LatestOf(S, k)
        BY <1>1 DEF Overtaken
      <3> HIDE DEF S, T, k
      <3>4. LatestOf(T, k) \cap S \subseteq LatestOf(S, k) /\ LatestOf(T, k) \subseteq T
        <4>1. S \in SUBSET T /\ MaxPosts \in Nat /\ k \in Nat
          BY <1>3, <3>1, <3>2, PostNumbers
        <4>2. T \in SUBSET (0..MaxPosts)
          BY <3>1
        <4> QED BY <4>1, <4>2, LatestAmongMore, LatestRows
      <3>5. ASSUME posted + 1 \in LatestOf(T, k) PROVE Passed(posted + 1)
        <4>1. k # 0
          <5>1. SUFFICES ASSUME k = 0 PROVE FALSE
            OBVIOUS
          <5>2. MaxPosts \in Nat
            BY <1>3, PostNumbers
          <5>3. T \in SUBSET (0..MaxPosts)
            BY <3>1
          <5>4. Cardinality(Before(T, posted + 1)) \in Nat
            BY <5>2, <5>3, NumbersBelow
          <5>5. Cardinality(Before(T, posted + 1)) < 0
            BY <3>5, <5>1 DEF LatestOf
          <5> QED BY <5>4, <5>5
        <4>2. PICK n \in pages.seen : TRUE
          BY <2>1, <2>4, <3>2, <4>1 DEF ReaderInv, PlaceInv
        <4>3. n \in 1..posted
          BY <2>1 DEF ReaderInv
        <4> QED BY <1>3, <4>3 DEF Passed
      <3> QED BY <3>1, <3>3, <3>4, <3>5
    <2> QED BY <1>1, <1>3, <1>5, <2>1, <2>3, <2>4, RowsStep, FewerMissed
  <1> QED BY <1>7, <1>8

\* A row that leaves one of the pages before the next lets one other row move
\* there, unless somebody has passed it, which a slip counts.
LEMMA LeaveStep ==
  ASSUME ListInv, RowsInv', UNCHANGED <<list, posted>>, NEW id,
         pages' = IF Behind(id) THEN [pages EXCEPT !.slips = @ + 1] ELSE pages,
         \A u : Matching(u)' \subseteq Matching(u),
         list \in ByPage => \A u : Matching(u)' = Matching(u) \ {id}
  PROVE  ListInv'
PROOF
  <1>1. posted \in Nat /\ posted <= posted' /\ RowsInv
    BY PostNumbers DEF ListInv
  <1>2. CASE pages = Closed
    <2>1. pages' = pages
      BY <1>2 DEF Behind, Closed
    <2> QED BY <1>1, <1>2, <2>1, RowsStep
  <1>3. CASE pages # Closed
    <2>1. ReaderInv
      BY <1>3 DEF ListInv
    <2>2. pages.open
      BY <2>1 DEF ReaderInv, PageRecords
    <2>3. /\ pages' = pages \/ pages' = [pages EXCEPT !.slips = pages.slips + 1]
          /\ pages'.due = pages.due /\ pages'.seen = pages.seen /\ pages'.unread = pages.unread
          /\ pages'.next = pages.next
          /\ pages'.slips = IF Behind(id) THEN pages.slips + 1 ELSE pages.slips
      BY <2>1 DEF ReaderInv, PageRecords
    <2>4. Still' \subseteq Still
      BY <2>3 DEF Still
    <2>5. \A i : Passed(i)' <=> Passed(i)
      BY <2>3 DEF Passed
    <2>6. ASSUME ~ pages.cut, ~ pages.done PROVE Cardinality(Missed') <= pages'.slips
      <3>1. Cardinality(Missed) <= pages.slips /\ Cardinality(Missed) \in Nat /\ pages.slips \in Nat
            /\ IsFiniteSet(Missed)
        BY <1>1, <2>1, <2>6, Finite DEF ReaderInv
      <3>2. CASE list \notin ByPage
        <4>1. Missed' \subseteq Missed
          BY <2>3, <2>4, <2>5, <3>2 DEF Missed
        <4>2. Cardinality(Missed') <= Cardinality(Missed) /\ Cardinality(Missed') \in Nat
          BY <3>1, <4>1, FS_Subset, FS_CardinalityType
        <4> QED BY <2>3, <3>1, <3>2, <4>2 DEF Behind
      <3>3. CASE list \in ByPage
        <4> DEFINE S == Matching(pages.unread)
                   k == (pages.next - 1) * PageSize
        <4>1. Matching(pages.unread)' = S \ {id} /\ S \in SUBSET (0..MaxPosts)
          BY <1>1, <2>3, <3>3, IdsInside
        <4>2. k \in Nat
          <5>1. pages.next - 1 \in Nat /\ PageSize \in Nat
            BY <1>1, <2>1, <3>3, Finite, PostNumbers DEF ReaderInv, PlaceInv
          <5>2. \A m \in Nat : m * PageSize \in Nat
            BY <5>1
          <5> QED BY <5>1, <5>2
        <4>3. Overtaken' = LatestOf(S \ {id}, k) /\ Overtaken = LatestOf(S, k)
          BY <2>3, <4>1 DEF Overtaken
        <4>4. Behind(id) <=> Passed(id)
          BY <2>2, <2>6, <3>3 DEF Behind, Passed
        <4> HIDE DEF S, k
        <4>5. S \in SUBSET (0..MaxPosts) /\ MaxPosts \in Nat
          BY <1>1, <4>1, PostNumbers
        <4>6. PICK x : LatestOf(S \ {id}, k) \subseteq (LatestOf(S, k) \ {id}) \cup {x}
          BY <4>2, <4>5, LatestWithout
        <4>7. Overtaken' \subseteq (Overtaken \ {id}) \cup {x}
          BY <4>3, <4>6
        <4>8. id \notin Overtaken => Overtaken' \subseteq Overtaken
          BY <4>2, <4>3, <4>5, LatestWithout
        <4>9. id \notin Still'
          BY <2>3, <4>1 DEF Still
        <4>10. CASE Passed(id)
          <5>1. Missed' \subseteq Missed \cup {x}
            BY <2>3, <2>4, <2>5, <4>7 DEF Missed
          <5>2. Cardinality(Missed') <= Cardinality(Missed) + 1 /\ Cardinality(Missed') \in Nat
            BY <3>1, <5>1, CountOneMore
          <5> QED BY <2>3, <3>1, <4>4, <4>10, <5>2
        <4>11. CASE ~ Passed(id) /\ id \notin Overtaken
          <5>1. Missed' \subseteq Missed
            BY <2>3, <2>4, <2>5, <4>8, <4>11 DEF Missed
          <5>2. Cardinality(Missed') <= Cardinality(Missed) /\ Cardinality(Missed') \in Nat
            BY <3>1, <5>1, FS_Subset, FS_CardinalityType
          <5> QED BY <2>3, <3>1, <4>4, <4>11, <5>2
        <4>12. CASE ~ Passed(id) /\ id \in Overtaken
          <5>1. id \in Missed
            BY <3>3, <4>12 DEF Missed
          <5>2. Missed' \subseteq (Missed \ {id}) \cup {x}
            BY <2>3, <2>4, <2>5, <4>7, <4>9 DEF Missed
          <5>3. IsFiniteSet(Missed \ {id}) /\ Cardinality(Missed \ {id}) = Cardinality(Missed) - 1
            BY <3>1, <5>1, FS_RemoveElement
          <5>4. Cardinality(Missed') <= Cardinality(Missed \ {id}) + 1 /\ Cardinality(Missed') \in Nat
            BY <5>2, <5>3, CountOneMore
          <5> QED BY <2>3, <3>1, <4>4, <4>12, <5>3, <5>4
        <4> QED BY <4>10, <4>11, <4>12
      <3> QED BY <3>2, <3>3
    <2> QED BY <1>1, <1>3, <2>3, <2>4, <2>6, RowsStep
  <1> QED BY <1>2, <1>3

\* A row that changes keeps its number.
LEMMA ChangeRow ==
  ASSUME RowsInv, NEW id \in Ids, NEW new \in ListRows, new.id = id, Change(id, new),
         list \in {"reports", "reviews", "mine", "search", "sorted"} => new.shown
  PROVE  /\ RowsInv'
         /\ \A u, i : i # id => (i \in Matching(u)' <=> i \in Matching(u))
         /\ \A u : id \in Matching(u)' <=> new.shown /\ (u => ~ new.read)
PROOF
  <1> DEFINE old == Row(id)
  <1>1. old \in rows /\ old.id = id
    BY RowIs
  <1> HIDE DEF old
  <1>2. rows' = (rows \ {old}) \cup {new} /\ UNCHANGED <<list, posted>>
    BY DEF Change, old
  <1>3. \A r \in rows : r.id = id => r = old
    BY <1>1 DEF RowsInv
  <1>4. rows' \subseteq ListRows /\ \A r \in rows' : r.id <= posted'
    BY <1>1, <1>2 DEF RowsInv
  <1>5. \A r, s \in rows' : r.id = s.id => r = s
    BY <1>2, <1>3 DEF RowsInv
  <1>6. list' \in {"reports", "reviews", "mine", "search", "sorted"} => \A r \in rows' : r.shown
    BY <1>2 DEF RowsInv
  <1>7. RowsInv'
    BY <1>2, <1>4, <1>5, <1>6 DEF RowsInv
  <1>8. ASSUME NEW u, NEW i, i # id PROVE i \in Matching(u)' <=> i \in Matching(u)
    <2>1. \A r : r.id = i => (r \in rows' <=> r \in rows)
      BY <1>1, <1>2, <1>8
    <2> QED BY <2>1 DEF Matching
  <1>9. ASSUME NEW u PROVE id \in Matching(u)' <=> new.shown /\ (u => ~ new.read)
    <2>1. \A r \in rows' : r.id = id <=> r = new
      BY <1>2, <1>3
    <2>2. new \in rows'
      BY <1>2
    <2> QED BY <2>1, <2>2 DEF Matching
  <1> QED BY <1>7, <1>8, <1>9

LEMMA HideStep ==
  ASSUME ListInv, NEW id, Hide(id), list \notin {"reports", "reviews", "mine", "search", "sorted"}
  PROVE  ListInv'
PROOF
  <1> DEFINE new == [Row(id) EXCEPT !.shown = FALSE]
  <1>1. Change(id, new) /\ Slip(id) /\ id \in Ids /\ RowsInv /\ UNCHANGED <<list, posted>>
    BY DEF Hide, Change, ListInv
  <1>2. Row(id) \in ListRows /\ Row(id).id = id
    BY <1>1, RowIs DEF RowsInv
  <1>3. new \in ListRows /\ new.id = id /\ new.shown = FALSE
    BY <1>2 DEF ListRows
  <1> HIDE DEF new
  <1>4. RowsInv' /\ \A u, i : i \in Matching(u)' <=> i \in Matching(u) /\ i # id
    BY <1>1, <1>3, ChangeRow
  <1>5. \A u : Matching(u)' = Matching(u) \ {id} /\ Matching(u)' \subseteq Matching(u)
    BY <1>4
  <1>6. pages' = IF Behind(id) THEN [pages EXCEPT !.slips = @ + 1] ELSE pages
    BY <1>1 DEF Slip
  <1> QED BY <1>1, <1>4, <1>5, <1>6, LeaveStep

LEMMA DeleteRowStep == ASSUME ListInv, NEW id, DeleteRow(id) PROVE ListInv'
PROOF
  <1> DEFINE old == Row(id)
  <1>1. /\ id \in Ids /\ rows' = rows \ {old} /\ RowsInv /\ UNCHANGED <<list, posted>>
        /\ pages' = IF Behind(id) THEN [pages EXCEPT !.slips = @ + 1] ELSE pages
    BY DEF DeleteRow, Slip, ListInv
  <1>2. old \in rows /\ old.id = id
    BY <1>1, RowIs
  <1> HIDE DEF old
  <1>3. \A r \in rows : r.id = id => r = old
    BY <1>1, <1>2 DEF RowsInv
  <1>4. RowsInv'
    BY <1>1 DEF RowsInv
  <1>5. ASSUME NEW u PROVE Matching(u)' = Matching(u) \ {id}
    <2>1. \A r : r \in rows' <=> r \in rows /\ r.id # id
      BY <1>1, <1>2, <1>3
    <2> QED BY <2>1 DEF Matching
  <1>6. \A u : Matching(u)' = Matching(u) \ {id} /\ Matching(u)' \subseteq Matching(u)
    BY <1>5
  <1> QED BY <1>1, <1>4, <1>6, LeaveStep

LEMMA MarkStep ==
  ASSUME ListInv, NEW id \in Ids, MarkRead(id), list \notin ByPage
  PROVE  ListInv'
PROOF
  <1> DEFINE new == [Row(id) EXCEPT !.read = TRUE]
  <1>1. Change(id, new) /\ pages' = pages /\ RowsInv /\ UNCHANGED <<list, posted>>
    BY DEF MarkRead, Change, ListInv
  <1>2. Row(id) \in ListRows /\ Row(id) \in rows /\ Row(id).id = id
    BY <1>1, RowIs DEF RowsInv
  <1>3. new \in ListRows /\ new.id = id /\ new.shown = Row(id).shown /\ new.read = TRUE
    BY <1>2 DEF ListRows
  <1>4. list \in {"reports", "reviews", "mine", "search", "sorted"} => new.shown
    BY <1>1, <1>2, <1>3 DEF RowsInv
  <1>5. \A u : new.shown /\ (u => ~ new.read) => id \in Matching(u)
    BY <1>2, <1>3, InMatching
  <1> HIDE DEF new
  <1>6. /\ RowsInv'
        /\ \A u, i : i # id => (i \in Matching(u)' <=> i \in Matching(u))
        /\ \A u : id \in Matching(u)' <=> new.shown /\ (u => ~ new.read)
    BY <1>1, <1>3, <1>4, ChangeRow
  <1>7. \A u : Matching(u)' \subseteq Matching(u)
    BY <1>5, <1>6
  <1>8. pages' = IF Behind(id) THEN [pages EXCEPT !.slips = @ + 1] ELSE pages
    BY <1>1 DEF Behind
  <1> QED BY <1>1, <1>6, <1>7, <1>8, LeaveStep

LEMMA QuietList == ASSUME ListInv, UNCHANGED listVars PROVE ListInv'
PROOF
  BY DEF ListInv, listVars, RowsInv, ReaderInv, PlaceInv, Missed, Still, Overtaken, Passed, Matching

LEMMA PatchStep == ASSUME ListInv, NEW id, Change(id, Row(id)), UNCHANGED pages PROVE ListInv'
PROOF
  <1>1. rows' = rows /\ UNCHANGED <<list, posted>>
    BY RowIs DEF Change
  <1> QED BY <1>1, QuietList DEF listVars
-----------------------------------------------------------------------------
(* Lists: somebody reads page after page.                                   *)

LEMMA OpenStep == ASSUME ListInv, NEW u \in BOOLEAN, OpenList(u) PROVE ListInv'
PROOF
  <1>1. /\ RowsInv /\ UNCHANGED <<list, rows, posted>> /\ (u => list = "messages")
        /\ pages' = [open |-> TRUE, unread |-> u, next |-> IF list \in ByPage \cup Sorted THEN 1 ELSE 0,
                     seen |-> {}, due |-> Matching(u), slips |-> 0, cut |-> list \in Sorted,
                     done |-> FALSE]
    BY DEF ListInv, OpenList
  <1>2. RowsInv'
    BY <1>1 DEF RowsInv
  <1>3. /\ Matching(u) \subseteq 1..posted /\ 1..posted \subseteq 1..MaxPosts
        /\ MaxPosts \in Nat /\ PageSize \in Nat /\ Matching(u) \in SUBSET (0..MaxPosts)
    BY <1>1, IdsInside, PostNumbers
  <1>4. /\ pages'.open = TRUE /\ pages'.unread = u /\ pages'.next = IF list \in ByPage \cup Sorted THEN 1 ELSE 0
        /\ pages'.seen = {} /\ pages'.due = Matching(u) /\ pages'.slips = 0
        /\ pages'.cut = (list \in Sorted) /\ pages'.done = FALSE
    BY <1>1
  <1>5. pages' \in PageRecords
    <2>1. (IF list \in ByPage \cup Sorted THEN 1 ELSE 0) \in 0..MaxPosts + 2
      BY <1>3
    <2> QED BY <1>1, <1>3, <2>1 DEF PageRecords
  <1>6. PlaceInv'
    BY <1>1, <1>3, <1>4 DEF PlaceInv
  <1>7. Missed' = {}
    <2>1. list \in ByPage => Overtaken' = LatestOf(Matching(u), 0)
      <3>1. (1 - 1) * PageSize = 0
        BY <1>3
      <3> QED BY <1>1, <1>4, <3>1 DEF Overtaken, Matching
    <2>2. LatestOf(Matching(u), 0) = {}
      <3>1. \A i \in Matching(u) : Cardinality(Before(Matching(u), i)) \in Nat
        BY <1>3, NumbersBelow
      <3> QED BY <3>1 DEF LatestOf
    <2> QED BY <1>1, <1>4, <2>1, <2>2 DEF Missed, Passed
  <1>8. Cardinality(Missed') = 0
    BY <1>7, FS_EmptySet
  <1>9. ReaderInv'
    <2>1. (pages'.unread => list' = "messages") /\ (list' \in Sorted => pages'.cut)
          /\ pages'.due \subseteq 1..posted' /\ pages'.seen \subseteq 1..posted'
      BY <1>1, <1>3, <1>4
    <2>2. Cardinality(Missed') <= pages'.slips /\ ~ pages'.done
      BY <1>4, <1>8
    <2> QED BY <1>5, <1>6, <2>1, <2>2 DEF ReaderInv
  <1> QED BY <1>2, <1>9 DEF ListInv

\* What a page by cursor leaves out, of the rows below its cursor.
Skipped(S) == {i \in Matching(pages.unread) \ S : pages.next = 0 \/ i < pages.next}

LEMMA ShowStep ==
  ASSUME ListInv, list \notin ByPage, list \notin Sorted, Reading, NEW S, S \subseteq Matching(pages.unread),
         \A i \in S : pages.next = 0 \/ i < pages.next,
         Show(LatestOf(S, Take)),
         ~ pages'.cut => \/ Skipped(S) = {}
                         \/ pages'.slips = pages.slips + 1 /\ \E x : Skipped(S) \subseteq {x}
  PROVE  ListInv'
PROOF
  <1> DEFINE found == LatestOf(S, Take)
             shown == LatestOf(found, PageSize)
             more  == Cardinality(found) > PageSize
             least == CHOOSE n \in shown : \A m \in shown : n <= m
  <1>1. /\ pages.open /\ ~ pages.done /\ UNCHANGED <<list, rows, posted>>
        /\ RowsInv /\ Closed.open = FALSE
    BY DEF Reading, ListInv, Closed
  <1>2. ReaderInv /\ pages \in PageRecords /\ PlaceInv
    BY <1>1 DEF ListInv, ReaderInv
  <1>3. RowsInv'
    BY <1>1 DEF RowsInv
  <1>4. /\ MaxPosts \in Nat /\ PageSize \in Nat /\ PageSize # 0 /\ Take \in Nat /\ Take = PageSize + 1
        /\ posted \in Nat
    BY <1>1, PostNumbers DEF Take
  <1>5. /\ Matching(pages.unread) \subseteq 1..posted /\ 1..posted \subseteq 1..MaxPosts
        /\ 1..posted \subseteq 0..MaxPosts
    BY <1>1, IdsInside, PostNumbers
  <1>6. S \in SUBSET (0..MaxPosts) /\ S \subseteq 1..posted
    BY <1>5
  <1>7. /\ pages'.open = TRUE /\ pages'.unread = pages.unread /\ pages'.due = pages.due
        /\ pages'.seen = pages.seen \cup shown /\ pages'.done = ~ more
        /\ pages'.next = IF more THEN least ELSE pages.next
        /\ (pages.cut => pages'.cut) /\ pages'.cut \in BOOLEAN
        /\ pages'.slips \in Nat /\ pages.slips <= pages'.slips
        /\ pages' = [pages EXCEPT !.seen = pages'.seen, !.next = pages'.next, !.done = pages'.done,
                                 !.slips = pages'.slips, !.cut = pages'.cut]
    <2>1. pages' = [pages EXCEPT
             !.seen  = pages.seen \cup shown,
             !.next  = IF more THEN least ELSE pages.next,
             !.done  = ~ more,
             !.slips = IF list \in ByCursor /\ pages.next \in Ids \ Matching(pages.unread)
                       THEN pages.slips + 1 ELSE pages.slips,
             !.cut   = pages.cut \/ (list \in ByCursor /\ pages.next \notin Ids \cup {0})]
      BY <1>2 DEF Show, PageRecords
    <2>2. pages.slips \in Nat /\ pages.slips + 1 \in Nat /\ pages.slips <= pages.slips + 1
          /\ pages.cut \in BOOLEAN
      BY <1>2 DEF PageRecords
    <2> HIDE DEF found, shown, more, least
    <2>3. /\ pages'.open = pages.open /\ pages'.unread = pages.unread /\ pages'.due = pages.due
          /\ pages'.seen = pages.seen \cup shown /\ pages'.done = ~ more
          /\ pages'.next = IF more THEN least ELSE pages.next
      BY <1>2, <2>1 DEF PageRecords
    <2>4. pages'.slips = IF list \in ByCursor /\ pages.next \in Ids \ Matching(pages.unread)
                         THEN pages.slips + 1 ELSE pages.slips
      BY <1>2, <2>1 DEF PageRecords
    <2>5. pages'.cut = (pages.cut \/ (list \in ByCursor /\ pages.next \notin Ids \cup {0}))
      BY <1>2, <2>1 DEF PageRecords
    <2>6. pages.slips \in Nat => pages'.slips \in Nat /\ pages.slips <= pages'.slips
      BY <2>2, <2>4
    <2>7. pages'.cut \in BOOLEAN /\ (pages.cut => pages'.cut)
      BY <2>2, <2>5
    <2>8. pages.open = TRUE
      BY <1>2 DEF PageRecords
    <2>9. pages' = [pages EXCEPT !.seen = pages'.seen, !.next = pages'.next, !.done = pages'.done,
                                !.slips = pages'.slips, !.cut = pages'.cut]
      BY <1>2, <2>1 DEF PageRecords
    <2> QED BY <2>2, <2>3, <2>6, <2>7, <2>8, <2>9
  <1>8. /\ found \subseteq S /\ \A i \in S \ found, j \in found : i < j
        /\ found # S => Cardinality(found) >= Take
        /\ Cardinality(found) \in Nat
    <2>1. Take \in Nat /\ MaxPosts \in Nat
      BY <1>4
    <2> QED BY <1>6, <2>1, LatestRows
  <1>9. found \in SUBSET (0..MaxPosts)
    BY <1>6, <1>8
  <1> HIDE DEF found
  <1>10. /\ shown \subseteq found /\ \A i \in found \ shown, j \in shown : i < j
         /\ Cardinality(found) <= PageSize => shown = found
         /\ found # {} => shown # {}
    <2>1. \A limit \in Nat : /\ LatestOf(found, limit) \subseteq found
                             /\ \A i \in found \ LatestOf(found, limit), j \in LatestOf(found, limit) : i < j
                             /\ limit # 0 => \A i \in found : \E j \in LatestOf(found, limit) : i <= j
                             /\ Cardinality(found) <= limit => LatestOf(found, limit) = found
      BY <1>4, <1>9, LatestRows
    <2> QED BY <1>4, <2>1
  <1> HIDE DEF shown
  <1>11. shown \subseteq 1..posted
    BY <1>6, <1>8, <1>10
  <1>12. ASSUME more PROVE least \in shown /\ \A m \in shown : least <= m
    <2>1. found # {}
      BY <1>4, <1>12, FS_EmptySet
    <2>2. shown # {} /\ shown \subseteq Nat
      BY <1>4, <1>10, <1>11, <2>1
    <2>3. \E n \in shown : \A m \in shown : n <= m
      BY <2>2, SmallestOf
    <2> QED BY <2>3
  <1> HIDE DEF least
  <1>13. \A i \in S \ shown : more /\ i < least
    <2>1. more \/ (found = S /\ shown = found)
      BY <1>4, <1>8, <1>10
    <2>2. ASSUME more, NEW i \in S \ shown PROVE i < least
      BY <1>8, <1>10, <1>12, <2>2
    <2> QED BY <2>1, <2>2
  <1> HIDE DEF more
  <1>14. more \in BOOLEAN /\ pages.next \in 0..MaxPosts
    BY <1>2, <1>4 DEF more, PlaceInv, PageRecords
  <1>15. pages'.next \in 0..MaxPosts
    BY <1>5, <1>7, <1>11, <1>12, <1>14
  <1>16. pages'.seen \subseteq 1..posted /\ pages.seen \subseteq 1..posted /\ pages.due \subseteq 1..posted
         /\ pages'.seen \subseteq 1..MaxPosts
    BY <1>2, <1>5, <1>7, <1>11 DEF ReaderInv
  <1>17. pages' \in PageRecords
    <2>1. pages'.next \in 0..MaxPosts + 2 /\ pages'.done \in BOOLEAN
      BY <1>4, <1>7, <1>14, <1>15
    <2> QED BY <1>2, <1>7, <1>16, <2>1 DEF PageRecords
  <1>18. PlaceInv'
    <2>1. ASSUME ~ pages'.done PROVE pages'.next # 0
      <3>1. pages'.next \in 1..posted
        BY <1>7, <1>11, <1>12, <2>1
      <3> QED BY <1>4, <3>1
    <2>2. ASSUME ~ pages'.done
          PROVE  pages'.next \in pages'.seen /\ \A n \in pages'.seen : pages'.next <= n
      <3>1. pages'.next = least /\ least \in shown /\ \A m \in shown : least <= m
        BY <1>7, <1>12, <2>2
      <3>2. CASE pages.next = 0
        <4>1. pages.seen = {}
          BY <1>1, <1>2, <3>2 DEF PlaceInv
        <4> QED BY <1>7, <3>1, <4>1
      <3>3. CASE pages.next # 0
        <4>1. \A n \in pages.seen : pages.next <= n
          BY <1>1, <1>2, <3>3 DEF PlaceInv
        <4>2. least < pages.next /\ least \in Nat
          BY <1>8, <1>10, <1>11, <3>1, <3>3
        <4>3. \A n \in pages.seen : least <= n
          BY <1>14, <1>16, <4>1, <4>2
        <4> QED BY <1>7, <3>1, <4>3
      <3> QED BY <3>2, <3>3
    <2> QED BY <1>1, <1>14, <1>15, <2>1, <2>2 DEF PlaceInv
  <1>19. ASSUME NEW i \in Still' \ pages'.seen, more => least <= i
         PROVE  i \in Missed \/ i \in Skipped(S)
    <2>1. i \in Still /\ i \notin pages.seen /\ i \notin shown /\ i \in Matching(pages.unread)
      BY <1>1, <1>7 DEF Still, Matching
    <2>2. i \in 1..posted
      BY <1>5, <2>1
    <2>3. i \notin S
      <3>1. SUFFICES ASSUME i \in S PROVE FALSE
        OBVIOUS
      <3>2. more /\ i < least /\ least <= i
        BY <1>13, <1>19, <2>1, <3>1
      <3>3. least \in 1..posted
        BY <1>11, <1>12, <3>2
      <3> QED BY <2>2, <3>2, <3>3
    <2>4. CASE pages.next = 0 \/ i < pages.next
      BY <2>1, <2>3, <2>4 DEF Skipped
    <2>5. CASE ~ (pages.next = 0 \/ i < pages.next)
      <3>1. pages.next \in pages.seen /\ pages.next <= i
        BY <1>1, <1>2, <1>14, <2>2, <2>5 DEF PlaceInv
      <3> QED BY <2>1, <3>1 DEF Missed, Passed
    <2> QED BY <2>4, <2>5
  <1>20. ASSUME NEW late, late \subseteq Still' \ pages'.seen, \A i \in late : more => least <= i, ~ pages'.cut
         PROVE  Cardinality(late) <= pages'.slips
    <2>1. late \subseteq Missed \cup Skipped(S)
      BY <1>19, <1>20
    <2>2. IsFiniteSet(Missed) /\ Cardinality(Missed) \in Nat /\ pages.slips \in Nat
          /\ Cardinality(Missed) <= pages.slips
      BY <1>1, <1>2, <1>7, <1>20, Finite DEF ReaderInv
    <2>3. CASE Skipped(S) = {}
      <3>1. late \subseteq Missed
        BY <2>1, <2>3
      <3>2. Cardinality(late) <= Cardinality(Missed) /\ Cardinality(late) \in Nat
        BY <2>2, <3>1, FS_Subset, FS_CardinalityType
      <3> QED BY <1>7, <2>2, <3>2
    <2>4. CASE pages'.slips = pages.slips + 1 /\ \E x : Skipped(S) \subseteq {x}
      <3>1. PICK x : Skipped(S) \subseteq {x}
        BY <2>4
      <3>2. late \subseteq Missed \cup {x}
        BY <2>1, <3>1
      <3>3. Cardinality(late) <= Cardinality(Missed) + 1 /\ Cardinality(late) \in Nat
        BY <2>2, <3>2, CountOneMore
      <3>4. pages'.slips = pages.slips + 1
        BY <2>4
      <3> QED BY <2>2, <3>3, <3>4
    <2> QED BY <1>20, <2>3, <2>4
  <1>21. ASSUME ~ pages'.cut, ~ pages'.done PROVE Cardinality(Missed') <= pages'.slips
    <2>1. Missed' \subseteq Still' \ pages'.seen
      BY <1>1 DEF Missed
    <2>2. \A i \in Missed' : more => least <= i
      <3>1. ASSUME NEW i \in Missed', more PROVE least <= i
        <4>1. PICK n \in pages'.seen : n <= i
          BY <1>1, <3>1 DEF Missed, Passed
        <4>2. pages'.next <= n /\ pages'.next = least
          BY <1>1, <1>7, <1>18, <1>21, <3>1, <4>1 DEF PlaceInv
        <4>3. i \in Nat /\ n \in Nat /\ least \in Nat
          <5>1. i \in 1..posted
            BY <1>1, <1>5, <1>7, <2>1 DEF Still, Matching
          <5> QED BY <1>15, <1>16, <4>2, <5>1
        <4> QED BY <4>1, <4>2, <4>3
      <3> QED BY <3>1
    <2> QED BY <1>20, <1>21, <2>1, <2>2
  <1>22. ASSUME ~ pages'.cut, pages'.done PROVE Cardinality(Still' \ pages'.seen) <= pages'.slips
    BY <1>7, <1>20, <1>22
  <1>23. (pages'.unread => list' = "messages") /\ pages'.due \subseteq 1..posted' /\ pages'.seen \subseteq 1..posted'
         /\ list' \notin Sorted
    BY <1>1, <1>2, <1>7, <1>16 DEF ReaderInv
  <1>24. ReaderInv'
    BY <1>17, <1>18, <1>21, <1>22, <1>23 DEF ReaderInv
  <1> QED BY <1>3, <1>24 DEF ListInv

LEMMA FromCursorStep ==
  ASSUME ListInv, list \in ByCursor, Reading, NEW U, U = Matching(pages.unread),
         Show(LatestOf(FromCursor(U, pages.next), Take))
  PROVE  ListInv'
PROOF
  <1> DEFINE S == FromCursor(U, pages.next)
  <1>1. RowsInv /\ ReaderInv /\ pages \in PageRecords /\ list \notin ByPage
        /\ list \notin Sorted
    BY DEF Reading, ListInv, Closed, ReaderInv, ByCursor, ByPage, Sorted
  <1>2. /\ MaxPosts \in Nat /\ pages.next \in Nat /\ U \subseteq Ids
        /\ U \in SUBSET (0..MaxPosts) /\ U \subseteq Nat
    BY <1>1, PostNumbers, IdsInside, NumbersBelow DEF PageRecords
  <1>3. S \subseteq U
    BY DEF FromCursor
  <1>4. ASSUME NEW i \in S PROVE pages.next = 0 \/ i < pages.next
    <2>1. CASE pages.next # 0
      <3>1. PICK m \in U : i < m /\ m <= pages.next
        BY <1>4, <2>1 DEF FromCursor
      <3>2. i \in Nat /\ m \in Nat
        BY <1>2, <1>3
      <3> QED BY <1>2, <3>1, <3>2
    <2> QED BY <2>1
  <1>5. /\ pages'.slips = IF pages.next \in Ids \ U THEN pages.slips + 1 ELSE pages.slips
        /\ ~ pages'.cut => pages.next \in Ids \cup {0}
    BY <1>1 DEF Show, PageRecords
  <1>6. ASSUME ~ pages'.cut
        PROVE  Skipped(S) = {} \/ (pages'.slips = pages.slips + 1 /\ \E x : Skipped(S) \subseteq {x})
    <2>1. CASE pages.next = 0
      BY <2>1 DEF Skipped, FromCursor
    <2>2. CASE pages.next # 0 /\ pages.next \in U
      <3>1. \A i \in U : i < pages.next => i \in S
        BY <1>2, <2>2 DEF FromCursor
      <3> HIDE DEF S
      <3> QED BY <2>2, <3>1 DEF Skipped
    <2>3. CASE pages.next # 0 /\ pages.next \in Ids \ U
      <3> DEFINE below == {i \in U : i < pages.next}
      <3>1. Skipped(S) \subseteq below
        BY <2>3 DEF Skipped
      <3>2. CASE below = {}
        BY <3>1, <3>2
      <3>3. CASE below # {}
        <4>1. PICK x \in below : \A i \in below : i <= x
          <5>1. below \in SUBSET (0..MaxPosts)
            BY <1>2
          <5> HIDE DEF below
          <5> QED BY <1>2, <3>3, <5>1, GreatestOf
        <4>2. ASSUME NEW i \in below, i # x PROVE i \in S
          <5>1. i < x /\ x <= pages.next /\ x \in U /\ i \in U
            BY <1>2, <4>1, <4>2
          <5> QED BY <2>3, <5>1 DEF FromCursor
        <4>3. Skipped(S) \subseteq {x}
          BY <3>1, <4>2 DEF Skipped
        <4>4. pages'.slips = pages.slips + 1
          BY <1>5, <2>3
        <4> QED BY <4>3, <4>4
      <3> QED BY <3>2, <3>3
    <2> QED BY <1>2, <1>5, <1>6, <2>1, <2>2, <2>3
  <1>7. Show(LatestOf(S, Take)) /\ S \subseteq Matching(pages.unread)
    BY <1>3
  <1> HIDE DEF S
  <1> QED BY <1>1, <1>4, <1>6, <1>7, ShowStep

LEMMA BelowCursorStep ==
  ASSUME ListInv, list \in ById, Reading, Show(BelowCursor(Ids, pages.next))
  PROVE  ListInv'
PROOF
  <1> DEFINE S == Older(Ids, pages.next)
  <1>1. RowsInv /\ ReaderInv /\ pages \in PageRecords /\ list \notin ByPage
        /\ list \notin Sorted
    BY DEF Reading, ListInv, Closed, ReaderInv, ById, ByPage, Sorted
  <1>2. ~ pages.unread /\ pages.unread \in BOOLEAN /\ list \in {"reports", "reviews", "mine", "search", "sorted"}
    BY <1>1 DEF ReaderInv, PageRecords, ById
  <1>3. Matching(pages.unread) = Ids
    BY <1>1, <1>2, AllMatch
  <1>4. /\ S \subseteq Matching(pages.unread)
        /\ \A i \in S : pages.next = 0 \/ i < pages.next
        /\ Skipped(S) = {}
    BY <1>3 DEF Older, Skipped
  <1>5. Show(LatestOf(S, Take))
    BY DEF BelowCursor
  <1> HIDE DEF S
  <1> QED BY <1>1, <1>4, <1>5, ShowStep

LEMMA ShowPageStep ==
  ASSUME ListInv, list \in ByPage, Reading, ShowPage(PageOf(Matching(pages.unread), pages.next))
  PROVE  ListInv'
PROOF
  <1> DEFINE S     == Matching(pages.unread)
             k     == (pages.next - 1) * PageSize
             l     == pages.next * PageSize
             A     == LatestOf(S, k)
             B     == LatestOf(S, l)
             found == B \ A
  <1>1. /\ pages.open /\ ~ pages.done /\ UNCHANGED <<list, rows, posted>>
        /\ RowsInv /\ Closed.open = FALSE
    BY DEF Reading, ListInv, Closed
  <1>2. ReaderInv /\ pages \in PageRecords /\ PlaceInv
    BY <1>1 DEF ListInv, ReaderInv
  <1>3. RowsInv'
    BY <1>1 DEF RowsInv
  <1>4. /\ MaxPosts \in Nat /\ PageSize \in Nat /\ PageSize # 0 /\ posted \in Nat
        /\ pages.next \in Nat /\ pages.next >= 1 /\ pages.next <= MaxPosts + 1
    BY <1>1, <1>2, PostNumbers DEF PlaceInv, PageRecords
  <1>5. /\ S \subseteq 1..posted /\ 1..posted \subseteq 1..MaxPosts /\ S \in SUBSET (0..MaxPosts)
        /\ S \subseteq 1..MaxPosts
    BY <1>1, IdsInside, PostNumbers
  <1>6. k \in Nat /\ l \in Nat /\ l = k + PageSize /\ k >= pages.next - 1
    <2>1. PICK n \in Nat : n = pages.next - 1
      BY <1>4
    <2>2. n * PageSize \in Nat /\ (n + 1) * PageSize = n * PageSize + PageSize /\ n * PageSize >= n
      BY <1>4
    <2>3. pages.next - 1 = n /\ pages.next = n + 1
      BY <1>4, <2>1
    <2> QED BY <1>4, <2>2, <2>3
  <1>7. /\ pages' = [pages EXCEPT !.seen = pages.seen \cup found, !.next = pages.next + 1,
                                 !.done = Cardinality(found) < PageSize]
    BY DEF ShowPage, PageOf
  <1>8. /\ pages'.open = TRUE /\ pages'.unread = pages.unread /\ pages'.due = pages.due
        /\ pages'.seen = pages.seen \cup found /\ pages'.done = (Cardinality(found) < PageSize)
        /\ pages'.next = pages.next + 1 /\ pages'.cut = pages.cut /\ pages'.slips = pages.slips
    <2> HIDE DEF found
    <2> QED BY <1>2, <1>7 DEF PageRecords
  <1>9. S' = S /\ Overtaken = A /\ Overtaken' = B
    <2>1. pages'.next - 1 = pages.next
      BY <1>4, <1>8
    <2>2. Matching(pages.unread)' = Matching(pages.unread)
      BY <1>1, <1>8 DEF Matching
    <2>3. Overtaken' = LatestOf(Matching(pages.unread)', (pages'.next - 1) * PageSize)
      BY <1>8 DEF Overtaken
    <2> QED BY <2>1, <2>2, <2>3 DEF Overtaken
  <1>10. Still = pages.due \cap S /\ Still' = Still
    BY <1>1, <1>8 DEF Still, Matching
  <1> HIDE DEF S, k, l
  <1>11. /\ A \subseteq S /\ Cardinality(A) \in Nat /\ Cardinality(A) <= k /\ IsFiniteSet(S)
         /\ B \subseteq S /\ Cardinality(B) \in Nat /\ (B # S => Cardinality(B) >= l)
         /\ \A i \in S \ B, j \in B : i < j
    <2>1. MaxPosts \in Nat /\ k \in Nat /\ S \in SUBSET (0..MaxPosts)
      BY <1>4, <1>5, <1>6
    <2>2. l \in Nat
      BY <1>6
    <2> QED BY <2>1, <2>2, LatestRows
  <1>12. found \subseteq 1..posted /\ found \subseteq 1..MaxPosts /\ IsFiniteSet(found) /\ Cardinality(found) \in Nat
    <2>1. found \subseteq S
      BY <1>11
    <2>2. IsFiniteSet(found)
      BY <1>11, <2>1, FS_Subset
    <2> QED BY <1>5, <2>1, <2>2, FS_CardinalityType
  <1>13. pages' \in PageRecords
    <2>1. pages.next + 1 \in 0..MaxPosts + 2 /\ (Cardinality(found) < PageSize) \in BOOLEAN
      BY <1>4
    <2> HIDE DEF found
    <2> QED BY <1>2, <1>7, <1>12, <2>1 DEF PageRecords
  <1>14. ASSUME ~ pages'.done PROVE pages.next <= MaxPosts /\ found # {}
    <2>1. found # {}
      <3> HIDE DEF found
      <3>1. Cardinality({}) = 0 /\ ~ (Cardinality(found) < PageSize)
        BY <1>8, <1>14, FS_EmptySet
      <3> QED BY <1>4, <3>1
    <2>2. PICK i \in S : i \in B /\ i \notin A
      BY <1>11, <2>1
    <2>3. Cardinality(Before(S, i)) >= k /\ Cardinality(Before(S, i)) \in Nat
      <3>1. ~ (Cardinality(Before(S, i)) < k)
        BY <2>2 DEF LatestOf
      <3>2. Cardinality(Before(S, i)) \in Nat
        BY <1>4, <1>5, NumbersBelow
      <3> QED BY <1>6, <3>1, <3>2
    <2>4. Cardinality(1..MaxPosts) = MaxPosts
      BY <1>4, FS_Interval
    <2>5. Cardinality(Before(S, i)) < Cardinality(1..MaxPosts)
      <3>1. i \notin Before(S, i) /\ i \in 1..MaxPosts /\ Before(S, i) \subseteq 1..MaxPosts
        <4>1. i \in 1..MaxPosts
          BY <1>5
        <4>2. ~ (i > i)
          BY <1>4, <4>1
        <4> QED BY <1>5, <4>1, <4>2 DEF Before
      <3>2. IsFiniteSet(1..MaxPosts)
        BY <1>4, FS_Interval
      <3>3. Before(S, i) \in SUBSET (1..MaxPosts) /\ Before(S, i) # 1..MaxPosts
        BY <3>1
      <3>4. /\ Cardinality(Before(S, i)) <= Cardinality(1..MaxPosts)
            /\ Cardinality(Before(S, i)) # Cardinality(1..MaxPosts)
        BY <3>2, <3>3, FS_Subset
      <3> QED BY <1>4, <2>3, <2>4, <3>4
    <2> QED BY <1>4, <1>6, <2>1, <2>3, <2>4, <2>5
  <1>15. PlaceInv'
    BY <1>1, <1>4, <1>8, <1>14 DEF PlaceInv
  <1>16. ASSUME NEW i \in B, i \notin pages'.seen PROVE i \in Overtaken /\ (Passed(i) \/ i \in Missed)
    BY <1>8, <1>9, <1>16 DEF Missed
  <1>17. Missed' \subseteq Missed
    <2>1. ASSUME NEW i \in Still \ pages'.seen, Passed(i)' PROVE i \in Missed
      <3>1. i \notin pages.seen /\ i \in S /\ i \notin found
        BY <1>8, <1>10, <2>1
      <3>2. CASE Passed(i)
        BY <2>1, <3>1, <3>2 DEF Missed
      <3>3. CASE ~ Passed(i)
        <4>1. PICK n \in found : n <= i
          BY <1>8, <2>1, <3>3 DEF Passed
        <4>2. i \in B
          <5>1. i \in Nat /\ n \in Nat
            BY <1>5, <1>12, <3>1
          <5>2. ~ (i < n)
            BY <4>1, <5>1
          <5> QED BY <1>11, <3>1, <4>1, <5>2
        <4> QED BY <1>16, <2>1, <3>3, <4>2
      <3> QED BY <3>2, <3>3
    <2>2. ASSUME NEW i \in B, ~ Passed(i)' PROVE i \in Missed
      <3>1. i \in Nat /\ i <= i
        <4>1. i \in 1..posted
          BY <1>5, <1>11
        <4> QED BY <4>1
      <3>2. i \notin pages'.seen /\ ~ Passed(i)
        BY <1>8, <2>2, <3>1 DEF Passed
      <3> QED BY <1>16, <3>2
    <2> QED BY <1>9, <1>10, <2>1, <2>2 DEF Missed
  <1>18. ASSUME pages'.done PROVE Still' \ pages'.seen \subseteq Missed
    <2>1. B = S
      <3>1. Cardinality(B) <= Cardinality(A) + Cardinality(found)
        <4>1. IsFiniteSet(A) /\ IsFiniteSet(found)
          BY <1>11, <1>12, FS_Subset
        <4>2. Cardinality(A \cup found) <= Cardinality(A) + Cardinality(found)
              /\ IsFiniteSet(A \cup found) /\ Cardinality(A \cup found) \in Nat
          <5>1. /\ IsFiniteSet(A \cup found) /\ Cardinality(A \cap found) \in Nat
                /\ Cardinality(A \cup found) = Cardinality(A) + Cardinality(found) - Cardinality(A \cap found)
            BY <4>1, FS_Union, FS_Intersection, FS_CardinalityType
          <5> QED BY <1>11, <1>12, <5>1, FS_CardinalityType
        <4>3. B \subseteq A \cup found
          OBVIOUS
        <4> QED BY <1>11, <1>12, <4>2, <4>3, FS_Subset
      <3>2. Cardinality(found) < PageSize
        BY <1>8, <1>18
      <3> HIDE DEF A, B, found
      <3> QED BY <1>4, <1>6, <1>11, <1>12, <3>1, <3>2
    <2>2. ASSUME NEW i \in Still \ pages'.seen PROVE i \in Missed
      <3>1. i \in B /\ i \notin pages.seen
        BY <1>8, <1>10, <2>1, <2>2
      <3>2. Passed(i) \/ i \in Missed
        BY <1>16, <2>2, <3>1
      <3> QED BY <2>2, <3>1, <3>2 DEF Missed
    <2> QED BY <1>10, <2>2
  <1>19. ASSUME NEW late, late \subseteq Missed, ~ pages.cut PROVE Cardinality(late) <= pages.slips
    <2>1. IsFiniteSet(Missed) /\ Cardinality(Missed) \in Nat /\ pages.slips \in Nat
          /\ Cardinality(Missed) <= pages.slips
      BY <1>1, <1>2, <1>19, Finite DEF ReaderInv
    <2>2. Cardinality(late) <= Cardinality(Missed) /\ Cardinality(late) \in Nat
      BY <1>19, <2>1, FS_Subset, FS_CardinalityType
    <2> QED BY <2>1, <2>2
  <1>20. /\ ~ pages'.cut /\ ~ pages'.done => Cardinality(Missed') <= pages'.slips
         /\ ~ pages'.cut /\ pages'.done => Cardinality(Still' \ pages'.seen) <= pages'.slips
    BY <1>8, <1>17, <1>18, <1>19
  <1>21. (pages'.unread => list' = "messages") /\ pages'.due \subseteq 1..posted' /\ pages'.seen \subseteq 1..posted'
         /\ (list' \in Sorted => pages'.cut)
    BY <1>1, <1>2, <1>8, <1>12 DEF ReaderInv, Sorted, ByPage
  <1>22. ReaderInv'
    BY <1>13, <1>15, <1>20, <1>21 DEF ReaderInv
  <1> QED BY <1>3, <1>22 DEF ListInv

\* A page that is full is not the table's last row but one; what it shows is not told.
LEMMA ShowSortedStep ==
  ASSUME ListInv, list \in Sorted, Reading, NEW S \in SearchSortedPrompts(pages.next), ShowPage(S)
  PROVE  ListInv'
PROOF
  <1>1. /\ ~ pages.done /\ UNCHANGED <<list, rows, posted>> /\ RowsInv /\ ReaderInv
    BY DEF Reading, ListInv, Closed
  <1>a. pages \in PageRecords /\ pages.cut /\ PlaceInv /\ list \notin ByPage
        /\ pages.due \subseteq 1..posted /\ pages.seen \subseteq 1..posted /\ ~ pages.unread
    BY <1>1 DEF ReaderInv, Sorted, ByPage
  <1>b. pages.next \in 0..MaxPosts + 2 /\ MaxPosts \in Nat /\ pages.seen \in SUBSET (1..MaxPosts)
    BY <1>1, <1>a, PostNumbers DEF PageRecords
  <1>2. pages.next \in 1..MaxPosts + 1
    BY <1>1, <1>a, <1>b DEF PlaceInv
  <1>3. S \subseteq 1..posted /\ S \subseteq 1..MaxPosts /\ posted <= MaxPosts
    BY <1>1, IdsInside, PostNumbers DEF SearchSortedPrompts
  <1>4. IsFiniteSet(Ids) /\ Cardinality(Ids) <= MaxPosts /\ Cardinality(Ids) \in Nat
    <2>1. IsFiniteSet(1..posted) /\ Cardinality(1..posted) = posted
      BY <1>1, PostNumbers, FS_Interval
    <2>2. IsFiniteSet(Ids) /\ Cardinality(Ids) <= posted
      BY <1>1, <2>1, IdsInside, FS_Subset
    <2> QED BY <1>1, <2>2, PostNumbers, FS_CardinalityType
  <1>5. Cardinality(S) \in Nat
    BY <1>4, FS_Subset, FS_CardinalityType DEF SearchSortedPrompts
  <1>6. ASSUME ~ (Cardinality(S) < PageSize) PROVE pages.next <= MaxPosts
    <2>1. PageSize \in Nat /\ PageSize >= 1 /\ MaxPosts \in Nat
      BY <1>1, PostNumbers
    <2>2. Cardinality(S) = PageSize
      BY <1>5, <1>6, <2>1 DEF SearchSortedPrompts
    <2>3. S # {}
      BY <2>1, <2>2, FS_EmptySet
    <2>4. (pages.next - 1) * PageSize + PageSize <= MaxPosts
      BY <1>2, <1>4, <2>1, <2>2, <2>3 DEF SearchSortedPrompts
    <2>5. (pages.next - 1) * PageSize >= pages.next - 1
      BY <1>2, <2>1
    <2> QED BY <1>2, <2>1, <2>4, <2>5
  <1>7. /\ pages' = [pages EXCEPT !.seen = pages.seen \cup S, !.next = pages.next + 1,
                                 !.done = Cardinality(S) < PageSize]
    BY DEF ShowPage
  <1>8. /\ pages' \in PageRecords /\ pages'.unread = pages.unread /\ pages'.due = pages.due
        /\ pages'.seen = pages.seen \cup S /\ pages'.cut = pages.cut /\ pages'.next = pages.next + 1
        /\ pages'.done = (Cardinality(S) < PageSize)
    <2>a. pages.next + 1 \in 0..MaxPosts + 2
      <3> DEFINE k == pages.next
      <3>1. k \in 1..MaxPosts + 1 /\ MaxPosts \in Nat
        BY <1>2, <1>b
      <3> HIDE DEF k
      <3>2. k + 1 \in 0..MaxPosts + 2
        BY <3>1
      <3> QED BY <3>2 DEF k
    <2>b. pages.seen \cup S \in SUBSET (1..MaxPosts)
      BY <1>3, <1>b
    <2>1. pages.next + 1 \in 0..MaxPosts + 2 /\ pages.seen \cup S \in SUBSET (1..MaxPosts)
      BY <2>a, <2>b
    <2>2. (Cardinality(S) < PageSize) \in BOOLEAN
      OBVIOUS
    <2> QED BY <1>a, <1>7, <2>1, <2>2 DEF PageRecords
  <1>9. PlaceInv'
    <2> DEFINE k == pages.next
               l == pages'.next
    <2>a. k \in 1..MaxPosts + 1 /\ MaxPosts \in Nat /\ l = k + 1 /\ (~ pages'.done => k <= MaxPosts)
      BY <1>2, <1>6, <1>8, <1>b
    <2> HIDE DEF k, l
    <2>b. l >= 1 /\ (~ pages'.done => l <= MaxPosts + 1)
      BY <2>a
    <2>1. pages'.next >= 1 /\ (~ pages'.done => pages'.next <= MaxPosts + 1)
      BY <2>b DEF l
    <2> QED BY <1>1, <1>a, <2>1 DEF PlaceInv
  <1>10. ReaderInv'
    <2>1. pages'.seen \subseteq 1..posted' /\ pages'.due \subseteq 1..posted' /\ pages'.cut /\ ~ pages'.unread
      BY <1>1, <1>3, <1>8, <1>a
    <2> QED BY <1>8, <1>9, <2>1 DEF ReaderInv
  <1> QED BY <1>1, <1>10 DEF ListInv, RowsInv

LEMMA ListNextInv == ASSUME ListInv, [ListNext]_listVars PROVE ListInv'
PROOF
  <1>1. CASE UNCHANGED listVars
    BY <1>1, QuietList
  <1>2. ASSUME Post PROVE ListInv'
    BY <1>2, PostStep DEF Post
  <1>3. ASSUME NEW q \in Requests({Keeper}),
               \/ SendMessageRoute(q) \/ PostReportRoute(q)
               \/ CreateAnnouncementRoute(q) \/ CreateTipRoute(q)
        PROVE  ListInv'
    BY <1>2, <1>3 DEF SendMessageRoute, SendMessage, PostReportRoute, CreateReport,
      CreateAnnouncementRoute, CreateAnnouncement, CreateTipRoute, CreateTip
  <1>4. ASSUME NEW q \in Requests({Keeper}), NEW id \in Ids,
               OpenMessageRoute(q, id) \/ MarkMessageRoute(q, id) \/ OpenReportRoute(q, id)
        PROVE  ListInv'
    <2>1. MarkRead(id) /\ list \notin ByPage
      BY <1>4 DEF OpenMessageRoute, GetMessageById, MarkMessageRoute, MarkMessageAsRead,
        OpenReportRoute, GetReportedPromptById, ByPage
    <2> QED BY <2>1, MarkStep
  <1>5. ASSUME NEW q \in Requests({Keeper}), NEW id \in Ids,
               DeleteMessageRoute(q, id) \/ DeleteAnnouncementRoute(q, id) \/ DeleteTipRoute(q, id)
        PROVE  ListInv'
    <2>1. Hide(id) /\ list \notin {"reports", "reviews", "mine", "search", "sorted"}
      BY <1>5 DEF DeleteMessageRoute, DeleteMessage, DeleteAnnouncementRoute, DeleteAnnouncement,
        DeleteTipRoute, DeleteTip
    <2> QED BY <2>1, HideStep
  <1>6. ASSUME NEW q \in Requests({Keeper}), NEW id \in Ids,
               PatchAnnouncementRoute(q, id) \/ PatchTipRoute(q, id)
        PROVE  ListInv'
    <2>1. Change(id, Row(id)) /\ UNCHANGED pages
      BY <1>6 DEF PatchAnnouncementRoute, PatchAnnouncement, PatchTipRoute, PatchTip
    <2> QED BY <2>1, PatchStep
  <1>7. ASSUME NEW id \in Ids, DeleteReports(id) \/ WithdrawRow(id) PROVE ListInv'
    BY <1>7, DeleteRowStep DEF DeleteReports, WithdrawRow
  <1>8. ASSUME NEW u \in BOOLEAN, OpenList(u) PROVE ListInv'
    BY <1>8, OpenStep
  <1>9. ASSUME GetReceivedMessages PROVE ListInv'
    BY <1>9, FromCursorStep DEF GetReceivedMessages, FindReceivedMessages, ByCursor
  <1>10. ASSUME Reading PROVE RowsInv /\ ReaderInv /\ pages.unread \in BOOLEAN
    <2>1. pages # Closed
      BY <1>10 DEF Reading, Closed
    <2>2. RowsInv /\ ReaderInv
      BY <2>1 DEF ListInv
    <2> QED BY <2>2 DEF ReaderInv, PageRecords
  <1>11. ASSUME Reading, list \in {"reports", "search"} PROVE Matching(pages.unread) = Ids
    BY <1>10, <1>11, AllMatch DEF ReaderInv
  <1>12. ASSUME Reading, list # "messages" PROVE Matching(pages.unread) = Matching(FALSE)
    BY <1>10, <1>12 DEF ReaderInv
  <1>13. ASSUME GetReportedPrompts PROVE ListInv'
    BY <1>11, <1>13, FromCursorStep DEF GetReportedPrompts, FindAllReports, ByCursor
  <1>14. ASSUME GetReviews \/ GetPrompts PROVE ListInv'
    BY <1>14, BelowCursorStep DEF GetReviews, GetPrompts, FindAllReviewsByPromptId,
      FindAllReviewsByUserId, FindAllMyReviews, GetMyPrompts, GetMemberPrompts, ById
  <1>15. ASSUME FindAnnouncementList \/ FindTipList PROVE ListInv'
    BY <1>12, <1>15, ShowPageStep DEF FindAnnouncementList, FindTipList, FindAnnouncements, FindTips, ByPage
  <1>16. ASSUME SearchPromptList PROVE ListInv'
    BY <1>11, <1>16, ShowPageStep DEF SearchPromptList, SearchPrompts, ByPage
  <1>17. ASSUME SearchSortedList PROVE ListInv'
    BY <1>17, ShowSortedStep DEF SearchSortedList, Sorted
  <1> QED
    BY <1>1, <1>2, <1>3, <1>4, <1>5, <1>6, <1>7, <1>8, <1>9, <1>13, <1>14, <1>15, <1>16, <1>17
    DEF ListNext, UploadRow

LEMMA ListAlways == ListSpec => []ListInv
PROOF
  BY ListInitInv, ListNextInv, PTL DEF ListSpec
-----------------------------------------------------------------------------
(* What the parts come to.                                                  *)

\* The rows of prompts, purchases and images, and the handlers, are what
\* src/prompts makes them.
THEOREM CatalogueTypes == CatalogueSpec => []CatalogueTypeOK
PROOF
  <1>1. CatalogueInv => CatalogueTypeOK
    BY TypeParts DEF CatalogueInv
  <1> QED BY <1>1, CatalogueAlways, PTL

\* Whatever sellers, buyers and admins do to prompts, in handlers and transactions
\* that overlap as they may: a charged sale outlives its prompt, a paid download
\* opens, a free one is recorded once, offers are checked, shown images exist.
THEOREM PaidIsAlwaysKept == CatalogueSpec => []PaidIsKept
PROOF
  <1>1. CatalogueInv => PaidIsKept
    BY DEF CatalogueInv, SaleInv, PictureInv, PaidIsKept
  <1> QED BY <1>1, CatalogueAlways, PTL

\* However rows of a list come and go between one page and the next, and however
\* replies, letters and edits of inquiries interleave: nothing gets lost.
THEOREM NothingEverGetsLost == ListSpec /\ DeskSpec => []NothingGetsLost
PROOF
  <1>1. ListInv /\ DeskInv => NothingGetsLost
    BY ListInvMisses DEF NothingGetsLost, DeskInv
  <1> QED BY <1>1, ListAlways, DeskAlways, PTL

\* Whenever instances start, stop and fail in the middle of the daily run: the
\* statistics tell what happened.
THEOREM StatsAlwaysTell == StatSpec => []StatsTell
PROOF
  <1>1. SnapInv /\ ClockInv => StatsTell
    BY PopularIsCounted, DaysAreTaken, ClockLags, WindowsDoAbut DEF StatsTell
  <1> QED BY <1>1, StatAlways, PTL

\* The parts share no variable: where one moves, the others stay.
MarketInv == part \in Parts /\ CatalogueInv /\ ListInv /\ DeskInv /\ SnapInv /\ ClockInv

LEMMA MarketInitInv == Init => MarketInv
PROOF
  BY CatalogueInitInv, ListInitInv, DeskInitInv, SnapInit, ClockInit DEF Init, MarketInv

\* What one part does leaves the others as they are.
LEMMA PartsStep ==
  [Next]_vars => /\ UNCHANGED part /\ [CatalogueNext]_catalogueVars /\ [ListNext]_listVars
                 /\ [DeskNext]_deskVars /\ [StatNext]_statVars
PROOF
  <1> SUFFICES ASSUME [Next]_vars
               PROVE  /\ UNCHANGED part /\ [CatalogueNext]_catalogueVars /\ [ListNext]_listVars
                      /\ [DeskNext]_deskVars /\ [StatNext]_statVars
    OBVIOUS
  <1>1. CASE UNCHANGED vars
    BY <1>1 DEF vars
  <1>2. CASE Catalogues /\ UNCHANGED <<part, listVars, deskVars, statVars>>
    <2>1. CatalogueNext
      BY <1>2 DEF Catalogues, CatalogueNext
    <2> QED BY <1>2, <2>1
  <1>3. CASE part = "lists" /\ ListNext /\ UNCHANGED <<part, catalogueVars, deskVars, statVars>>
    BY <1>3
  <1>4. CASE Desks /\ UNCHANGED <<part, catalogueVars, listVars, statVars>>
    <2>1. DeskNext
      BY <1>4 DEF Desks, DeskNext
    <2> QED BY <1>4, <2>1
  <1>5. CASE Stats /\ UNCHANGED <<part, catalogueVars, listVars, deskVars>>
    <2>1. StatNext
      BY <1>5 DEF Stats, StatNext
    <2> QED BY <1>5, <2>1
  <1> QED BY <1>1, <1>2, <1>3, <1>4, <1>5 DEF Next

LEMMA MarketNextInv == MarketInv /\ [Next]_vars => MarketInv'
PROOF
  <1> SUFFICES ASSUME MarketInv, [Next]_vars PROVE MarketInv'
    OBVIOUS
  <1>1. CatalogueInv'
    BY PartsStep, CatalogueNextInv DEF MarketInv
  <1>2. ListInv'
    BY PartsStep, ListNextInv DEF MarketInv
  <1>3. DeskInv'
    BY PartsStep, DeskNextInv DEF MarketInv
  <1>4. SnapInv' /\ ClockInv'
    BY PartsStep, SnapStep, ClockStep DEF MarketInv
  <1> QED BY PartsStep, <1>1, <1>2, <1>3, <1>4 DEF MarketInv

LEMMA MarketAlways == Spec => []MarketInv
PROOF
  BY MarketInitInv, MarketNextInv, PTL DEF Spec

\* The state of every part is one the code can produce, whichever part moves.
THEOREM MarketTypes == Spec => []TypeOK
PROOF
  <1>1. MarketInv => TypeOK
    BY TypeParts, ListInvTypes, DeskInvTypes, SnapTypes DEF MarketInv, CatalogueInv, TypeOK
  <1> QED BY <1>1, MarketAlways, PTL

\* Beside each other the parts behave as each does alone, so that what is proved of
\* a part is true of the whole.
THEOREM PartsRunBeside == Spec => CatalogueSpec /\ ListSpec /\ DeskSpec /\ StatSpec
PROOF
  <1>1. Init => CatalogueInit /\ ListInit /\ DeskInit /\ StatInit
    BY DEF Init
  <1> QED
    BY <1>1, PartsStep, PTL DEF Spec, CatalogueSpec, ListSpec, DeskSpec, StatSpec
=============================================================================
