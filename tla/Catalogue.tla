------------------------------- MODULE Catalogue -------------------------------
(***************************************************************************)
(* Prompts (src/prompts): a seller uploads, edits and deletes them with    *)
(* their images and everything that hangs on them, others like and         *)
(* download them.  Sales come from src/purchases and leave through         *)
(* src/refunds; a Purchase row that was paid for has a Payment, which has  *)
(* a Settlement, whose foreign key forbids to delete the Payment.  A       *)
(* request is valid when its fields are there and its categories, at most  *)
(* five, and models exist: else its transaction is rolled back.            *)
(***************************************************************************)
EXTENDS Naturals, FiniteSets, Requests

CONSTANTS
  Patrons,                \* users
  ApprovedSellers,        \* those of them with an approved seller account
  Customers,              \* bound: those of them who buy and download
  Works,                  \* prompts
  Terms, AllowedPrices,   \* prices that are sent, those between 100 and 100,000
  Doors, Crew,            \* slots for running downloads; for handlers that delete
  Urls, Places,           \* addresses of images in S3; order_index
  MaxSales, MaxPictures   \* bounds on the Purchase and PromptImage rows made

ASSUME CatalogueAssumption ==
  /\ Guest \notin Patrons
  /\ ApprovedSellers \subseteq Patrons /\ Customers \subseteq Patrons
  /\ AllowedPrices \subseteq Terms \ {0} /\ 0 \in Terms
  /\ MaxSales \in Nat /\ MaxPictures \in Nat

VARIABLES
  works,     \* Prompt rows
  sheets,    \* order sheets handed out: who is about to pay for what
  sales,     \* Purchase rows with their Payment and Refund
  sold,      \* rows made so far
  likes,     \* PromptLike rows
  pictures,  \* PromptImage rows
  pictured,  \* rows made so far
  objects,   \* the objects in S3
  door,      \* a running download: what it has read
  crew,      \* a running deletion of a prompt or of an image
  \* for the properties only
  charged,   \* sales that were paid for, but for those an admin removed
  away,      \* downloads of paid prompts that were refused
  edited,    \* prompts whose terms were edited, or that are gone
  damaged    \* what images may be missing of: prompts whose deletion was tried, addresses sent
             \* twice, with nothing there or during a deletion, or whose deletion broke off

catalogueVars == <<works, sheets, sales, sold, likes, pictures, pictured, objects, door, crew,
                   charged, away, edited, damaged>>
offerVars     == <<works, edited, likes>>
saleVars      == <<sheets, sales, sold, charged, away>>
pictureVars   == <<pictures, pictured, objects, damaged>>

NotMade   == [free |-> TRUE, price |-> 0, by |-> Guest]
Shut      == [step |-> "none"]
SaleState == {"free", "paid", "approved", "refunded"}

SaleRows    == [id : 1..MaxSales, by : Patrons, of : Works, state : SaleState,
                opened : BOOLEAN, raced : BOOLEAN]
PictureRows == [id : 1..MaxPictures, of : Works, url : Urls, place : Places]
Downloads == [step : {"find", "stamp", "record", "count"}, by : Patrons, of : Works,
              free : BOOLEAN, sale : 0..MaxSales, raced : BOOLEAN]
Deletions == [step : {"objects", "rows"}, of : Works, admin : BOOLEAN]
PictureDeletions == [step : {"picture"}, of : Works, place : Places]

CatalogueTypeOK ==
  /\ works \in [Works -> [free : BOOLEAN, price : Terms, by : Patrons \cup {Guest}]]
  /\ sheets \cup likes \subseteq Patrons \X Works
  /\ sales \subseteq SaleRows
  /\ sold \in 0..MaxSales
  /\ pictures \subseteq PictureRows
  /\ pictured \in 0..MaxPictures
  /\ objects \subseteq Urls
  /\ door \in [Doors -> {Shut} \cup Downloads]
  /\ crew \in [Crew -> {Shut} \cup Deletions \cup PictureDeletions]
  /\ charged \subseteq 1..MaxSales
  /\ away \subseteq [by : Patrons, of : Works, paid : BOOLEAN, several : BOOLEAN, approved : BOOLEAN]
  /\ edited \subseteq Works
  /\ damaged \subseteq Works \cup Urls

CatalogueInit ==
  /\ works = [w \in Works |-> NotMade] /\ edited = {} /\ likes = {}
  /\ sheets = {} /\ sales = {} /\ sold = 0 /\ charged = {} /\ away = {}
  /\ pictures = {} /\ pictured = 0 /\ objects = {} /\ damaged = {}
  /\ door = [d \in Doors |-> Shut]
  /\ crew = [c \in Crew |-> Shut]

Exists(w)      == works[w] # NotMade
Own(u, w)      == Exists(w) /\ works[w].by = u
SalesOf(w)     == {s \in sales : s.of = w}
RowsOf(u, w)   == {s \in SalesOf(w) : s.by = u}
PicturesOf(w)  == {p \in pictures : p.of = w}
AddSale(u, w, state, raced) ==
  /\ sold < MaxSales
  /\ sold' = sold + 1
  /\ sales' = sales \cup {[id |-> sold + 1, by |-> u, of |-> w, state |-> state,
                          opened |-> FALSE, raced |-> raced]}
-----------------------------------------------------------------------------
(* Upload and edit.                                                         *)

\* What createPrompt demands of a paid prompt.
OfferAllowed(u, free, price) == free \/ (price \in AllowedPrices /\ u \in ApprovedSellers)

\* createPromptWriteRepo; a prompt once deleted does not come again.
CreatePromptWriteRepo(u, w, free, price) ==
  /\ ~ Exists(w) /\ w \notin edited
  /\ works' = [works EXCEPT ![w] = [free |-> free, price |-> price, by |-> u]]
  /\ UNCHANGED <<edited, likes, saleVars, pictureVars, door, crew>>

\* createPromptWrite, whose event goes to the listeners (Notices).
CreatePromptWrite(u, w, free, price) == CreatePromptWriteRepo(u, w, free, price)

CreatePromptRoute(q, w, free, price) ==
  /\ WellFormed(q) /\ OfferAllowed(q.user, free, price)
  /\ CreatePromptWrite(q.user, w, free, IF free THEN 0 ELSE price)

\* updatePromptRepo takes price and is_free as they are sent.
UpdatePromptRepo(w, free, price) ==
  /\ works' = [works EXCEPT ![w].free = free, ![w].price = price]
  /\ edited' = edited \cup {w}
  /\ UNCHANGED <<likes, saleVars, pictureVars, door, crew>>

UpdatePrompt(w, free, price)         == UpdatePromptRepo(w, free, price)
UpdatePromptRoute(q, w, free, price) == WellFormed(q) /\ Own(q.user, w) /\ UpdatePrompt(w, free, price)
-----------------------------------------------------------------------------
(* Likes: the table has a key on the pair, so that of two the second fails. *)

HasLikedPrompt(u, w) == <<u, w>> \in likes

AddPromptLike(u, w)    == likes' = likes \cup {<<u, w>>}
RemovePromptLike(u, w) == likes' = likes \ {<<u, w>>}

LikePrompt(u, w) ==
  /\ Exists(w) /\ ~ HasLikedPrompt(u, w) /\ AddPromptLike(u, w)
  /\ UNCHANGED <<works, edited, saleVars, pictureVars, door, crew>>

UnlikePrompt(u, w) ==
  /\ HasLikedPrompt(u, w) /\ RemovePromptLike(u, w)
  /\ UNCHANGED <<works, edited, saleVars, pictureVars, door, crew>>

\* Mutant: the sender is not asked who he is.
LikeUnchecked(q, w) == LikePrompt(q.user, w)

LikeRoute(q, w)   == WellFormed(q) /\ LikePrompt(q.user, w)
UnlikeRoute(q, w) == WellFormed(q) /\ UnlikePrompt(q.user, w)
-----------------------------------------------------------------------------
(* Sales, as src/purchases and src/refunds make them.                       *)

PaidRows(u, w) == {s \in RowsOf(u, w) : s.state \in {"paid", "approved"}}

\* createPurchaseRequest
AskForSheet(u, w) ==
  /\ Exists(w) /\ ~ works[w].free /\ PaidRows(u, w) = {}
  /\ sheets' = sheets \cup {<<u, w>>}
  /\ UNCHANGED <<offerVars, sales, sold, charged, away, pictureVars, door, crew>>

\* The payment is confirmed and booked, unless one was before.
BookSale(u, w) ==
  /\ <<u, w>> \in sheets /\ Exists(w) /\ PaidRows(u, w) = {}
  /\ AddSale(u, w, "paid", FALSE)
  /\ charged' = charged \cup {sold + 1}
  /\ sheets' = sheets \ {<<u, w>>}
  /\ UNCHANGED <<offerVars, away, pictureVars, door, crew>>

\* A refund is approved, or goes through; an automatic one only before the download.
RefundSale(s) ==
  /\ s.state \in {"paid", "approved"}
  /\ sales' = (sales \ {s}) \cup {[s EXCEPT !.state =
                 IF s.state = "paid" /\ s.opened THEN "approved" ELSE "refunded"]}
  /\ UNCHANGED <<offerVars, sheets, sold, charged, away, pictureVars, door, crew>>
-----------------------------------------------------------------------------
(* Download.                                                                *)

\* is_paid of getPromptDetailRepo, which no caller asks for.
IsPaid(u, w) == PaidRows(u, w) # {}

\* isRefundSettled
RefundSettled(s) == s.state \in {"approved", "refunded"}

Leave(d)     == door' = [door EXCEPT ![d] = Shut]
Walk(d, s)   == door' = [door EXCEPT ![d].step = s]

\* getDownloadedPrompts: a row for every purchase.
DownloadedPrompts(u) == {[purchase_id |-> s.id, prompt_id |-> s.of, is_refunded |-> RefundSettled(s)] :
                           s \in {r \in sales : r.by = u}}

\* getPromptContent reads the prompt ...
GetPromptContent(u, d, w) ==
  /\ Exists(w) /\ door[d] = Shut
  /\ door' = [door EXCEPT ![d] = [step |-> "find", by |-> u, of |-> w, free |-> works[w].free,
                                  sale |-> 0, raced |-> FALSE]]
  /\ UNCHANGED <<offerVars, saleVars, pictureVars, crew>>

DownloadRoute(q, d, w) == SignedIn(q) /\ GetPromptContent(q.user, d, w)

\* Whether this purchase gives access: no refund is settled, its payment succeeded.
Opens(s) == ~ RefundSettled(s) /\ s.state \in {"paid", "approved"}

Refuse(d) ==
  LET v == door[d] IN
    /\ away' = away \cup {[by |-> v.by, of |-> v.of, paid |-> IsPaid(v.by, v.of),
                           several |-> Cardinality({e \in DownloadedPrompts(v.by) : e.prompt_id = v.of}) > 1,
                           approved |-> \E s \in RowsOf(v.by, v.of) : s.state = "approved"]}
    /\ Leave(d)

\* ... then, for a paid one, any one of the purchases the user has of it ...
FindPurchase(d) ==
  /\ door[d].step = "find" /\ ~ door[d].free
  /\ LET rows == RowsOf(door[d].by, door[d].of) IN
       \/ rows = {} /\ Refuse(d)
       \/ \E s \in rows : ~ Opens(s) /\ Refuse(d)
       \/ \E s \in rows :
            /\ Opens(s)
            /\ door' = [door EXCEPT ![d].step = IF s.opened THEN "count" ELSE "stamp", ![d].sale = s.id]
            /\ UNCHANGED away
  /\ UNCHANGED <<offerVars, sheets, sales, sold, charged, pictureVars, crew>>

\* ... whose first download it marks; the row may be gone by now.
StampDownload(d) ==
  /\ door[d].step = "stamp"
  /\ \E s \in sales : s.id = door[d].sale /\ sales' = (sales \ {s}) \cup {[s EXCEPT !.opened = TRUE]}
  /\ Walk(d, "count")
  /\ UNCHANGED <<offerVars, sheets, sold, charged, away, pictureVars, crew>>

\* The purchases it finds of a free prompt.
ExistingPurchase(u, w) == RowsOf(u, w)

FindFreePurchase(d) ==
  /\ door[d].step = "find" /\ door[d].free
  /\ Walk(d, IF ExistingPurchase(door[d].by, door[d].of) = {} THEN "record" ELSE "count")
  /\ UNCHANGED <<offerVars, saleVars, pictureVars, crew>>

RecordFreePurchase(d) ==
  /\ door[d].step = "record" /\ Exists(door[d].of)
  /\ AddSale(door[d].by, door[d].of, "free", door[d].raced)
  /\ door' = [e \in Doors |->
       IF e = d THEN [door[d] EXCEPT !.step = "count"]
       ELSE IF door[e].step = "record" /\ door[e].by = door[d].by /\ door[e].of = door[d].of
              THEN [door[e] EXCEPT !.raced = TRUE] ELSE door[e]]
  /\ UNCHANGED <<offerVars, sheets, charged, away, pictureVars, crew>>

\* increaseDownload, and the answer; or a statement fails.
IncreaseDownload(d) ==
  /\ door[d].step = "count" /\ Leave(d)
  /\ UNCHANGED <<offerVars, saleVars, pictureVars, crew>>

DownloadFails(d) ==
  /\ door[d] # Shut /\ Leave(d)
  /\ UNCHANGED <<offerVars, saleVars, pictureVars, crew>>
-----------------------------------------------------------------------------
(* Images.                                                                  *)

\* getPresignedUrl makes up a new address, and the client uploads to it.
UploadImage(url) ==
  /\ url \notin objects /\ url \notin damaged /\ \A p \in pictures : p.url # url
  /\ objects' = objects \cup {url}
  /\ UNCHANGED <<offerVars, saleVars, pictures, pictured, damaged, door, crew>>

\* Any place may be taken twice, and any address sent, again or with nothing there.
CreatePromptImageRepo(w, url, place) ==
  /\ pictured < MaxPictures /\ pictured' = pictured + 1
  /\ pictures' = pictures \cup {[id |-> pictured + 1, of |-> w, url |-> url, place |-> place]}
  /\ damaged' = IF url \notin objects \/ \E p \in pictures : p.url = url
                THEN damaged \cup {url} ELSE damaged
  /\ UNCHANGED <<offerVars, saleVars, objects, door, crew>>

CreatePromptImage(u, w, url, place) == Own(u, w) /\ CreatePromptImageRepo(w, url, place)

UpdatePromptImageOrder(w, url, place) ==
  /\ pictures' = (pictures \ PicturesOf(w))
       \cup {IF p.url = url THEN [p EXCEPT !.place = place] ELSE p : p \in PicturesOf(w)}
  /\ damaged' = IF \E c \in Crew : crew[c].step = "picture" /\ crew[c].of = w
                THEN damaged \cup {url} ELSE damaged
  /\ UNCHANGED <<offerVars, saleVars, pictured, objects, door, crew>>

UpdatePromptImage(u, w, url, place) ==
  Own(u, w) /\ (\E p \in PicturesOf(w) : p.url = url) /\ UpdatePromptImageOrder(w, url, place)

\* deletePromptImage: the object of one image at this place ...
DeletePromptImage(u, c, w, place) ==
  /\ Own(u, w) /\ crew[c] = Shut
  /\ \E p \in PicturesOf(w) : p.place = place /\ objects' = objects \ {p.url}
  /\ crew' = [crew EXCEPT ![c] = [step |-> "picture", of |-> w, place |-> place]]
  /\ UNCHANGED <<offerVars, saleVars, pictures, pictured, damaged, door>>

Dismiss(c) == crew' = [crew EXCEPT ![c] = Shut]

\* ... then the rows of all of them.
DeletePromptImageByOrder(c) ==
  /\ crew[c].step = "picture"
  /\ pictures' = {p \in pictures : p.of # crew[c].of \/ p.place # crew[c].place}
  /\ Dismiss(c)
  /\ UNCHANGED <<offerVars, saleVars, pictured, objects, damaged, door>>

CreateImageRoute(q, w, url, place) == WellFormed(q) /\ CreatePromptImage(q.user, w, url, place)
UpdateImageRoute(q, w, url, place) == WellFormed(q) /\ UpdatePromptImage(q.user, w, url, place)
DeleteImageRoute(q, c, w, place)   == WellFormed(q) /\ DeletePromptImage(q.user, c, w, place)
-----------------------------------------------------------------------------
(* Deletion: the objects of the images first, then one transaction.         *)

StartDeletion(c, w, admin) ==
  /\ crew[c] = Shut
  /\ crew' = [crew EXCEPT ![c] = [step |-> "objects", of |-> w, admin |-> admin]]
  /\ UNCHANGED <<offerVars, saleVars, pictureVars, door>>

\* The admin's route looks for no prompt before the transaction.
DeletePromptRoute(q, c, w)      == WellFormed(q) /\ Own(q.user, w) /\ StartDeletion(c, w, FALSE)
AdminDeletePromptRoute(q, c, w) == ByAdmin(q) /\ StartDeletion(c, w, TRUE)

DeleteS3Images(c) ==
  /\ crew[c].step = "objects"
  /\ objects' = objects \ {p.url : p \in PicturesOf(crew[c].of)}
  /\ damaged' = IF PicturesOf(crew[c].of) = {} THEN damaged ELSE damaged \cup {crew[c].of}
  /\ crew' = [crew EXCEPT ![c].step = "rows"]
  /\ UNCHANGED <<offerVars, saleVars, pictures, pictured, door>>

\* Mutant: the owner's transaction deletes settlements, as the admin's does.
NoSettlements(w) == {s \in SalesOf(w) : s.of # w}

\* The sales whose Payment a Settlement refers to; it is kept after a refund.
Settlements(w) == {s \in SalesOf(w) : s.state # "free"}

\* The prompt goes with its purchases, likes and images (reviews and reports: Board).
RemovePrompt(w) ==
  /\ works' = [works EXCEPT ![w] = NotMade]
  /\ edited' = edited \cup {w}
  /\ likes' = {l \in likes : l[2] # w}
  /\ sales' = sales \ SalesOf(w)
  /\ pictures' = pictures \ PicturesOf(w)

\* The transaction is refused when the prompt is gone, or sold, free purchases
\* included, and not free now; it fails when a Payment cannot be deleted.
OwnerMayDelete(w) == Exists(w) /\ (works[w].free \/ SalesOf(w) = {}) /\ Settlements(w) = {}

DeletePromptRepo(c) ==
  /\ crew[c].step = "rows" /\ ~ crew[c].admin
  /\ OwnerMayDelete(crew[c].of) /\ RemovePrompt(crew[c].of)
  /\ Dismiss(c)
  /\ UNCHANGED <<sheets, sold, charged, away, pictured, objects, damaged, door>>

\* adminDeletePromptRepo deletes the settlements, too.
AdminDeletePromptRepo(c) ==
  /\ crew[c].step = "rows" /\ crew[c].admin
  /\ Exists(crew[c].of) /\ RemovePrompt(crew[c].of)
  /\ charged' = charged \ {s.id : s \in SalesOf(crew[c].of)}
  /\ Dismiss(c)
  /\ UNCHANGED <<sheets, sold, away, pictured, objects, damaged, door>>

\* The transaction is refused or fails, or a statement does.
DeletionFails(c) ==
  /\ crew[c] # Shut /\ Dismiss(c)
  /\ damaged' = IF crew[c].step # "picture" THEN damaged
                ELSE damaged \cup {p.url : p \in {r \in PicturesOf(crew[c].of) : r.place = crew[c].place}}
  /\ UNCHANGED <<offerVars, saleVars, pictures, pictured, objects, door>>
-----------------------------------------------------------------------------
OfferNext ==
  \E q \in Requests(Patrons), w \in Works, free \in BOOLEAN, price \in Terms :
    CreatePromptRoute(q, w, free, price) \/ UpdatePromptRoute(q, w, free, price)

DeleteNext ==
  \/ \E q \in Requests(Patrons), c \in Crew, w \in Works : DeletePromptRoute(q, c, w) \/ AdminDeletePromptRoute(q, c, w)
  \/ \E c \in Crew : \/ DeleteS3Images(c) \/ DeletePromptRepo(c)
                      \/ AdminDeletePromptRepo(c) \/ DeletionFails(c)

SaleNext ==
  \/ \E u \in Customers, w \in Works : AskForSheet(u, w) \/ BookSale(u, w)
  \/ \E s \in sales : RefundSale(s)

DownloadNext ==
  \/ \E q \in Requests(Customers), d \in Doors, w \in Works : DownloadRoute(q, d, w)
  \/ \E d \in Doors : \/ FindPurchase(d) \/ StampDownload(d) \/ FindFreePurchase(d)
                       \/ RecordFreePurchase(d) \/ IncreaseDownload(d) \/ DownloadFails(d)

PictureNext ==
  \/ \E url \in Urls : UploadImage(url)
  \/ \E q \in Requests(Patrons), w \in Works, place \in Places :
       \/ \E url \in Urls : CreateImageRoute(q, w, url, place) \/ UpdateImageRoute(q, w, url, place)
       \/ \E c \in Crew : DeleteImageRoute(q, c, w, place)
  \/ \E c \in Crew : DeletePromptImageByOrder(c)

LikeNext == \E q \in Requests(Patrons), w \in Works : LikeRoute(q, w) \/ UnlikeRoute(q, w)

CatalogueNext == OfferNext \/ DeleteNext \/ SaleNext \/ DownloadNext \/ PictureNext \/ LikeNext
CatalogueSpec == CatalogueInit /\ [][CatalogueNext]_catalogueVars
-----------------------------------------------------------------------------
(* Properties.                                                              *)

\* No charged sale loses its rows but to an admin: not even when the owner sets
\* the prompt free first, when only the settlement's foreign key stops him.
SalesSurvive == charged \subseteq {s.id : s \in sales}

\* Whoever has a purchase of a prompt whose payment succeeded is let in by the
\* download, unless he has several purchases of it, of which any one is looked at,
\* or an approved refund.
PaidOpens == \A a \in away : a.paid => a.several \/ a.approved

\* Only downloads that overlap record a free prompt twice.
FreeOnce ==
  \A s, t \in sales : s.state = "free" /\ t.state = "free" /\ s.by = t.by /\ s.of = t.of
                        /\ s.id < t.id => t.raced

\* A paid prompt is its approved seller's and within the limits, unless edited since.
OffersAreChecked ==
  \A w \in Works : Exists(w) /\ w \notin edited => OfferAllowed(works[w].by, works[w].free, works[w].price)

\* An image that is shown has its object in S3, but for prompts whose deletion
\* was tried and did not come through, addresses sent twice, with nothing there
\* or to another place during a deletion, and deletions under way or broken off.
PicturesShow ==
  \A p \in pictures : \/ p.url \in objects
                      \/ damaged \cap {p.of, p.url} # {}
                      \/ \E c \in Crew : crew[c].step = "picture" /\ crew[c].of = p.of
                                          /\ crew[c].place = p.place

\* Prompts keep what is owed to those who paid: a charged sale is not deleted with
\* its prompt, a paid download opens, a free one is recorded once, only approved
\* sellers offer for money, and images that are shown exist.
PaidIsKept == SalesSurvive /\ PaidOpens /\ FreeOnce /\ OffersAreChecked /\ PicturesShow
=============================================================================
