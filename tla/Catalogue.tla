----------------------------- MODULE Catalogue -----------------------------
(***************************************************************************)
(* What is on the shelves: src/categories, src/stores, src/products and    *)
(* src/menus.                                                              *)
(*                                                                         *)
(* A category has a mode, a store copies the category and its mode, and a  *)
(* product copies the category of its store and whether an admin manages   *)
(* it.  The copies are made from rows read before and are repaired by      *)
(* `updateMany` where a category or a store changes.                       *)
(*                                                                         *)
(* Who asks is left out: sellers reach their own store and admins reach    *)
(* managed ones, through the same methods.                                 *)
(***************************************************************************)
CONSTANTS
  Categories, Stores, Products, Menus,  \* ids for rows (bound how many exist)
  Requests,                             \* requests served at a time
  Nothing                               \* null, and a row that does not exist

Mode == {"general", "food", "hybrid"}   \* StoreMode
Kind == {"general", "food"}             \* ProductType

Store   == [category : Categories, mode : Mode, managed : BOOLEAN]
Product == [store : Stores, category : Categories, managed : BOOLEAN,
            kind : Kind, menu : Menus \cup {Nothing},
            isActive : BOOLEAN, isPreOrder : BOOLEAN]

ASSUME CatalogueAssumption ==
  Nothing \notin Mode \cup Store \cup Product \cup Stores \cup Menus

Idle == [at |-> "idle"]
Request ==
       {Idle}
  \cup [at : {"reset"}, category : Categories, was : Mode, mode : Mode]
  \cup [at : {"drop"}, category : Categories]
  \cup [at : {"open"}, row : Store]
  \cup [at : {"move"}, store : Stores, category : Categories, mode : Mode]
  \cup [at : {"insert"}, row : Product]
  \cup [at : {"rewrite"}, product : Products, row : Product,
        setsPreOrder : BOOLEAN]
  \cup [at : {"menu"}, store : Stores]
  \cup [at : {"delete"}, menu : Menus]

VARIABLES
  category,  \* Category.mode
  store,     \* rows of Store
  product,   \* rows of Product
  menu,      \* Menu.storeId
  req        \* the requests in progress

vars == <<category, store, product, menu, req>>

Init ==
  /\ category = [c \in Categories |-> Nothing]
  /\ store    = [s \in Stores |-> Nothing]
  /\ product  = [p \in Products |-> Nothing]
  /\ menu     = [m \in Menus |-> Nothing]
  /\ req      = [r \in Requests |-> Idle]

Go(r, x) == req' = [req EXCEPT ![r] = x]

\* requiredProductType, assertProductTypeAllowed
Fits(kind, mode) == mode = "hybrid" \/ kind = mode

-----------------------------------------------------------------------------
(* Categories                                                              *)

CreateCategory(c, mode) ==
  /\ category[c] = Nothing
  /\ category' = [category EXCEPT ![c] = mode]
  /\ UNCHANGED <<store, product, menu, req>>

\* An update without a mode changes names only.
UpdateCategoryRead(r, c, mode) ==
  /\ req[r] = Idle
  /\ category[c] # Nothing
  /\ Go(r, [at |-> "reset", category |-> c, was |-> category[c], mode |-> mode])
  /\ UNCHANGED <<category, store, product, menu>>

\* Mutant of Hidden: nothing is hidden.
HiddenNone(S, mode) == product
\* The products with the misfits among S taken off sale.
Hidden(S, mode) ==
  [p \in Products |->
     IF p \in S /\ ~Fits(product[p].kind, mode)
     THEN [product[p] EXCEPT !.isActive = FALSE] ELSE product[p]]

StoresIn(c)   == {s \in Stores : store[s] # Nothing /\ store[s].category = c}
ProductsIn(c) == {p \in Products : product[p] # Nothing /\ product[p].category = c}
ProductsOf(s) == {p \in Products : product[p] # Nothing /\ product[p].store = s}

\* Mutant of Remode: the stores keep the mode they were opened with.
RemodeNone(c, was, mode) == store
\* The stores of c follow it, if the mode differs from the one read.
Remode(c, was, mode) ==
  [s \in Stores |-> IF s \in StoresIn(c) /\ mode # was
                    THEN [store[s] EXCEPT !.mode = mode] ELSE store[s]]

UpdateCategoryCommit(r) ==
  /\ req[r].at = "reset"
  /\ LET q == req[r] IN
       /\ category[q.category] # Nothing
       /\ category' = [category EXCEPT ![q.category] = q.mode]
       /\ store'    = Remode(q.category, q.was, q.mode)
       /\ product'  = Hidden(ProductsIn(q.category), q.mode)
  /\ Go(r, Idle)
  /\ UNCHANGED menu

RemoveCategoryRead(r, c) ==
  /\ req[r] = Idle
  /\ category[c] # Nothing
  /\ StoresIn(c) = {}
  /\ Go(r, [at |-> "drop", category |-> c])
  /\ UNCHANGED <<category, store, product, menu>>

RemoveCategoryDelete(r) ==
  /\ req[r].at = "drop"
  /\ category[req[r].category] # Nothing
  /\ category' = [category EXCEPT ![req[r].category] = Nothing]
  /\ Go(r, Idle)
  /\ UNCHANGED <<store, product, menu>>

-----------------------------------------------------------------------------
(* Stores                                                                  *)

\* createAdminStore, and createForOwner for an approved applicant or a seller
\* created by an admin, with the category that the caller has read.
OpenRead(r, c, managed) ==
  /\ req[r] = Idle
  /\ category[c] # Nothing
  /\ Go(r, [at |-> "open", row |-> [category |-> c, mode |-> category[c],
                                    managed |-> managed]])
  /\ UNCHANGED <<category, store, product, menu>>

OpenCommit(r, s) ==
  /\ req[r].at = "open"
  /\ store[s] = Nothing
  /\ store' = [store EXCEPT ![s] = req[r].row]
  /\ Go(r, Idle)
  /\ UNCHANGED <<category, product, menu>>

\* updateCategoryAdmin
MoveRead(r, s, c) ==
  /\ req[r] = Idle
  /\ store[s] # Nothing
  /\ category[c] # Nothing
  /\ Go(r, [at |-> "move", store |-> s, category |-> c, mode |-> category[c]])
  /\ UNCHANGED <<category, store, product, menu>>

\* updateAdminStore moves a store that admins manage and writes its profile.
UpdateAdminStore(r, s, c) ==
  /\ store[s] # Nothing
  /\ store[s].managed
  /\ store[s].category # c
  /\ MoveRead(r, s, c)

\* Mutant of Recategorised: the products keep their category.
RecategorisedNone(P, s, c) == P
Recategorised(P, s, c) ==
  [p \in Products |-> IF p \in ProductsOf(s)
                      THEN [P[p] EXCEPT !.category = c] ELSE P[p]]

MoveCommit(r) ==
  /\ req[r].at = "move"
  /\ LET q == req[r] IN
       /\ store'   = [store EXCEPT ![q.store].category = q.category,
                                   ![q.store].mode = q.mode]
       /\ product' = Recategorised(Hidden(ProductsOf(q.store), q.mode),
                                   q.store, q.category)
  /\ Go(r, Idle)
  /\ UNCHANGED <<category, menu>>

\* Stores are never deleted: the check that it exists cannot become stale.
SetAdminManaged(s, managed) ==
  /\ store[s] # Nothing
  /\ store'   = [store EXCEPT ![s].managed = managed]
  /\ product' = [p \in Products |->
                   IF p \in ProductsOf(s)
                   THEN [product[p] EXCEPT !.managed = managed] ELSE product[p]]
  /\ UNCHANGED <<category, menu, req>>

-----------------------------------------------------------------------------
(* Products                                                                *)

\* The row that the service builds from a store it has read.  A product that
\* is not food loses its menu (normalizeProductSettings).
Row(s, kind, m, isPreOrder) ==
  [store |-> s, category |-> store[s].category, managed |-> store[s].managed,
   kind |-> kind, menu |-> IF kind = "food" THEN m ELSE Nothing,
   isActive |-> TRUE, isPreOrder |-> isPreOrder]

PreOrderAllowed(s, isPreOrder) == isPreOrder => store[s].managed

\* A menu that the request names must be one of the store (assertMenuOwnership).
Owned(s, m) == m # Nothing => menu[m] = s

CreateRead(r, s, kind, m, isPreOrder) ==
  /\ req[r] = Idle
  /\ store[s] # Nothing
  /\ category[store[s].category] # Nothing
  /\ Fits(kind, store[s].mode)
  /\ kind = "food" => Owned(s, m)
  /\ PreOrderAllowed(s, isPreOrder)
  /\ Go(r, [at |-> "insert", row |-> Row(s, kind, m, isPreOrder)])
  /\ UNCHANGED <<category, store, product, menu>>

CreateInsert(r, p) ==
  /\ req[r].at = "insert"
  /\ product[p] = Nothing
  /\ product' = [product EXCEPT ![p] = req[r].row]
  /\ Go(r, Idle)
  /\ UNCHANGED <<category, store, menu>>

\* Mutant of UpdateRead: a menu is taken as it comes.
UpdateReadAnyMenu(r, p, kind, m, isPreOrder, sets) ==
  /\ req[r] = Idle
  /\ product[p] # Nothing
  /\ LET s == product[p].store IN
       /\ category[store[s].category] # Nothing
       /\ Fits(kind, store[s].mode)
       /\ sets \/ isPreOrder = product[p].isPreOrder
       /\ PreOrderAllowed(s, isPreOrder)
       /\ Go(r, [at |-> "rewrite", product |-> p, setsPreOrder |-> sets,
                 row |-> Row(s, kind, m, isPreOrder)])
  /\ UNCHANGED <<category, store, product, menu>>

\* What the request leaves out (kind, menu, isPreOrder) is taken from the row
\* as it was read; its menu is not checked again.
UpdateRead(r, p, kind, m, isPreOrder, sets) ==
  /\ req[r] = Idle
  /\ product[p] # Nothing
  /\ LET s == product[p].store IN
       /\ category[store[s].category] # Nothing
       /\ Fits(kind, store[s].mode)
       /\ kind = "food" /\ m # product[p].menu => Owned(s, m)
       /\ sets \/ isPreOrder = product[p].isPreOrder
       /\ PreOrderAllowed(s, isPreOrder)
       /\ Go(r, [at |-> "rewrite", product |-> p, setsPreOrder |-> sets,
                 row |-> Row(s, kind, m, isPreOrder)])
  /\ UNCHANGED <<category, store, product, menu>>

\* The update writes the copies and the settings, but not isActive, and
\* isPreOrder only if the request has it.
UpdateWrite(r) ==
  /\ req[r].at = "rewrite"
  /\ LET q == req[r] IN
       product' = [product EXCEPT ![q.product] =
         [q.row EXCEPT !.isActive = product[q.product].isActive,
                       !.isPreOrder = IF q.setsPreOrder THEN @
                                      ELSE product[q.product].isPreOrder]]
  /\ Go(r, Idle)
  /\ UNCHANGED <<category, store, menu>>

\* remove, removeForAdmin and setActiveByAdmin, which has no other check
SetActive(p, isActive) ==
  /\ product[p] # Nothing
  /\ product' = [product EXCEPT ![p].isActive = isActive]
  /\ UNCHANGED <<category, store, menu, req>>

-----------------------------------------------------------------------------
(* Menus                                                                   *)

CreateMenuRead(r, s) ==
  /\ req[r] = Idle
  /\ store[s] # Nothing /\ store[s].mode # "general"
  /\ Go(r, [at |-> "menu", store |-> s])
  /\ UNCHANGED <<category, store, product, menu>>

CreateMenuInsert(r, m) ==
  /\ req[r].at = "menu"
  /\ menu[m] = Nothing
  /\ menu' = [menu EXCEPT ![m] = req[r].store]
  /\ Go(r, Idle)
  /\ UNCHANGED <<category, store, product>>

\* Two writes: the products first.  A menu never changes its store, nor a store
\* its owner, so the check before them cannot become stale.
RemoveMenuDetach(r, m) ==
  /\ req[r] = Idle
  /\ menu[m] # Nothing
  /\ product' = [p \in Products |->
                   IF product[p] # Nothing /\ product[p].menu = m
                   THEN [product[p] EXCEPT !.menu = Nothing] ELSE product[p]]
  /\ Go(r, [at |-> "delete", menu |-> m])
  /\ UNCHANGED <<category, store, menu>>

RemoveMenuDelete(r) ==
  /\ req[r].at = "delete"
  /\ menu[req[r].menu] # Nothing
  /\ menu' = [menu EXCEPT ![req[r].menu] = Nothing]
  /\ Go(r, Idle)
  /\ UNCHANGED <<category, store, product>>

-----------------------------------------------------------------------------

\* A request ends where it is; what it wrote stays.
Fail(r) ==
  /\ req[r] # Idle
  /\ Go(r, Idle)
  /\ UNCHANGED <<category, store, product, menu>>

Begin(r) ==
  \/ \E c \in Categories :
       \/ \E mode \in Mode : UpdateCategoryRead(r, c, mode)
       \/ RemoveCategoryRead(r, c)
       \/ \E managed \in BOOLEAN : OpenRead(r, c, managed)
       \/ \E s \in Stores : MoveRead(r, s, c) \/ UpdateAdminStore(r, s, c)
  \/ \E s \in Stores, kind \in Kind, m \in Menus \cup {Nothing}, b \in BOOLEAN :
       CreateRead(r, s, kind, m, b)
  \/ \E p \in Products, kind \in Kind, m \in Menus \cup {Nothing},
        b \in BOOLEAN, sets \in BOOLEAN : UpdateRead(r, p, kind, m, b, sets)
  \/ \E s \in Stores : CreateMenuRead(r, s)
  \/ \E m \in Menus : RemoveMenuDetach(r, m)

Step(r) ==
  \/ UpdateCategoryCommit(r) \/ RemoveCategoryDelete(r)
  \/ \E s \in Stores : OpenCommit(r, s)
  \/ MoveCommit(r)
  \/ \E p \in Products : CreateInsert(r, p)
  \/ UpdateWrite(r)
  \/ \E m \in Menus : CreateMenuInsert(r, m)
  \/ RemoveMenuDelete(r)

AtOnce ==
  \/ \E c \in Categories, mode \in Mode : CreateCategory(c, mode)
  \/ \E s \in Stores, b \in BOOLEAN : SetAdminManaged(s, b)
  \/ \E p \in Products, b \in BOOLEAN : SetActive(p, b)

Next == AtOnce \/ \E r \in Requests : Begin(r) \/ Step(r) \/ Fail(r)

Spec == Init /\ [][Next]_vars

-----------------------------------------------------------------------------
(* The same, when what a request has read stays true until it is done, as  *)
(* its checks assume.                                                      *)

\* The copies in a product's row are those of its store, and its menu exists.
RowFresh(row) ==
  /\ row.category = store[row.store].category
  /\ row.managed = store[row.store].managed
  /\ Fits(row.kind, store[row.store].mode)
  /\ row.menu # Nothing => menu[row.menu] # Nothing

Fresh ==
  \A r \in Requests : LET q == req[r] IN
    /\ q.at = "reset" => category[q.category] = q.was
    /\ q.at = "drop"  => StoresIn(q.category) = {}
    /\ q.at = "open"  => category[q.row.category] = q.row.mode
    /\ q.at = "move"  => category[q.category] = q.mode
    /\ q.at \in {"insert", "rewrite"} => RowFresh(q.row)
    /\ q.at = "delete" =>
         \A p \in Products : product[p] # Nothing => product[p].menu # q.menu

SerialSpec == Init /\ [][Next /\ Fresh']_vars

-----------------------------------------------------------------------------
(* Properties.                                                             *)

TypeOK ==
  /\ category \in [Categories -> Mode \cup {Nothing}]
  /\ store    \in [Stores -> Store \cup {Nothing}]
  /\ product  \in [Products -> Product \cup {Nothing}]
  /\ menu     \in [Menus -> Stores \cup {Nothing}]
  /\ req      \in [Requests -> Request]

\* The category of a store exists, and the store has its mode: categories are
\* removed only when empty, and a change of mode reaches every store.
StoreFollowsCategory ==
  \A s \in Stores : store[s] # Nothing =>
    category[store[s].category] = store[s].mode

\* "A product's category always mirrors its store's single category"
\* (products.service.ts:247), and so does its flag isAdminManaged, although
\* both are copies that moves and setAdminManaged have to repair.
ProductFollowsStore ==
  \A p \in Products : product[p] # Nothing =>
    /\ product[p].category = store[product[p].store].category
    /\ product[p].managed = store[product[p].store].managed

\* The menu of a product exists and is one of its own store, and only food is
\* on a menu, although a menu is deleted in two writes.
MenusResolve ==
  \A p \in Products : product[p] # Nothing /\ product[p].menu # Nothing =>
    /\ product[p].kind = "food"
    /\ menu[product[p].menu] = product[p].store

\* A product on sale whose kind its store's mode does not allow.
Misfit(p) ==
  /\ product[p] # Nothing
  /\ product[p].isActive
  /\ ~Fits(product[p].kind, store[product[p].store].mode)

\* No change of a category, a store or a product brings a misfit on sale; only
\* an admin who switches it on by hand does.
MisfitsHidden ==
  [][\A p \in Products : Misfit(p)' /\ ~Misfit(p) =>
       \E q \in Products : p = q /\ SetActive(q, TRUE)]_vars

=============================================================================
