----------------------------- MODULE CostProofs -----------------------------
(***************************************************************************)
(* Theorems about what things cost: the time that guesses at the password  *)
(* cost, the fee every edge is priced with, the credits a Books refresh    *)
(* costs; for every number of addresses, tabs, leagues, limits and rates.  *)
(***************************************************************************)
EXTENDS Login, Prefs, Wire, NumberLemmas, TLAPS

---------------------------------------------------------------------------
(* The lockouts.                                                           *)

LEMMA LoginConstants ==
  /\ LimitPerClient \in Nat \ {0} /\ LimitGlobal \in Nat \ {0}
  /\ BaseLockout \in Nat \ {0} /\ MaxLockout \in Nat \ {0}
  /\ Home \in Clients /\ GlobalKey \notin Clients
BY LoginAssumption DEF GlobalKey

LEMMA LimitType ==
  ASSUME NEW key \in Keys
  PROVE  LimitOf(key) \in Nat \ {0}
BY LoginConstants DEF LimitOf

\* The recursive definition of the doubled lockout defines a number.
LEMMA DoubledType == Doubled \in [Nat -> Nat]
<1> DEFINE next == [p \in Nat \X Nat |-> 2 * p[2]]
<1>1. next \in [Nat \X Nat -> Nat] /\ BaseLockout \in Nat
  BY LoginConstants
<1>2. \A i, x \in Nat : next[<<i, x>>] = 2 * x
  OBVIOUS
<1> HIDE DEF next
<1>3. PICK f : Recurses(f, Nat, BaseLockout, next)
  BY <1>1, RecursionExists
<1>4. ASSUME NEW i \in Nat \ {0} PROVE f[i] = 2 * f[i - 1]
  <2>1. i \in Nat /\ f[i - 1] \in Nat
    BY <1>3 DEF Recurses
  <2>2. QED
    BY <1>2, <1>3, <2>1 DEF Recurses
<1>5. f = [k \in Nat |-> IF k = 0 THEN BaseLockout ELSE 2 * f[k - 1]]
  BY <1>3, <1>4 DEF Recurses
<1>6. Doubled = [k \in Nat |-> IF k = 0 THEN BaseLockout ELSE 2 * Doubled[k - 1]]
  BY <1>5 DEF Doubled
<1>7. \A k \in Nat : Doubled[k] = f[k]
  <2> DEFINE bad == {k \in Nat : Doubled[k] # f[k]}
  <2>1. SUFFICES ASSUME bad # {} PROVE FALSE
    OBVIOUS
  <2>2. PICK k \in bad : \A j \in bad : k <= j
    BY <2>1, HasLeast
  <2>3. k # 0 /\ k \in Nat /\ k - 1 \in Nat /\ k - 1 \notin bad
    BY <1>3, <1>6, <2>2 DEF Recurses
  <2>4. QED
    BY <1>4, <1>6, <2>2, <2>3
<1>8. QED
  BY <1>3, <1>6, <1>7 DEF Recurses

LEMMA LockoutType ==
  ASSUME NEW key \in Keys, NEW n \in Nat
  PROVE  Lockout(key, n) \in Nat
BY LimitType, DoubledType, LoginConstants DEF Lockout

\* The price is a sum, which its recursive definition builds up lockout by lockout.
LEMMA PriceGrows ==
  ASSUME NEW key \in Keys
  PROVE  /\ Price(key)[0] = 0
         /\ \A n \in Nat \ {0} : Price(key)[n] =
               IF n < LimitOf(key) THEN 0 ELSE Lockout(key, n) + Price(key)[n - 1]
<1> DEFINE next == [p \in Nat \X Nat |->
                       IF p[1] < LimitOf(key) THEN 0 ELSE Lockout(key, p[1]) + p[2]]
<1>1. next \in [Nat \X Nat -> Nat] /\ 0 \in Nat
  BY LockoutType
<1>2. \A i, x \in Nat :
         next[<<i, x>>] = IF i < LimitOf(key) THEN 0 ELSE Lockout(key, i) + x
  OBVIOUS
<1> HIDE DEF next
<1>3. PICK f : Recurses(f, Nat, 0, next)
  BY <1>1, RecursionExists
<1>4. 0 < LimitOf(key)
  BY LimitType
<1>5. ASSUME NEW i \in Nat \ {0}
      PROVE  f[i] = IF i < LimitOf(key) THEN 0 ELSE Lockout(key, i) + f[i - 1]
  <2>1. i \in Nat /\ f[i - 1] \in Nat
    BY <1>3 DEF Recurses
  <2>2. QED
    BY <1>2, <1>3, <2>1 DEF Recurses
<1>6. f = [n \in Nat |-> IF n < LimitOf(key) THEN 0 ELSE Lockout(key, n) + f[n - 1]]
  BY <1>3, <1>4, <1>5 DEF Recurses
<1>7. Price(key) = [n \in Nat |-> IF n < LimitOf(key) THEN 0
                                  ELSE Lockout(key, n) + Price(key)[n - 1]]
  BY <1>6 DEF Price
<1>8. QED
  BY <1>4, <1>7

---------------------------------------------------------------------------
(* The limiter.                                                            *)

\* The limiter's tables hold counts and times, and each counter has paid.
PaidInv ==
    /\ failures \in [Keys -> Nat] /\ wait \in [Keys -> Nat] /\ served \in [Keys -> Nat]
    /\ GuessesArePaidFor

\* A counter that is cleared, with its lockout over or dropped, owes nothing.
LEMMA ClearedOwesNothing ==
  ASSUME PaidInv, NEW cleared \in SUBSET Keys,
         failures' = [k \in Keys |-> IF k \in cleared THEN 0 ELSE failures[k]],
         wait' = [k \in Keys |-> IF k \in cleared THEN 0 ELSE wait[k]],
         served' = [k \in Keys |-> IF k \in cleared THEN 0 ELSE served[k]]
  PROVE  PaidInv'
<1>1. failures' \in [Keys -> Nat] /\ wait' \in [Keys -> Nat] /\ served' \in [Keys -> Nat]
  BY DEF PaidInv
<1>2. ASSUME NEW k \in Keys PROVE served'[k] + wait'[k] = Price(k)[failures'[k]]
  <2>1. CASE k \in cleared
    BY <2>1, PriceGrows
  <2>2. CASE k \notin cleared
    <3>1. failures'[k] = failures[k] /\ wait'[k] = wait[k] /\ served'[k] = served[k]
      BY <2>2
    <3>2. QED
      BY <3>1 DEF PaidInv, GuessesArePaidFor
  <2>3. QED
    BY <2>1, <2>2
<1>3. QED
  BY <1>1, <1>2 DEF PaidInv, GuessesArePaidFor, Price

\* A wrong password is only counted when neither counter it counts on is locked,
\* so the lockout it brings is owed on top of what has been served.
LEMMA WrongPasswordOwes ==
  ASSUME PaidInv, NEW client \in Clients, WrongPassword(client)
  PROVE  PaidInv'
<1> DEFINE hit == {client, GlobalKey}
           count == [k \in Keys |-> IF k \in hit THEN failures[k] + 1 ELSE failures[k]]
<1>1. /\ wait[client] = 0 /\ wait[GlobalKey] = 0
      /\ failures' = count
      /\ wait' = [k \in Keys |-> IF k \in hit /\ Lockout(k, count[k]) > 0
                                 THEN Lockout(k, count[k]) ELSE wait[k]]
      /\ served' = served
  BY DEF WrongPassword, MayTry
<1>2. ASSUME NEW k \in Keys
      PROVE  /\ failures[k] \in Nat /\ wait[k] \in Nat /\ served[k] \in Nat
             /\ served[k] + wait[k] = Price(k)[failures[k]]
             /\ count[k] \in Nat /\ Lockout(k, count[k]) \in Nat
  <2>1. failures[k] \in Nat /\ count[k] \in Nat
    BY DEF PaidInv
  <2>2. QED
    BY <2>1, LockoutType DEF PaidInv, GuessesArePaidFor
<1>3. failures' \in [Keys -> Nat] /\ wait' \in [Keys -> Nat] /\ served' \in [Keys -> Nat]
  BY <1>1, <1>2 DEF PaidInv
<1>4. ASSUME NEW k \in Keys PROVE served'[k] + wait'[k] = Price(k)[failures'[k]]
  <2>1. CASE k \in hit
    <3>1. wait[k] = 0 /\ served[k] = Price(k)[failures[k]]
      BY <1>1, <1>2, <2>1
    <3> DEFINE n == failures[k] + 1
    <3>2. failures'[k] = n /\ count[k] = n /\ n \in Nat \ {0} /\ n - 1 = failures[k]
      BY <1>1, <1>2, <2>1
    <3>3. Price(k)[n] = IF n < LimitOf(k) THEN 0 ELSE Lockout(k, n) + Price(k)[n - 1]
      BY <3>2, PriceGrows
    <3>4. wait'[k] = Lockout(k, n)
      BY <1>1, <1>2, <2>1, <3>1, <3>2
    <3>5. CASE n < LimitOf(k)
      <4>1. Price(k)[failures[k]] = 0
        BY <3>2, <3>5, PriceGrows, LimitType
      <4>2. Lockout(k, n) = 0
        BY <3>5 DEF Lockout
      <4>3. QED
        BY <1>1, <3>1, <3>2, <3>3, <3>4, <3>5, <4>1, <4>2
    <3>6. CASE ~(n < LimitOf(k))
      BY <1>1, <1>2, <3>1, <3>2, <3>3, <3>4, <3>6
    <3>7. QED
      BY <3>5, <3>6
  <2>2. CASE k \notin hit
    <3>1. failures'[k] = failures[k] /\ wait'[k] = wait[k] /\ served'[k] = served[k]
      BY <1>1, <2>2
    <3>2. QED
      BY <1>2, <3>1
  <2>3. QED
    BY <2>1, <2>2
<1>5. QED
  BY <1>3, <1>4 DEF PaidInv, GuessesArePaidFor, Price

LEMMA PaidStep ==
  ASSUME PaidInv, [LoginNext]_loginVars
  PROVE  PaidInv'
<1>1. CASE OwnerLogsIn
  <2>1. ClearedBy(Home) \in SUBSET Keys
    BY LoginConstants DEF ClearedBy, Keys
  <2>2. QED
    BY <1>1, <2>1, ClearedOwesNothing DEF OwnerLogsIn
<1>2. CASE Redeployed
  <2>1. /\ failures' = [k \in Keys |-> IF k \in Keys THEN 0 ELSE failures[k]]
        /\ wait' = [k \in Keys |-> IF k \in Keys THEN 0 ELSE wait[k]]
        /\ served' = [k \in Keys |-> IF k \in Keys THEN 0 ELSE served[k]]
    BY <1>2 DEF Redeployed
  <2>2. QED
    BY <2>1, ClearedOwesNothing
<1>3. CASE TimePasses
  <2>1. ASSUME NEW k \in Keys
        PROVE  /\ wait'[k] \in Nat /\ served'[k] \in Nat
               /\ served'[k] + wait'[k] = served[k] + wait[k]
    BY <1>3 DEF TimePasses, PaidInv
  <2>2. wait' \in [Keys -> Nat] /\ served' \in [Keys -> Nat] /\ failures' = failures
    BY <1>3, <2>1 DEF TimePasses
  <2>3. QED
    BY <2>1, <2>2 DEF PaidInv, GuessesArePaidFor, Price
<1>4. CASE OwnerLogsOut \/ UNCHANGED loginVars
  BY <1>4 DEF OwnerLogsOut, loginVars, PaidInv, GuessesArePaidFor, Price
<1>5. QED
  BY <1>1, <1>2, <1>3, <1>4, WrongPasswordOwes DEF LoginNext

\* Every guess is paid for, whoever else guesses and whoever logs in: what a
\* counter has served and has left to wait is the sum of its lockouts.
THEOREM GuessesPay == LoginSpec => []GuessesArePaidFor
<1>1. LoginInit => PaidInv
  <2>1. ASSUME LoginInit, NEW k \in Keys
        PROVE  served[k] + wait[k] = Price(k)[failures[k]]
    BY <2>1, PriceGrows DEF LoginInit
  <2>2. QED
    BY <2>1 DEF LoginInit, PaidInv, GuessesArePaidFor
<1>2. PaidInv => GuessesArePaidFor
  BY DEF PaidInv
<1>3. QED
  BY <1>1, <1>2, PaidStep, PTL DEF LoginSpec

---------------------------------------------------------------------------
(* The settings form.                                                      *)

\* Every variable of the settings stays in its type.
PrefsTypes ==
    /\ boot \in {"down", "columns", "up"}
    /\ settings \in PrefsRows \cup {None}
    /\ form \in [Tabs -> PostedForms \cup {None}]
    /\ lastPost \in [Tabs -> PostedForms \cup {None}]
    /\ posts \in Nat
    /\ outdated \in BOOLEAN

\* Until the first page is opened there is no form; without a row nothing was
\* decided; and a database that is being migrated has the fee of old, or the one
\* the owner had typed over it.
BootOK ==
    /\ boot # "up" \/ settings = None =>
          \A tab \in Tabs : form[tab] = None /\ lastPost[tab] = None
    /\ settings = None => meant = None
    /\ boot = "down" => settings = None
    /\ boot = "columns" =>
          /\ settings # None /\ settings.venue = DefaultVenue
          /\ settings.fee = IF meant = None THEN LegacyFee ELSE meant

\* A form made from the row as it is has its fee, or one that was refused; and
\* what was posted and accepted was made from an earlier row.
FormsOK ==
    /\ settings # None => settings.updated <= posts
    /\ \A tab \in Tabs :
          /\ form[tab] # None => form[tab].base <= settings.updated
          /\ form[tab] # None /\ form[tab].base = settings.updated /\ ValidRate(form[tab].fee)
                => form[tab].fee = settings.fee
          /\ lastPost[tab] # None => lastPost[tab].base <= settings.updated
          /\ lastPost[tab] # None /\ ValidRate(lastPost[tab].fee)
                => lastPost[tab].base < settings.updated

PrefsInv == PrefsTypes /\ BootOK /\ FormsOK /\ FeeIsAsMeant

LEMMA PrefsConstants ==
  /\ DefaultVenue \in Venues /\ Published[DefaultVenue] = LegacyFee
  /\ None \notin TypedRates /\ None \notin PrefsRows /\ None \notin PostedForms
  /\ LegacyFee \in Rates /\ TypedRates \subseteq Rates
  /\ \A v \in Venues : Published[v] \in Rates
BY PrefsAssumption DEF Rates

\* get_prefs gives a row, and the fee it has is the one that was meant.
LEMMA PrefsRowType ==
  ASSUME PrefsInv
  PROVE  /\ PrefsRow \in PrefsRows /\ PrefsRow # None
         /\ settings # None => PrefsRow = settings
         /\ settings = None => PrefsRow.fee = Published[PrefsRow.venue] /\ PrefsRow.updated = 0
<1>1. DefaultFields \in PrefsRows
  BY PrefsConstants DEF DefaultFields, PrefsFields, PrefsRows
<1>2. QED
  BY <1>1, PrefsConstants
  DEF PrefsRow, DefaultFields, PrefsFields, PrefsInv, PrefsTypes

LEMMA BootStep ==
  ASSUME PrefsInv,
         Reconciled \/ DiedBeforeReconciling
         \/ \E fee \in {r \in TypedRates : ValidRate(r)} \cup {None} : DatabaseOpened(fee)
  PROVE  PrefsInv'
<1> USE DEF PrefsInv, PrefsTypes, BootOK, FormsOK, FeeIsAsMeant
<1>1. ASSUME NEW fee \in {r \in TypedRates : ValidRate(r)} \cup {None}, DatabaseOpened(fee)
      PROVE  PrefsInv'
  <2>1. CASE fee = None
    BY <1>1, <2>1 DEF DatabaseOpened
  <2>2. CASE fee # None
    <3>1. PrefsFields(DefaultVenue, fee, 0) \in PrefsRows
      BY <1>1, <2>2, PrefsConstants DEF PrefsRows, PrefsFields
    <3>2. QED
      BY <1>1, <2>2, <3>1, PrefsConstants DEF DatabaseOpened, PrefsFields
  <2>3. QED
    BY <2>1, <2>2
<1>2. CASE Reconciled
  <2>1. settings \in PrefsRows /\ settings.venue = DefaultVenue
    BY <1>2 DEF Reconciled
  <2>2. settings' = settings
    BY <1>2, <2>1, PrefsConstants DEF Reconciled, PrefsRows
  <2>3. QED
    BY <1>2, <2>1, <2>2, PrefsConstants DEF Reconciled
<1>3. CASE DiedBeforeReconciling
  BY <1>3, PrefsConstants DEF DiedBeforeReconciling
<1>4. QED
  BY <1>1, <1>2, <1>3

LEMMA OpenedStep ==
  ASSUME PrefsInv, NEW tab \in Tabs, SettingsOpened(tab)
  PROVE  PrefsInv'
<1>1. /\ boot = "up" /\ boot' = "up" /\ settings' = PrefsRow
      /\ form' = [form EXCEPT ![tab] = FormOf(PrefsRow)]
      /\ UNCHANGED <<lastPost, posts, meant, outdated>>
  BY DEF SettingsOpened
<1>2. PrefsRow \in PrefsRows /\ PrefsRow # None
  BY PrefsRowType
<1>3. FormOf(PrefsRow) \in PostedForms
  BY <1>2 DEF FormOf, PrefsRows, PostedForms
<1>4. CASE settings # None
  <2>1. settings' = settings
    BY <1>1, <1>4, PrefsRowType
  <2>2. PrefsTypes'
    BY <1>1, <1>2, <1>3 DEF PrefsInv, PrefsTypes
  <2>3. BootOK' /\ FeeIsAsMeant'
    BY <1>1, <1>4, <2>1 DEF PrefsInv, BootOK, FeeIsAsMeant
  <2>4. \A t \in Tabs : form'[t] = IF t = tab THEN FormOf(settings) ELSE form[t]
    BY <1>1, <1>4, PrefsRowType DEF PrefsInv, PrefsTypes
  <2>5. settings.updated \in Nat
    BY <1>4 DEF PrefsInv, PrefsTypes, PrefsRows
  <2>6. FormsOK'
    BY <1>1, <2>1, <2>4, <2>5 DEF PrefsInv, FormsOK, FormOf
  <2>7. QED
    BY <2>2, <2>3, <2>6 DEF PrefsInv
<1>5. CASE settings = None
  <2>1. PrefsRow.fee = Published[PrefsRow.venue] /\ PrefsRow.updated = 0
    BY <1>5, PrefsRowType
  <2>2. /\ settings' = PrefsRow /\ settings' # None /\ PrefsRow.updated = 0 /\ meant = None
        /\ posts' \in Nat /\ FormOf(PrefsRow).base = 0 /\ FormOf(PrefsRow).fee = PrefsRow.fee
    BY <1>1, <1>2, <1>5, <2>1 DEF PrefsInv, PrefsTypes, BootOK, FormOf
  <2>3. \A t \in Tabs : /\ lastPost'[t] = None
                         /\ form'[t] = IF t = tab THEN FormOf(PrefsRow) ELSE None
    BY <1>1, <1>5 DEF PrefsInv, PrefsTypes, BootOK
  <2>4. PrefsTypes'
    BY <1>1, <1>2, <1>3 DEF PrefsInv, PrefsTypes
  <2>5. BootOK' /\ FeeIsAsMeant'
    BY <1>1, <2>1, <2>2 DEF BootOK, FeeIsAsMeant
  <2>6. FormsOK'
    BY <2>2, <2>3 DEF FormsOK
  <2>7. QED
    BY <2>4, <2>5, <2>6 DEF PrefsInv
<1>6. QED
  BY <1>4, <1>5

\* A refused form is shown as it was sent; nothing else changes.
LEMMA RefusedStep ==
  ASSUME PrefsInv, NEW tab \in Tabs, NEW sent \in PostedForms, ~ValidRate(sent.fee),
         settings # None, boot = "up", sent.base <= settings.updated,
         form' = [form EXCEPT ![tab] = sent], lastPost' = [lastPost EXCEPT ![tab] = sent],
         posts' = posts + 1, settings' = settings, UNCHANGED <<boot, outdated, meant>>
  PROVE  PrefsInv'
<1>1. PrefsTypes'
  BY DEF PrefsInv, PrefsTypes
<1>2. BootOK' /\ FeeIsAsMeant'
  BY DEF PrefsInv, BootOK, FeeIsAsMeant
<1>3. ASSUME NEW t \in Tabs
      PROVE  /\ t = tab => form'[t] = sent /\ lastPost'[t] = sent
             /\ t # tab => form'[t] = form[t] /\ lastPost'[t] = lastPost[t]
  BY DEF PrefsInv, PrefsTypes
<1>4. settings.updated \in Nat /\ settings.updated <= posts /\ posts \in Nat
  BY DEF PrefsInv, PrefsTypes, FormsOK, PrefsRows
<1>5. FormsOK'
  BY <1>3, <1>4 DEF PrefsInv, FormsOK
<1>6. QED
  BY <1>1, <1>2, <1>5 DEF PrefsInv

\* A form that is accepted makes a new row, older than no form.
LEMMA AcceptedStep ==
  ASSUME PrefsInv, NEW tab \in Tabs, NEW sent \in PostedForms, NEW row \in PrefsRows,
         settings # None, boot = "up", sent.base <= settings.updated,
         row.updated = posts + 1, settings' = row,
         form' = [form EXCEPT ![tab] = FormOf(row)],
         lastPost' = [lastPost EXCEPT ![tab] = sent],
         posts' = posts + 1, boot' = boot, outdated' \in BOOLEAN,
         ~outdated' => row.fee = (IF meant' = None THEN Published[row.venue] ELSE meant')
  PROVE  PrefsInv'
<1>1. FormOf(row) \in PostedForms /\ settings' # None
  BY PrefsConstants DEF FormOf, PrefsRows, PostedForms
<1>2. PrefsTypes'
  BY <1>1 DEF PrefsInv, PrefsTypes
<1>3. BootOK' /\ FeeIsAsMeant'
  BY <1>1 DEF PrefsInv, BootOK, FeeIsAsMeant
<1>4. settings.updated \in Nat /\ settings.updated <= posts /\ posts \in Nat
  BY DEF PrefsInv, PrefsTypes, FormsOK, PrefsRows
<1>5. ASSUME NEW t \in Tabs, form'[t] # None
      PROVE  /\ form'[t].base <= row.updated
             /\ form'[t].base = row.updated => form'[t].fee = row.fee
  <2>1. CASE t = tab
    <3>1. form'[t] = FormOf(row)
      BY <2>1 DEF PrefsInv, PrefsTypes
    <3>2. QED
      BY <1>4, <3>1 DEF FormOf
  <2>2. CASE t # tab
    <3>1. form'[t] = form[t] /\ form[t] \in PostedForms
      BY <1>5, <2>2 DEF PrefsInv, PrefsTypes
    <3>2. form[t].base \in Nat /\ form[t].base <= settings.updated
      BY <1>5, <3>1 DEF PrefsInv, FormsOK, PostedForms
    <3>3. QED
      BY <1>4, <3>1, <3>2
  <2>3. QED
    BY <2>1, <2>2
<1>6. ASSUME NEW t \in Tabs, lastPost'[t] # None PROVE lastPost'[t].base < row.updated
  <2>1. CASE t = tab
    <3>1. lastPost'[t] = sent /\ sent.base \in Nat
      BY <2>1 DEF PrefsInv, PrefsTypes, PostedForms
    <3>2. QED
      BY <1>4, <3>1
  <2>2. CASE t # tab
    <3>1. lastPost'[t] = lastPost[t] /\ lastPost[t] \in PostedForms
      BY <1>6, <2>2 DEF PrefsInv, PrefsTypes
    <3>2. lastPost[t].base \in Nat /\ lastPost[t].base <= settings.updated
      BY <1>6, <3>1 DEF PrefsInv, FormsOK, PostedForms
    <3>3. QED
      BY <1>4, <3>1, <3>2
  <2>3. QED
    BY <2>1, <2>2
<1>7. FormsOK'
  <2>1. ASSUME NEW t \in Tabs, lastPost'[t] # None PROVE lastPost'[t].base <= row.updated
    <3>1. lastPost'[t].base \in Nat
      BY <1>2, <2>1 DEF PrefsTypes, PostedForms
    <3>2. QED
      BY <1>4, <1>6, <2>1, <3>1
  <2>2. QED
    BY <1>4, <1>5, <1>6, <2>1 DEF FormsOK
<1>8. QED
  BY <1>2, <1>3, <1>7 DEF PrefsInv

LEMMA SavedStep ==
  ASSUME PrefsInv, NEW tab \in Tabs, NEW venue \in Venues, NEW fee \in TypedRates,
         Saved(tab, venue, fee)
  PROVE  PrefsInv'
<1> DEFINE sent == [venue |-> venue, fee |-> fee, base |-> form[tab].base]
<1>1. /\ form[tab] # None /\ boot = "up" /\ posts' = posts + 1 /\ boot' = boot
      /\ lastPost' = [lastPost EXCEPT ![tab] = sent]
      /\ Post(tab, venue, fee, form[tab].base)
      /\ meant' = IF \/ ~ValidRate(fee)
                     \/ fee = form[tab].fee /\ meant = None
                  THEN meant
                  ELSE IF fee \in {Published[venue], Published[settings.venue]} THEN None
                  ELSE fee
  BY DEF Saved, Post
<1>2. /\ settings # None /\ settings \in PrefsRows /\ PrefsRow = settings
      /\ form[tab] \in PostedForms /\ form[tab].base <= settings.updated /\ fee \in Rates
  BY <1>1, PrefsRowType, PrefsConstants DEF PrefsInv, PrefsTypes, BootOK, FormsOK
<1>3. sent \in PostedForms /\ sent.base = form[tab].base /\ sent.fee = fee
  BY <1>2 DEF PostedForms
<1>4. CASE ~ValidRate(fee)
  <2>1. /\ form' = [form EXCEPT ![tab] = sent] /\ settings' = settings /\ meant' = meant
        /\ outdated' = outdated
    BY <1>1, <1>2, <1>4 DEF Post
  <2> HIDE DEF sent
  <2>2. QED
    BY <1>1, <1>2, <1>3, <1>4, <2>1, RefusedStep
<1>5. CASE ValidRate(fee)
  <2> DEFINE row == PrefsFields(venue, CarriedFee(settings, venue, fee), posts + 1)
  <2>1. /\ settings' = row /\ form' = [form EXCEPT ![tab] = FormOf(row)]
        /\ outdated' = (outdated \/ form[tab].base # settings.updated)
    BY <1>1, <1>2, <1>5 DEF Post
  <2>2. row \in PrefsRows /\ row.updated = posts + 1 /\ row.venue = venue
        /\ row.fee = CarriedFee(settings, venue, fee)
    BY <1>2, PrefsConstants
    DEF PrefsFields, CarriedFee, PrefsRows, PrefsInv, PrefsTypes
  <2>3. outdated' \in BOOLEAN
    BY <2>1 DEF PrefsInv, PrefsTypes
  <2>4. ASSUME ~outdated'
        PROVE  row.fee = (IF meant' = None THEN Published[venue] ELSE meant')
    <3>1. ~outdated /\ form[tab].base = settings.updated
      BY <2>1, <2>4 DEF PrefsInv, PrefsTypes
    <3>2. settings.fee = IF meant = None THEN Published[settings.venue] ELSE meant
      BY <1>1, <1>2, <3>1 DEF PrefsInv, FeeIsAsMeant
    <3>3. ValidRate(form[tab].fee) => form[tab].fee = settings.fee
      BY <1>1, <3>1 DEF PrefsInv, FormsOK
    <3>4. fee # None
      BY PrefsConstants
    <3>5. CASE fee = form[tab].fee /\ meant = None
      BY <1>1, <1>5, <2>2, <3>2, <3>3, <3>5 DEF CarriedFee
    <3>6. CASE ~(fee = form[tab].fee /\ meant = None)
      BY <1>1, <1>5, <2>2, <3>4, <3>6 DEF CarriedFee
    <3>7. QED
      BY <3>5, <3>6
  <2> HIDE DEF row, sent
  <2>5. QED
    BY <1>1, <1>2, <1>3, <2>1, <2>2, <2>3, <2>4, AcceptedStep
<1>6. QED
  BY <1>4, <1>5

\* A reload posts what was posted before: it is refused again, or it was made from
\* an older row.
LEMMA ReloadedStep ==
  ASSUME PrefsInv, NEW tab \in Tabs, Reloaded(tab)
  PROVE  PrefsInv'
<1> DEFINE sent == lastPost[tab]
<1>1. /\ sent # None /\ boot = "up" /\ posts' = posts + 1 /\ boot' = boot /\ meant' = meant
      /\ Post(tab, sent.venue, sent.fee, sent.base)
  BY DEF Reloaded, Post
<1>2. sent \in PostedForms
  BY <1>1 DEF PrefsInv, PrefsTypes
<1>3. sent = [venue |-> sent.venue, fee |-> sent.fee, base |-> sent.base]
  BY <1>2 DEF PostedForms
<1>4. /\ settings # None /\ settings \in PrefsRows /\ PrefsRow = settings
      /\ sent.base <= settings.updated /\ sent.venue \in Venues /\ sent.fee \in Rates
      /\ ValidRate(sent.fee) => sent.base < settings.updated
  BY <1>1, <1>2, PrefsRowType DEF PrefsInv, PrefsTypes, BootOK, FormsOK, PostedForms
<1>5. lastPost' = [lastPost EXCEPT ![tab] = sent]
  BY <1>1, <1>3 DEF Post
<1>6. CASE ~ValidRate(sent.fee)
  <2>1. form' = [form EXCEPT ![tab] = sent] /\ settings' = settings /\ outdated' = outdated
    BY <1>1, <1>3, <1>4, <1>6 DEF Post
  <2> HIDE DEF sent
  <2>2. QED
    BY <1>1, <1>2, <1>4, <1>5, <1>6, <2>1, RefusedStep
<1>7. CASE ValidRate(sent.fee)
  <2> DEFINE row == PrefsFields(sent.venue, CarriedFee(settings, sent.venue, sent.fee), posts + 1)
  <2>1. /\ settings' = row /\ form' = [form EXCEPT ![tab] = FormOf(row)]
        /\ outdated' = (outdated \/ sent.base # settings.updated)
    BY <1>1, <1>4, <1>7 DEF Post
  <2>2. row \in PrefsRows /\ row.updated = posts + 1
    BY <1>4, PrefsConstants
    DEF PrefsFields, CarriedFee, PrefsRows, PrefsInv, PrefsTypes
  <2>3. outdated' = TRUE
    <3>1. sent.base \in Nat /\ settings.updated \in Nat
      BY <1>2, <1>4 DEF PostedForms, PrefsRows
    <3>2. sent.base # settings.updated
      BY <1>4, <1>7, <3>1
    <3>3. QED
      BY <2>1, <3>2
  <2> HIDE DEF row, sent
  <2>4. QED
    BY <1>1, <1>2, <1>4, <1>5, <2>1, <2>2, <2>3, AcceptedStep
<1>8. QED
  BY <1>6, <1>7

LEMMA PrefsInvariant == PrefsSpec => []PrefsInv
<1>1. PrefsInit => PrefsInv
  <2>1. SUFFICES ASSUME PrefsInit PROVE PrefsInv
    OBVIOUS
  <2>2. PrefsTypes
    BY <2>1 DEF PrefsInit, PrefsTypes
  <2>3. \A tab \in Tabs : form[tab] = None /\ lastPost[tab] = None
    BY <2>1 DEF PrefsInit
  <2>4. BootOK /\ FormsOK /\ FeeIsAsMeant
    BY <2>1, <2>3 DEF PrefsInit, BootOK, FormsOK, FeeIsAsMeant
  <2>5. QED
    BY <2>2, <2>4 DEF PrefsInv
<1>2. PrefsInv /\ [PrefsNext]_prefsVars => PrefsInv'
  <2>1. PrefsInv /\ UNCHANGED prefsVars => PrefsInv'
    BY DEF prefsVars, PrefsInv, PrefsTypes, BootOK, FormsOK, FeeIsAsMeant
  <2>2. QED
    BY <2>1, BootStep, OpenedStep, SavedStep, ReloadedStep DEF PrefsNext
<1>3. QED
  BY <1>1, <1>2, PTL DEF PrefsSpec

\* As long as every form was made from the row as it is, the fee is the venue's
\* own or exactly the one the owner typed, never the other venue's.
THEOREM FeesAreAsMeant == PrefsSpec => []FeeIsAsMeant
<1>1. PrefsInv => FeeIsAsMeant
  BY DEF PrefsInv
<1>2. QED
  BY <1>1, PrefsInvariant, PTL

---------------------------------------------------------------------------
(* Credits.                                                                *)

Recorded == IF creditsUsed = None THEN 0 ELSE creditsUsed

\* The credits of answers that were lost: of all attempts but the answered ones.
Unrecorded(a, l, t) == CreditCost * (Retries * a + (Retries + 1) * l + t)

\* Every variable of the refresh stays in its type.
WireTypes ==
    /\ used \in Nat /\ usedBefore \in Nat /\ wirePc \in {"idle", "asking"}
    /\ league \in Nat /\ attempt \in Nat /\ answered \in Nat /\ lost \in Nat
    /\ creditsUsed \in Nat \cup {None} /\ creditsRemaining \in Int \cup {None}
    /\ quotas \in Seq([used : Int \cup {None}, remaining : Int \cup {None}])

\* Each league is answered or lost, the attempts of one do not exceed the retries,
\* and what is charged is recorded but for the lost answers.
CreditsInv ==
    /\ league = answered + lost /\ league <= Enabled
    /\ attempt <= Retries /\ (attempt > 0 => league < Enabled)
    /\ Recorded <= CreditCost * answered
    /\ used - usedBefore <= Recorded + Unrecorded(answered, lost, attempt)

\* What is said to remain did, when it was said.
RemainingInv ==
    /\ creditsRemaining # None => creditsRemaining >= Budget - used
    /\ \A i \in DOMAIN quotas :
          quotas[i].remaining # None => quotas[i].remaining >= Budget - used

WireInv == WireTypes /\ CreditsInv /\ RemainingInv

LEMMA WireConstants ==
  /\ Enabled \in Nat /\ CreditCost \in Nat /\ Retries \in Nat /\ Budget \in Nat
  /\ None \notin Int /\ None \notin [cost : Int, remaining : Int]
  /\ None \notin [used : Int \cup {None}, remaining : Int \cup {None}]
BY WireAssumption

\* What one more lost attempt, request or answered request may leave unrecorded.
LEMMA UnrecordedGrows ==
  ASSUME NEW a \in Nat, NEW l \in Nat, NEW t \in Nat, t <= Retries
  PROVE  /\ Unrecorded(a, l, t) \in Nat
         /\ Unrecorded(a, l, t + 1) = Unrecorded(a, l, t) + CreditCost
         /\ Unrecorded(a + 1, l, 0) >= Unrecorded(a, l, t)
         /\ Unrecorded(a, l + 1, 0) >= Unrecorded(a, l, t) + CreditCost
<1> DEFINE n == Retries * a + (Retries + 1) * l
<1>1. CreditCost \in Nat /\ Retries \in Nat
  BY WireConstants
<1>2. n \in Nat /\ Retries * (a + 1) + (Retries + 1) * l = n + Retries
      /\ Retries * a + (Retries + 1) * (l + 1) = n + Retries + 1
  BY <1>1
<1>3. /\ Unrecorded(a, l, t) = CreditCost * (n + t)
      /\ Unrecorded(a, l, t + 1) = CreditCost * (n + (t + 1))
      /\ Unrecorded(a + 1, l, 0) = CreditCost * (n + Retries)
      /\ Unrecorded(a, l + 1, 0) = CreditCost * (n + Retries + 1)
  BY <1>1, <1>2 DEF Unrecorded
<1> HIDE DEF n
<1>4. /\ CreditCost * (n + t) \in Nat
      /\ CreditCost * (n + (t + 1)) = CreditCost * (n + t) + CreditCost
      /\ CreditCost * (n + Retries + 1) = CreditCost * (n + Retries) + CreditCost
  BY <1>1, <1>2
<1>5. CreditCost * (n + Retries) = CreditCost * (n + t) + CreditCost * (Retries - t)
  BY <1>1, <1>2
<1>6. CreditCost * (Retries - t) \in Nat
  <2>1. Retries - t \in Nat
    BY <1>1
  <2>2. QED
    BY <1>1, <2>1
<1>7. QED
  BY <1>1, <1>2, <1>3, <1>4, <1>5, <1>6

\* What the invariant says of the counts.
LEMMA Counted ==
  ASSUME WireInv
  PROVE  /\ Enabled \in Nat /\ CreditCost \in Nat /\ Retries \in Nat /\ Budget \in Nat
         /\ used \in Nat /\ usedBefore \in Nat /\ Recorded \in Nat
         /\ league \in Nat /\ attempt \in Nat /\ answered \in Nat /\ lost \in Nat
         /\ league = answered + lost /\ league <= Enabled
         /\ attempt <= Retries /\ (attempt > 0 => league < Enabled)
         /\ Recorded <= CreditCost * answered
         /\ used - usedBefore <= Recorded + Unrecorded(answered, lost, attempt)
         /\ CreditCost * answered \in Nat
<1>1. /\ answered \in Nat /\ Recorded \in Nat
  BY DEF WireInv, WireTypes, Recorded
<1>2. CreditCost * answered \in Nat
  BY <1>1, WireConstants
<1>3. QED
  BY <1>1, <1>2, WireConstants DEF WireInv, WireTypes, CreditsInv

\* What the types and the charge of a request give every action.
LEMMA ChargedMore ==
  ASSUME WireInv, NEW cost \in {0, CreditCost}, Charged(cost), Asking
  PROVE  /\ cost \in Nat /\ cost <= CreditCost /\ used' \in Nat /\ used' = used + cost
         /\ wirePc = "asking" /\ league < Enabled
         /\ Unrecorded(answered, lost, attempt) \in Nat /\ Recorded \in Nat
<1>1. /\ cost \in Nat /\ cost <= CreditCost /\ used' = used + cost
      /\ wirePc = "asking" /\ league < Enabled
  BY WireConstants DEF Charged, Asking
<1>2. Unrecorded(answered, lost, attempt) \in Nat /\ Recorded \in Nat
  BY Counted, UnrecordedGrows
<1>3. QED
  BY <1>1, <1>2, Counted

LEMMA RemainingStays ==
  ASSUME WireInv, used' \in Nat, used' >= used, UNCHANGED quotas,
         \/ creditsRemaining' = creditsRemaining
         \/ creditsRemaining' \in Int /\ creditsRemaining' >= Budget - used'
  PROVE  RemainingInv'
<1>1. ASSUME NEW i \in DOMAIN quotas PROVE quotas[i].remaining \in Int \cup {None}
  <2> DEFINE Rows == [used : Int \cup {None}, remaining : Int \cup {None}]
  <2>1. quotas \in Seq(Rows)
    BY DEF WireInv, WireTypes
  <2> HIDE DEF Rows
  <2>2. quotas[i] \in Rows
    BY <2>1
  <2>3. QED
    BY <2>2 DEF Rows
<1>2. used \in Nat /\ Budget \in Nat
  BY Counted
<1>3. creditsRemaining \in Int \cup {None} /\ None \notin Int
  BY WireConstants DEF WireInv, WireTypes
<1>4. creditsRemaining' # None => creditsRemaining' >= Budget - used'
  BY <1>2, <1>3 DEF WireInv, RemainingInv
<1>5. ASSUME NEW i \in DOMAIN quotas, quotas[i].remaining # None
      PROVE  quotas[i].remaining >= Budget - used'
  <2>1. quotas[i].remaining \in Int /\ quotas[i].remaining >= Budget - used
    BY <1>1, <1>5 DEF WireInv, RemainingInv
  <2>2. QED
    BY <1>2, <2>1
<1>6. QED
  BY <1>4, <1>5 DEF RemainingInv

LEMMA AnsweredStep ==
  ASSUME WireInv, NEW cost \in {0, CreditCost}, NEW stated \in BOOLEAN, Answered(cost, stated)
  PROVE  WireInv'
<1> DEFINE quota == IF stated THEN [cost |-> cost, remaining |-> Budget - used - cost] ELSE None
<1>1. /\ Charged(cost) /\ Asking
      /\ creditsUsed' = Spent(quota) /\ creditsRemaining' = RemainingAfter(quota)
      /\ league' = league + 1 /\ attempt' = 0 /\ answered' = answered + 1
      /\ UNCHANGED <<wirePc, lost, usedBefore, quotas>>
  BY DEF Answered
<1>2. /\ cost \in Nat /\ cost <= CreditCost /\ used' \in Nat /\ used' = used + cost
      /\ league < Enabled
      /\ Unrecorded(answered, lost, attempt) \in Nat /\ Recorded \in Nat
  BY <1>1, ChargedMore
<1>3. /\ creditsUsed' = Recorded + IF stated THEN cost ELSE CreditCost
      /\ creditsRemaining' = IF stated THEN Budget - used' ELSE creditsRemaining
  <2>1. CASE stated
    <3>1. quota = [cost |-> cost, remaining |-> Budget - used - cost]
      BY <2>1
    <3>2. quota # None /\ quota.cost = cost /\ quota.remaining = Budget - used'
      BY <1>2, <3>1, WireConstants DEF WireInv, WireTypes
    <3> HIDE DEF quota
    <3>3. QED
      BY <1>1, <2>1, <3>2 DEF Spent, RemainingAfter, Recorded
  <2>2. CASE ~stated
    BY <1>1, <2>2 DEF Spent, RemainingAfter, Recorded
  <2>3. QED
    BY <2>1, <2>2
<1>4. creditsUsed' \in Nat /\ Recorded' = creditsUsed'
  <2>1. creditsUsed' \in Nat
    BY <1>2, <1>3, Counted
  <2>2. creditsUsed' # None
    BY <2>1, WireConstants
  <2>3. QED
    BY <2>1, <2>2 DEF Recorded
<1>5. creditsRemaining' \in Int \cup {None}
  BY <1>2, <1>3, WireConstants DEF WireInv, WireTypes
<1>6. WireTypes'
  BY <1>1, <1>2, <1>4, <1>5 DEF WireInv, WireTypes
<1>7. CreditsInv'
  <2>1. CreditCost * (answered + 1) = CreditCost * answered + CreditCost
    BY Counted
  <2>2. /\ Unrecorded(answered + 1, lost, 0) >= Unrecorded(answered, lost, attempt)
        /\ Unrecorded(answered + 1, lost, 0) \in Nat
    <3>1. answered + 1 \in Nat /\ 0 \in Nat /\ 0 <= Retries
      BY Counted
    <3>2. Unrecorded(answered + 1, lost, 0) >= Unrecorded(answered, lost, attempt)
      BY Counted, UnrecordedGrows
    <3>3. Unrecorded(answered + 1, lost, 0) \in Nat
      BY <3>1, Counted, UnrecordedGrows
    <3>4. QED
      BY <3>2, <3>3
  <2>3. Recorded' <= CreditCost * (answered + 1)
    BY <1>2, <1>3, <1>4, <2>1, Counted
  <2>4. used' - usedBefore' <= Recorded' + Unrecorded(answered + 1, lost, 0)
    BY <1>1, <1>2, <1>3, <1>4, <2>2, Counted
  <2>5. /\ league' = answered' + lost' /\ league' <= Enabled
        /\ attempt' <= Retries /\ ~(attempt' > 0)
    BY <1>1, <1>2, Counted
  <2>6. Unrecorded(answered', lost', attempt') = Unrecorded(answered + 1, lost, 0)
    BY <1>1
  <2>7. QED
    BY <1>1, <2>3, <2>4, <2>5, <2>6 DEF CreditsInv, Unrecorded
<1>8. RemainingInv'
  <2>1. used' >= used
    BY <1>2 DEF WireInv, WireTypes
  <2>2. \/ creditsRemaining' = creditsRemaining
        \/ creditsRemaining' \in Int /\ creditsRemaining' >= Budget - used'
    BY <1>2, <1>3, Counted
  <2>3. QED
    BY <1>1, <1>2, <2>1, <2>2, RemainingStays
<1>9. QED
  BY <1>6, <1>7, <1>8 DEF WireInv

\* An answer that is lost moves on to the next attempt or the next league.
LEMMA LostStep ==
  ASSUME WireInv, NEW cost \in {0, CreditCost}, Charged(cost), Asking,
         UNCHANGED <<wirePc, answered, creditsUsed, creditsRemaining, usedBefore, quotas>>,
         \/ attempt < Retries /\ attempt' = attempt + 1 /\ UNCHANGED <<league, lost>>
         \/ attempt' = 0 /\ league' = league + 1 /\ lost' = lost + 1
  PROVE  WireInv'
<1>1. /\ cost \in Nat /\ cost <= CreditCost /\ used' \in Nat /\ used' = used + cost
      /\ league < Enabled
      /\ Unrecorded(answered, lost, attempt) \in Nat /\ Recorded \in Nat
  BY ChargedMore
<1>2. Recorded' = Recorded
  BY DEF Recorded
<1>3. WireTypes'
  BY <1>1 DEF WireInv, WireTypes
<1>4. /\ league' = answered' + lost' /\ league' <= Enabled
      /\ attempt' <= Retries /\ (attempt' > 0 => league' < Enabled)
      /\ Recorded' <= CreditCost * answered'
  BY <1>1, <1>2, Counted
<1>5. /\ Unrecorded(answered, lost', attempt') \in Nat
      /\ Unrecorded(answered, lost', attempt')
            >= Unrecorded(answered, lost, attempt) + CreditCost
  <2>1. CASE attempt' = attempt + 1 /\ UNCHANGED <<league, lost>>
    <3>1. Unrecorded(answered, lost', attempt') = Unrecorded(answered, lost, attempt + 1)
      BY <2>1
    <3>2. Unrecorded(answered, lost, attempt + 1)
             = Unrecorded(answered, lost, attempt) + CreditCost
      BY UnrecordedGrows, WireConstants DEF WireInv, WireTypes, CreditsInv
    <3>3. QED
      BY <1>1, <3>1, <3>2, WireConstants
  <2>2. CASE attempt' = 0 /\ lost' = lost + 1
    <3>1. Unrecorded(answered, lost', attempt') = Unrecorded(answered, lost + 1, 0)
      BY <2>2
    <3>2. Unrecorded(answered, lost + 1, 0) >= Unrecorded(answered, lost, attempt) + CreditCost
      BY UnrecordedGrows, Counted
    <3>3. Unrecorded(answered, lost + 1, 0) \in Nat
      <4>1. lost + 1 \in Nat /\ 0 \in Nat /\ 0 <= Retries /\ answered \in Nat
        BY Counted
      <4>2. QED
        BY <4>1, UnrecordedGrows
    <3>4. QED
      BY <3>1, <3>2, <3>3
  <2>3. QED
    BY <2>1, <2>2
<1>6. used' - usedBefore' <= Recorded' + Unrecorded(answered, lost', attempt')
  BY <1>1, <1>2, <1>5, WireConstants DEF WireInv, WireTypes, CreditsInv
<1>7. CreditsInv'
  BY <1>4, <1>6 DEF CreditsInv, Unrecorded
<1>8. RemainingInv'
  <2>1. used' >= used
    BY <1>1, Counted
  <2>2. QED
    BY <1>1, <2>1, RemainingStays
<1>9. QED
  BY <1>3, <1>7, <1>8 DEF WireInv

LEMMA StoredStep ==
  ASSUME WireInv, NEW ok \in BOOLEAN, RefreshStored(ok)
  PROVE  WireInv'
<1> DEFINE row == [used |-> IF ok THEN creditsUsed ELSE None,
                   remaining |-> IF ok THEN creditsRemaining ELSE None]
<1>1. /\ wirePc' = "idle" /\ quotas' = Append(quotas, row)
      /\ UNCHANGED <<used, league, attempt, answered, lost, creditsUsed, creditsRemaining,
                     usedBefore>>
  BY DEF RefreshStored
<1>2. /\ row \in [used : Int \cup {None}, remaining : Int \cup {None}]
      /\ row.remaining # None => row.remaining = creditsRemaining
  BY DEF WireInv, WireTypes
<1> HIDE DEF row
<1>3. quotas \in Seq([used : Int \cup {None}, remaining : Int \cup {None}])
  BY DEF WireInv, WireTypes
<1>4. /\ quotas' \in Seq([used : Int \cup {None}, remaining : Int \cup {None}])
      /\ \A i \in DOMAIN quotas' : \/ i \in DOMAIN quotas /\ quotas'[i] = quotas[i]
                                  \/ quotas'[i] = row
  BY <1>1, <1>2, <1>3
<1>5. WireTypes' /\ CreditsInv'
  BY <1>1, <1>4 DEF WireInv, WireTypes, CreditsInv, Recorded, Unrecorded
<1>6. RemainingInv'
  BY <1>1, <1>2, <1>4 DEF WireInv, RemainingInv
<1>7. QED
  BY <1>5, <1>6 DEF WireInv

LEMMA WireInvariant == WireSpec => []WireInv
<1>1. WireInit => WireInv
  BY WireConstants
  DEF WireInit, WireInv, WireTypes, CreditsInv, RemainingInv, Recorded, Unrecorded
<1>2. ASSUME WireInv, [WireNext]_wireVars PROVE WireInv'
  <2>1. CASE RefreshStarts
    BY <1>2, <2>1, WireConstants
    DEF RefreshStarts, WireInv, WireTypes, CreditsInv, RemainingInv, Recorded, Unrecorded
  <2>2. ASSUME NEW cost \in {0, CreditCost}, NotAnswered(cost) PROVE WireInv'
    BY <1>2, <2>2, LostStep, WireConstants
    DEF NotAnswered, LastAttempt, WireInv, WireTypes, CreditsInv
  <2>3. ASSUME NEW cost \in {0, CreditCost}, Unusable(cost) PROVE WireInv'
    BY <1>2, <2>3, LostStep DEF Unusable
  <2>4. CASE UNCHANGED wireVars
    BY <1>2, <2>4
    DEF wireVars, WireInv, WireTypes, CreditsInv, RemainingInv, Recorded, Unrecorded
  <2>5. QED
    BY <1>2, <2>1, <2>2, <2>3, <2>4, AnsweredStep, StoredStep DEF WireNext
<1>3. QED
  BY <1>1, <1>2, PTL DEF WireSpec

\* What all the requests of a refresh may cost together.
LEMMA ChargeBounded ==
  ASSUME WireInv
  PROVE  used - usedBefore <= (Retries + 1) * EstimatedCost
<1>1. /\ CreditCost \in Nat /\ Retries \in Nat /\ Enabled \in Nat
      /\ answered \in Nat /\ lost \in Nat /\ attempt \in Nat
  BY WireConstants DEF WireInv, WireTypes
<1> DEFINE n == Retries * answered + (Retries + 1) * lost + attempt
<1>2. answered + n <= (Retries + 1) * Enabled /\ n \in Nat
  <2>1. answered + n = (Retries + 1) * league + attempt
    BY <1>1 DEF WireInv, CreditsInv
  <2>2. CASE league < Enabled
    <3>1. (Retries + 1) * Enabled = (Retries + 1) * league + (Retries + 1) * (Enabled - league)
      BY <1>1 DEF WireInv, WireTypes
    <3>2. PICK k \in Nat : Enabled - league = k + 1
      <4>1. Enabled - league - 1 \in Nat
        BY <1>1, <2>2 DEF WireInv, WireTypes
      <4>2. QED
        BY <1>1, <4>1 DEF WireInv, WireTypes
    <3>3. (Retries + 1) * (k + 1) = Retries + 1 + (Retries + 1) * k
      BY <1>1
    <3>4. (Retries + 1) * k \in Nat
      BY <1>1
    <3>5. QED
      BY <1>1, <2>1, <3>1, <3>2, <3>3, <3>4 DEF WireInv, WireTypes, CreditsInv
  <2>3. CASE ~(league < Enabled)
    <3>1. league = Enabled /\ attempt = 0
      BY <1>1, <2>3 DEF WireInv, WireTypes, CreditsInv
    <3>2. QED
      BY <1>1, <2>1, <3>1
  <2>4. QED
    BY <2>2, <2>3
<1>3. Unrecorded(answered, lost, attempt) = CreditCost * n
  BY DEF Unrecorded
<1> HIDE DEF n
<1>4. used - usedBefore <= CreditCost * answered + CreditCost * n
  BY <1>1, <1>2, <1>3 DEF WireInv, WireTypes, CreditsInv, Recorded
<1>5. PICK m \in Nat : (Retries + 1) * Enabled = answered + n + m
  <2>1. (Retries + 1) * Enabled - (answered + n) \in Nat
    BY <1>1, <1>2
  <2>2. QED
    BY <1>1, <1>2, <2>1
<1>6. (Retries + 1) * EstimatedCost = CreditCost * (answered + n + m)
  BY <1>1, <1>5 DEF EstimatedCost
<1>7. CreditCost * (answered + n + m) = CreditCost * answered + CreditCost * n + CreditCost * m
  BY <1>1, <1>2, <1>5
<1>8. CreditCost * m \in Nat
  BY <1>1, <1>5
<1>9. QED
  BY <1>1, <1>2, <1>4, <1>6, <1>7, <1>8 DEF WireInv, WireTypes

\* What a Books refresh may cost: the count that is written down is at most the
\* estimate, what is charged beyond it are attempts whose answers were lost, all of
\* it together is at most 1 + Retries times the estimate, and the credits that are
\* shown to remain are never fewer than there are.
THEOREM CreditsAreAccounted == WireSpec => []CreditsAccounted
<1>1. ASSUME WireInv PROVE CreditsAccounted
  <2>1. /\ Recorded <= CreditCost * answered
        /\ used - usedBefore <= Recorded
              + CreditCost * (Retries * answered + (Retries + 1) * lost + attempt)
    BY <1>1 DEF WireInv, CreditsInv, Unrecorded
  <2>2. used - usedBefore <= (Retries + 1) * EstimatedCost
    BY <1>1, ChargeBounded
  <2>3. QuotaStatus # None => QuotaStatus.remaining >= Budget - used
    <3> DEFINE known == {i \in DOMAIN quotas : quotas[i].remaining # None}
    <3>1. SUFFICES ASSUME known # {} PROVE quotas[Max(known)].remaining >= Budget - used
      BY DEF QuotaStatus
    <3>2. known \in SUBSET (0..Len(quotas)) /\ Len(quotas) \in Nat
      BY <1>1 DEF WireInv, WireTypes
    <3> HIDE DEF known
    <3>3. Max(known) \in known
      BY <3>1, <3>2, MaxIsGreatest
    <3>4. QED
      BY <1>1, <3>3 DEF WireInv, RemainingInv, known
  <2>4. QED
    BY <2>1, <2>2, <2>3 DEF CreditsAccounted, Recorded
<1>2. QED
  BY <1>1, WireInvariant, PTL
=============================================================================
