------------------------------- MODULE Prefs -------------------------------
(***************************************************************************)
(* The exchange the owner trades on and the taker fee every edge is        *)
(* priced with: the one row of preferences (services/prefs.py), its        *)
(* settings form (routes/settings.py), and what a boot does to a database  *)
(* from before the venue column existed (db.py).                           *)
(*                                                                         *)
(* The form always posts both fields, whatever the owner meant to change,  *)
(* and a page saved before can be open in another tab or be posted again     *)
(* by a reload.  Rates are in units of 0.0001.                             *)
(***************************************************************************)
EXTENDS Maybe, Integers

CONSTANTS
    Published,      \* VENUE_TAKER_FEE: the rate each venue charges
    DefaultVenue,   \* DEFAULT_VENUE
    LegacyFee,      \* LEGACY_TAKER_FEE_RATE
    TypedRates,     \* rates the owner may type
    Tabs,           \* browser tabs
    MaxPosts        \* bound on forms posted

VARIABLES
    boot,           \* "down", "columns" (added, not yet reconciled) or "up"
    settings,       \* the row, [venue, fee, updated], or None
    form,           \* per tab, [venue, fee, base]: base is the updated_at it was made from
    lastPost,       \* per tab, the last form it posted
    posts,          \* forms posted
    meant,          \* history: the rate the owner decided on, None: the venue's
    outdated        \* history: was a form posted that was not made from the row?

prefsVars == <<boot, settings, form, lastPost, posts, meant, outdated>>

Venues == DOMAIN Published
MaxFee == 2000
Rates == TypedRates \cup {LegacyFee} \cup {Published[v] : v \in Venues}
PrefsRows == [venue : Venues, fee : Rates, updated : Nat]
PostedForms == [venue : Venues, fee : Rates, base : Nat]

\* The default venue is the one whose rate was hard coded before there were two.
ASSUME PrefsAssumption ==
    /\ DefaultVenue \in Venues /\ Published[DefaultVenue] = LegacyFee
    /\ None \notin TypedRates /\ None \notin PrefsRows /\ None \notin PostedForms

\* updated_at is the number of the save that wrote the row.
PrefsFields(venue, fee, updated) == [venue |-> venue, fee |-> fee, updated |-> updated]
DefaultFields == PrefsFields(DefaultVenue, Published[DefaultVenue], 0)
FormOf(row) == [venue |-> row.venue, fee |-> row.fee, base |-> row.updated]

ValidRate(rate) == rate \in 0..MaxFee

---------------------------------------------------------------------------
(* Boot.                                                                   *)

\* A deployment: on a new database, or on one whose row had no venue column.
\* add_missing_columns gives that row the default venue.
DatabaseOpened(fee) ==
    /\ boot = "down" /\ settings = None
    /\ \/ fee = None /\ boot' = "up" /\ UNCHANGED <<settings, meant>>
       \/ /\ fee # None
          /\ boot' = "columns" /\ settings' = PrefsFields(DefaultVenue, fee, 0)
          /\ meant' = IF fee = LegacyFee THEN None ELSE fee
    /\ UNCHANGED <<form, lastPost, posts, outdated>>

\* reconcile_venue_fee, when the boot before it added the column.
Reconciled ==
    /\ boot = "columns" /\ boot' = "up"
    /\ settings' = [settings EXCEPT !.fee =
                    IF @ = LegacyFee THEN Published[settings.venue] ELSE @]
    /\ UNCHANGED <<form, lastPost, posts, meant, outdated>>

\* The process dies between the two: the next boot finds the column and skips
\* the correction.
DiedBeforeReconciling ==
    /\ boot = "columns" /\ boot' = "up"
    /\ UNCHANGED <<settings, form, lastPost, posts, meant, outdated>>

---------------------------------------------------------------------------
(* The settings page.                                                      *)

\* get_prefs.
PrefsRow == IF settings = None THEN DefaultFields ELSE settings

\* GET /settings.
SettingsOpened(tab) ==
    /\ boot = "up"
    /\ settings' = PrefsRow
    /\ form' = [form EXCEPT ![tab] = FormOf(PrefsRow)]
    /\ UNCHANGED <<boot, lastPost, posts, meant, outdated>>

\* The fee _carry_fee_across_venue_change settles on.  (Slip: a switch leaves
\* the fee.)
FeeStays(row, venue, fee) == fee
CarriedFee(row, venue, fee) ==
    IF venue # row.venue /\ fee = Published[row.venue] THEN Published[venue] ELSE fee

\* POST /settings: a rate out of range is refused and the form shown as it was
\* sent; otherwise update_prefs, and the page is shown from the row.
Post(tab, venue, fee, base) ==
    /\ boot = "up" /\ posts < MaxPosts
    /\ posts' = posts + 1
    /\ lastPost' = [lastPost EXCEPT ![tab] = [venue |-> venue, fee |-> fee, base |-> base]]
    /\ \/ /\ ~ValidRate(fee)
          /\ form' = [form EXCEPT ![tab] = [venue |-> venue, fee |-> fee, base |-> base]]
          /\ settings' = PrefsRow
          /\ UNCHANGED outdated
       \/ /\ ValidRate(fee)
          /\ settings' = PrefsFields(venue, CarriedFee(PrefsRow, venue, fee), posts + 1)
          /\ form' = [form EXCEPT ![tab] = FormOf(settings')]
          /\ outdated' = (outdated \/ base # PrefsRow.updated)
    /\ UNCHANGED boot

\* The owner edits the form and saves it.  Unless a rate was typed, the owner
\* decided nothing about it; a venue's own published rate is no decision either.
Saved(tab, venue, fee) ==
    /\ form[tab] # None
    /\ Post(tab, venue, fee, form[tab].base)
    /\ meant' = IF \/ ~ValidRate(fee)
                   \/ fee = form[tab].fee /\ meant = None
                THEN meant
                ELSE IF fee \in {Published[venue], Published[settings.venue]} THEN None
                ELSE fee

\* The page after a save is the answer to the POST, not a redirect: a reload
\* posts the same form again.
Reloaded(tab) ==
    /\ lastPost[tab] # None
    /\ Post(tab, lastPost[tab].venue, lastPost[tab].fee, lastPost[tab].base)
    /\ UNCHANGED meant

---------------------------------------------------------------------------
PrefsInit ==
    /\ boot = "down" /\ settings = None
    /\ form = [t \in Tabs |-> None] /\ lastPost = [t \in Tabs |-> None] /\ posts = 0
    /\ meant = None /\ outdated = FALSE

PrefsNext ==
    \/ \E fee \in {r \in TypedRates : ValidRate(r)} \cup {None} : DatabaseOpened(fee)
    \/ Reconciled \/ DiedBeforeReconciling
    \/ \E tab \in Tabs :
        \/ SettingsOpened(tab) \/ Reloaded(tab)
        \/ \E venue \in Venues, fee \in TypedRates : Saved(tab, venue, fee)

PrefsSpec == PrefsInit /\ [][PrefsNext]_prefsVars

---------------------------------------------------------------------------
(* Properties.                                                             *)

\* What _carry_fee_across_venue_change says of itself (services/prefs.py:94): the
\* fee moves with the venue unless the owner set a rate of their own.
FeeFollowsVenue ==
    boot = "up" /\ settings # None /\ meant = None => settings.fee = Published[settings.venue]

\* What it keeps: as long as every form saved was made from the row as it is,
\* through any sequence of switches, rejected saves, migrations and rates typed
\* along with a switch or without one, the fee is the venue's or exactly the
\* rate the owner decided on, never the other venue's.
FeeIsAsMeant ==
    boot = "up" /\ settings # None /\ ~outdated =>
    settings.fee = (IF meant = None THEN Published[settings.venue] ELSE meant)
=============================================================================
