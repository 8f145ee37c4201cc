-------------------------------- MODULE Codes --------------------------------
(***************************************************************************)
(* From a URI to the clipboard: apply_otpauth_uri, refresh_vault,          *)
(* on_copy_code, set_clipboard and schedule_clipboard_clear of src/ui.rs.  *)
(*                                                                         *)
(* The list is drawn anew by a timer that may run late, and whenever the   *)
(* accounts change.  The clipboard belongs to the whole desktop, which     *)
(* copies to it at any moment; a timer looks at it and wipes it in two     *)
(* calls.  Any use of the clipboard may fail, which nobody is told and     *)
(* nothing retries.  Every copy that succeeds starts a timer of its own,   *)
(* none is ever cancelled, and they end with the process.  Locking and     *)
(* writing to disk are in DesktopApp.                                      *)
(***************************************************************************)
EXTENDS Otpauth

CONSTANTS Uri,             \* what is pasted or scanned
          Synced,          \* stored accounts a sync may bring
          Empty, Foreign,  \* nothing, or anything else, on the clipboard
          ClearAfter,      \* CLIPBOARD_CLEAR_AFTER
          MaxCopies,       \* bound: codes copied in one run
          Horizon          \* bound: the clock is set back to 0 here
Numeric == {"digits", "period", "counter"}
IsParam(p) == /\ p.key \in Numeric => p.value \in Int
              /\ p.key = "issuer" => p.value \in Text
IsUri(uri) == /\ uri.prefix \in Text /\ uri.account \in Text
              /\ Len(uri.params) \in Nat /\ DOMAIN uri.params = 1 .. Len(uri.params)
              /\ \A i \in DOMAIN uri.params : IsParam(uri.params[i])
ASSUME CodesAssumption == /\ \A uri \in Uri : IsUri(uri)
                          /\ Synced \subseteq Stored
                          /\ ClearAfter \in Nat \ {0}
                          /\ MaxCopies \in Nat
                          /\ Horizon \in Nat \ {0}

VARIABLES accounts,      \* VaultData.accounts
          rows, drawn,   \* the list shown; history: when it was drawn
          pasted,        \* history: the URI just pasted and what became of it
          clock,         \* now_unix
          board,         \* what the clipboard holds
          age,           \* time a code has been there, up to just over ClearAfter
          missed,        \* history: the clear due for the code there has failed
          timers,        \* the clears scheduled: a code and the time left
          wiping,        \* a timer callback has found its code there
          running,       \* the process lives
          copies         \* how many codes were copied
list == <<accounts, rows, drawn>>
clipboard == <<board, age, missed, timers, wiping>>
vars == <<list, pasted, clock, clipboard, running, copies>>

Init == /\ accounts = <<>>
        /\ rows = <<>>
        /\ drawn = 0
        /\ pasted = None
        /\ clock = 0
        /\ board = Empty
        /\ age = 0
        /\ missed = FALSE
        /\ timers = {}
        /\ wiping = FALSE
        /\ running = TRUE
        /\ copies = 0

EventLoop == running /\ ~wiping   \* a callback runs to its end

RefreshVault(contents) ==
    /\ rows' = [i \in DOMAIN contents |-> AccountView(contents[i], clock)]
    /\ drawn' = clock

\* (Bound: one account is pasted, before time passes, and one synced after it.)
Pastes(uri) ==
    /\ EventLoop
    /\ accounts = <<>> /\ clock = 0 /\ board = Empty
    /\ LET account == IF IsMigrationUri(uri) THEN None ELSE FromUri(uri)
       IN  /\ pasted' = [uri |-> uri, account |-> account]
           /\ IF account = None THEN UNCHANGED list
              ELSE /\ accounts' = Append(accounts, StoredAccount(account))
                   /\ RefreshVault(accounts')
    /\ UNCHANGED <<clock, clipboard, running, copies>>
SyncBrings(account) ==
    /\ EventLoop
    /\ Len(accounts) = 1
    /\ accounts' = Append(accounts, account)
    /\ RefreshVault(accounts')
    /\ pasted' = None
    /\ UNCHANGED <<clock, clipboard, running, copies>>

Refreshes == /\ EventLoop
             /\ RefreshVault(accounts)
             /\ pasted' = None
             /\ UNCHANGED <<accounts, clock, clipboard, running, copies>>

OnBoard == board \notin {Empty, Foreign}
Puts(text) == board' = text /\ age' = 0 /\ missed' = FALSE

Scheduled_Dropped(code) == timers
Scheduled(code) == timers \cup {[code |-> code, left |-> ClearAfter]}
Copied_AsShown(i) == rows[i].code
Copied(i) == CurrentCode(accounts[SelectInSeq(accounts, LAMBDA a : a.id = rows[i].id)], clock)
Copies(i) == /\ EventLoop
             /\ Copied(i) # Undefined
             /\ copies < MaxCopies
             /\ copies' = copies + 1
             /\ \/ /\ Puts(Copied(i))
                   /\ timers' = Scheduled(Copied(i))
                   /\ UNCHANGED wiping
                \/ UNCHANGED clipboard
             /\ pasted' = None
             /\ UNCHANGED <<list, clock, running>>

\* Some other program, or the user in one.
DesktopCopies == /\ Puts(Foreign)
                 /\ pasted' = None
                 /\ UNCHANGED <<list, clock, timers, wiping, running, copies>>

\* A code copied again in the meantime has a clear of its own yet to come.
Missed(code) == missed \/ (board = code /\ age >= ClearAfter)

\* A busy event loop runs an overdue timer late.
Finds_Other(t) == board # t.code
Finds(t) == board = t.code
Fires(t) == /\ EventLoop
            /\ t.left = 0
            /\ timers' = timers \ {t}
            /\ \/ wiping' = Finds(t) /\ UNCHANGED missed
               \/ wiping' = FALSE /\ missed' = Missed(t.code)
            /\ pasted' = None
            /\ UNCHANGED <<list, clock, board, age, running, copies>>
Wipes == /\ running
         /\ wiping
         /\ \/ Puts(Empty)
            \/ UNCHANGED <<board, age>> /\ missed' = Missed(board)
         /\ wiping' = FALSE
         /\ pasted' = None
         /\ UNCHANGED <<list, clock, timers, running, copies>>

Quits == /\ running
         /\ running' = FALSE
         /\ accounts' = <<>> /\ rows' = <<>>
         /\ timers' = {}
         /\ wiping' = FALSE
         /\ pasted' = None
         /\ UNCHANGED <<drawn, clock, board, age, missed, copies>>

Second == /\ clock' = (clock + 1) % Horizon
          /\ age' = IF OnBoard /\ age <= ClearAfter THEN age + 1 ELSE age
          /\ timers' = {[t EXCEPT !.left = IF @ > 0 THEN @ - 1 ELSE 0] : t \in timers}
          /\ pasted' = None
          /\ UNCHANGED <<list, board, missed, wiping, running, copies>>

Next == \/ \E uri \in Uri : Pastes(uri)
        \/ \E account \in Synced : SyncBrings(account)
        \/ \E i \in DOMAIN rows : Copies(i)
        \/ \E t \in timers : Fires(t)
        \/ Refreshes \/ DesktopCopies \/ Wipes \/ Quits \/ Second

\* Time passes and the event loop gets to every timer that is due.
Fairness == /\ WF_vars(Second)
            /\ WF_vars(Wipes)
            /\ WF_vars(\E t \in timers : Fires(t))
Spec == Init /\ [][Next]_vars /\ Fairness

-----------------------------------------------------------------------------
(* Properties *)

\* The shape of the state (ui.rs:36-49, 892-931, 1146-1169).
TypeOK == /\ accounts \in Seq(Stored)
          /\ DOMAIN rows = DOMAIN accounts
          /\ drawn \in 0 .. Horizon - 1
          /\ clock \in 0 .. Horizon - 1
          /\ age \in 0 .. ClearAfter + 1
          /\ missed \in BOOLEAN
          /\ \A t \in timers : t \in [code : {t.code}, left : 0 .. ClearAfter]
          /\ wiping \in BOOLEAN
          /\ running \in BOOLEAN
          /\ copies \in 0 .. MaxCopies

\* What is enrolled is what the URI says, the last value of a parameter that is
\* repeated, and a URI is refused exactly if it lacks something or gives an
\* algorithm, digits, period or counter a value that is none: it never falls
\* back to a default it does not ask for (otp/uri.rs:97-101).
Named(uri, key) == {i \in DOMAIN uri.params : uri.params[i].key = key}
Written(uri, key) ==
    IF Named(uri, key) = {} THEN Defaults[key] ELSE uri.params[Max(Named(uri, key))].value
IsWrong(uri) ==
    \/ uri.scheme # "otpauth" \/ uri.type \notin Kind
    \/ Written(uri, "secret") \notin Seed
    \/ uri.type = "hotp" /\ Named(uri, "counter") = {}
    \/ \E i \in DOMAIN uri.params :
          LET p == uri.params[i]
          IN  \/ p.key = "algorithm" /\ p.value \notin Algorithm
              \/ p.key = "digits" /\ (p.value < 6 \/ p.value > 8)
              \/ p.key = "period" /\ p.value <= 0
              \/ p.key = "counter" /\ p.value < 0
EnrolledAsWritten ==
    pasted # None =>
        /\ pasted.account = None <=> IsWrong(pasted.uri)
        /\ pasted.account # None =>
              /\ pasted.account.kind = pasted.uri.type
              /\ pasted.account.issuer = IF Named(pasted.uri, "issuer") = {}
                                         THEN pasted.uri.prefix
                                         ELSE Written(pasted.uri, "issuer")
              /\ \A key \in DOMAIN Defaults \ {"issuer"} :
                    pasted.account[key] = Written(pasted.uri, key)

\* The code shown is the one to type for exactly as long as the countdown drawn
\* with it says, however late the list is drawn again, if the period fits the
\* view's Int (ui.rs:901-920, otp/mod.rs:72-91).
CountdownIsHonest ==
    \A i \in DOMAIN rows :
        /\ accounts[i].kind = "totp" /\ accounts[i].period <= IntMax
        /\ rows[i].code # Undefined
        /\ drawn <= clock
        => (clock < drawn + rows[i].seconds <=> CurrentCode(accounts[i], clock) = rows[i].code)

\* A code that was copied was, when it was copied, the code to type, though the
\* list on screen showed an older one (ui.rs:281-294).
CopiesAreCurrent ==
    running /\ OnBoard /\ age <= ClearAfter /\ age <= clock =>
        \E i \in DOMAIN accounts : board = CurrentCode(accounts[i], clock - age)

\* As long as the application runs, a code it copied has a timer of its own that
\* is due just when the code has been there for ClearAfter, whatever was copied
\* before, after or twice, and however the clears of other copies fail; only once
\* that very clear has failed is it there for good (ui.rs:1146-1169).
CodeHasATimer ==
    running /\ OnBoard /\ ~missed =>
        \/ wiping /\ age >= ClearAfter
        \/ \E t \in timers :
              t.code = board /\ t.left = IF age < ClearAfter THEN ClearAfter - age ELSE 0

\* Once no more codes are copied, the last one leaves the clipboard, unless the
\* application quits first or the one clear due for it fails (ui.rs:14-16).
CodeLeaves == <>[](~OnBoard \/ ~running \/ missed)
=============================================================================
