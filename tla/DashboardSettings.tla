------------------------- MODULE DashboardSettings -------------------------
(***************************************************************************)
(* The browser session of app/security/auth.py and the settings file that   *)
(* the first API and app/v2_api.py share: a save of the second reads the    *)
(* file, merges what came in and writes it in place; one of the first       *)
(* replaces it. Secrets are shown as the word "configured" and come back    *)
(* that way with the next save.                                             *)
(***************************************************************************)
EXTENDS Naturals

CONSTANTS
  Secrets,   \* values a secret may have
  Requests,  \* saves that work at a time
  MaxSaves,  \* bound: saves that began
  MaxStarts  \* bound: starts of the server

VARIABLES
  db,    \* file: [state: none, torn or whole; key; proxy]
  mem,   \* start: the key its CSRF tokens are derived from;
         \* browser: [cookie, csrf], the start its token was derived from
  proc,  \* request -> what it does and the settings it is about to write
  hist   \* saved: the secret saved last; lost: a save overlapped another one,
         \* was cut off or came through the first API; saves

vars == <<db, mem, proc, hist>>

Shown == {"absent", "", "configured"} \cup Secrets
Whole(key, proxy) == [state |-> "whole", key |-> key, proxy |-> proxy]
Empty == Whole("", FALSE)
Idle == [at |-> "idle", new |-> Empty, secret |-> "absent"]

Init ==
  /\ db = [file |-> [Empty EXCEPT !.state = "none"]]
  /\ mem = [start |-> 1, cookie |-> FALSE, csrf |-> 0]
  /\ proc = [u \in Requests |-> Idle]
  /\ hist = [saved |-> "", lost |-> FALSE, saves |-> 0]

At(u, p) == proc[u].at = p
Busy == \E u \in Requests : ~At(u, "idle")

------------------------------------------------------------------------------
(* LocalAuthManager: the cookie outlives a restart, the CSRF token does not.  *)

Handshake ==
  /\ mem' = [mem EXCEPT !.cookie = TRUE, !.csrf = mem.start]
  /\ UNCHANGED <<db, proc, hist>>

SessionExpires ==
  /\ mem.cookie
  /\ mem' = [mem EXCEPT !.cookie = FALSE]
  /\ UNCHANGED <<db, proc, hist>>

\* csrf_for: derived from a key that every start makes anew.
FreshToken == mem.csrf = mem.start

\* What a request that changes something needs.
Authenticated == mem.cookie /\ FreshToken

\* A write that was cut off leaves a file that cannot be decrypted.
Restart ==
  /\ mem.start < MaxStarts
  /\ mem' = [mem EXCEPT !.start = @ + 1]
  /\ proc' = [u \in Requests |-> Idle]
  /\ hist' = [hist EXCEPT !.lost = @ \/ db.file.state = "torn"]
  /\ UNCHANGED db

------------------------------------------------------------------------------
(* Settings.                                                                  *)

\* read_settings: a file that is missing or cannot be read counts as empty.
Settings == IF db.file.state = "whole" THEN db.file ELSE Empty

\* What v2_settings_get shows of a secret, and what a tool's environment has.
Masked(s) == IF s = "" THEN "" ELSE "configured"
Environment == IF Settings.key \in Secrets THEN {Settings.key} ELSE {}

\* Mutant: the masked value of the form is saved.
MergeShown(old, key, proxy) ==
  Whole(IF key \in {"absent", ""} THEN old.key ELSE key, proxy)

\* v2_settings_put: an empty or a masked secret is not taken over.
Merge(old, key, proxy) ==
  Whole(IF key \in {"absent", "", "configured"} THEN old.key ELSE key, proxy)

\* The form sends what it was shown, or what the user typed.
ReadToSave(u, key, proxy) ==
  /\ At(u, "idle") /\ Authenticated /\ hist.saves < MaxSaves
  /\ key \in {"absent", Masked(Settings.key)} \cup Secrets
  /\ proc' = [proc EXCEPT ![u] = [at |-> "open", new |-> Merge(Settings, key, proxy), secret |-> key]]
  /\ hist' = [hist EXCEPT !.saves = @ + 1, !.lost = @ \/ Busy]
  /\ UNCHANGED <<db, mem>>

\* settings_put of the first API: what came in, and nothing else.
ReplaceAll(u, key, proxy) ==
  /\ At(u, "idle") /\ Authenticated /\ hist.saves < MaxSaves
  /\ key \in {"absent", Masked(Settings.key)} \cup Secrets
  /\ proc' = [proc EXCEPT ![u] = [at |-> "open", secret |-> key,
                new |-> Whole(IF key = "absent" THEN "" ELSE key, proxy)]]
  /\ hist' = [hist EXCEPT !.saves = @ + 1, !.lost = TRUE]
  /\ UNCHANGED <<db, mem>>

\* write_text empties the file and then fills it.
OpenFile(u) ==
  /\ At(u, "open")
  /\ db' = [db EXCEPT !.file.state = "torn"]
  /\ proc' = [proc EXCEPT ![u].at = "fill"]
  /\ UNCHANGED <<mem, hist>>

FillFile(u) ==
  /\ At(u, "fill")
  /\ db' = [db EXCEPT !.file = proc[u].new]
  /\ hist' = [hist EXCEPT !.saved = IF proc[u].secret \in Secrets THEN proc[u].secret ELSE @]
  /\ proc' = [proc EXCEPT ![u] = Idle]
  /\ UNCHANGED mem

Next ==
  \/ Handshake \/ SessionExpires \/ Restart
  \/ \E u \in Requests :
       \/ \E k \in Shown, p \in BOOLEAN : ReadToSave(u, k, p) \/ ReplaceAll(u, k, p)
       \/ OpenFile(u) \/ FillFile(u)

Spec == Init /\ [][Next]_vars

------------------------------------------------------------------------------

\* The secret a user saved last is the one the tools get, however often the form
\* is shown and saved again, unless saves overlapped, one was cut off, or one
\* came through the first API, which does not merge.
SavedSecretStays ==
  hist.lost \/ db.file.state = "torn" \/ Environment = {hist.saved} \ {""}
=============================================================================
