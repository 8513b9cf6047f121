---------------------------- MODULE BrowserStart ----------------------------
(***************************************************************************)
(* Pages of the studio that start against an API that is up, through the     *)
(* rate limiter that stands before every route.  All pages are of one user   *)
(* behind one address and so share a bucket.  The API answers every request:  *)
(* what it does not let through it answers with 429.                          *)
(***************************************************************************)
EXTENDS Naturals

CONSTANTS
  Pages,
  Fetches,    \* lists a page asks for at once
  Limit,      \* requests of a key in a window
  Window,     \* seconds
  TimeBound   \* the last moment

VARIABLES
  bucket,   \* of the key: how many requests, and until when they count
  pages,
  now

vars == <<bucket, pages, now>>

-----------------------------------------------------------------------------
(* MemoryRateLimiter.check: a request is let through or not, and counts either way. *)
LetThrough == bucket.resetAt <= now \/ bucket.count < Limit

Counted ==
  IF bucket.resetAt <= now THEN [count |-> 1, resetAt |-> now + Window]
  ELSE [bucket EXCEPT !.count = @ + 1]

(* A page: what it shows, whether the health check was answered with ok, how many  *)
(* of the lists it asked for are on their way, and whether they are its first.      *)
FreshPage ==
  [mode |-> "starting", healthy |-> FALSE, waiting |-> 0, loading |-> FALSE, profiles |-> FALSE]

Init ==
  /\ bucket = [count |-> 0, resetAt |-> 0]
  /\ pages = [p \in Pages |-> FreshPage]
  /\ now = 0

(* checkApiHealth: with ok, all the lists are asked for, and the lab profiles; with *)
(* anything else the page shows its own data.                                        *)
CheckHealth(p) ==
  /\ pages[p].mode = "starting"
  /\ bucket' = Counted
  /\ pages' = [pages EXCEPT ![p] =
       IF LetThrough
       THEN [mode |-> "api", healthy |-> TRUE, waiting |-> Fetches, loading |-> TRUE,
             profiles |-> TRUE]
       ELSE [@ EXCEPT !.mode = "mock"]]
  /\ UNCHANGED now

(* One of the lists: the first that fails fails them all (Promise.all), and on the   *)
(* first load the page then goes to its own data; the others are still on their way. *)
AnswerList(p) ==
  /\ pages[p].waiting > 0
  /\ bucket' = Counted
  /\ pages' = [pages EXCEPT
       ![p].waiting = @ - 1,
       ![p].mode = IF ~LetThrough /\ pages[p].loading THEN "mock" ELSE @,
       ![p].loading = @ /\ pages[p].waiting > 1]
  /\ UNCHANGED now

(* The lab profiles: without them the page uses its own. *)
AnswerProfiles(p) ==
  /\ pages[p].profiles
  /\ bucket' = Counted
  /\ pages' = [pages EXCEPT ![p].profiles = FALSE]
  /\ UNCHANGED now

(* refreshApiState after a change: it asks for the lists again; nobody catches a failure. *)
Refresh(p) ==
  /\ pages[p].mode = "api" /\ ~pages[p].loading /\ pages[p].waiting = 0
  /\ pages' = [pages EXCEPT ![p].waiting = Fetches]
  /\ UNCHANGED <<bucket, now>>

Reload(p) ==
  /\ pages[p].mode # "starting"
  /\ pages[p].waiting = 0 /\ ~pages[p].profiles
  /\ pages' = [pages EXCEPT ![p] = FreshPage]
  /\ UNCHANGED <<bucket, now>>

Tick ==
  /\ now < TimeBound
  /\ now' = now + 1
  /\ UNCHANGED <<bucket, pages>>

Next ==
  \/ \E p \in Pages :
       CheckHealth(p) \/ AnswerList(p) \/ AnswerProfiles(p) \/ Refresh(p) \/ Reload(p)
  \/ Tick

Spec == Init /\ [][Next]_vars

-----------------------------------------------------------------------------
(* docs/api.md: "If the API responds, the app enters hosted/on-prem API mode".  A page *)
(* whose health check was answered with ok, by an API that answers everything, is in   *)
(* API mode.                                                                           *)
AnsweredPagesAreHosted ==
  \A p \in Pages : pages[p].healthy => pages[p].mode = "api"
=============================================================================
