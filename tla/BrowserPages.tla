---------------------------- MODULE BrowserPages ----------------------------
(***************************************************************************)
(* One browser session from the inside: its pages, the refs its snapshots  *)
(* hand out, the dialogs its pages open, and the queue of its operations   *)
(* (src/src/browser/browser-jobs.mjs, and the class BrowserSession with    *)
(* wireContext, trackPage, newPage, closeSession, requirePage, snapshot    *)
(* and resolveTarget of browser-manager.mjs).                              *)
(*                                                                         *)
(* Operations take turns; dialogs, popups, pages that close or navigate by *)
(* themselves and the closing of the session do not wait for a turn.  The  *)
(* page revision is only compared with that of the refs, and a document    *)
(* only with the one a snapshot showed, so both are kept relative to refs. *)
(* Left out: what is on a page, URLs and their policy, console and network *)
(* (which change no page), downloads.                                      *)
(***************************************************************************)
EXTENDS Naturals

CONSTANTS
    Pages,     \* page identities; one that nothing remembers may come back
    MaxWaiting,\* bound: jobs that wait for their turn
    NoPage

ASSUME PagesAssumption == NoPage \notin Pages /\ MaxWaiting \in Nat

Kinds == {"navigate", "snapshot", "find", "interact", "upload", "screenshot", "evaluate", "read",
          "tabs", "dialog"}

\* Where an operation awaits.
At == {"none", "goto", "settled", "tree", "title", "found", "acting", "script",
       "new page", "first load", "page closing", "titles", "dialog"}

VARIABLES
    attached,    \* mode "existing": the pages are in the operator's browser
    pages,       \* the open pages, all tracked
    operators,   \* those that the operator opened
    current,     \* currentPageId
    refs,        \* the refs of the last snapshot
    dialogs,     \* pages with an open dialog: no script runs in them
    pending,     \* pendingDialog
    timers,      \* dialogs whose timer runs
    waiting,     \* how many jobs wait in the queue
    op,          \* the one whose turn it is; what it does is known then
    state,       \* of the session
    closer,      \* how far closeSession is
    \* history
    shut         \* closeSession has closed a page of the operator

browserVars == <<pages, operators, current, dialogs>>
dialogVars  == <<pending, timers>>
closeVars   == <<attached, closer, shut>>
pagesVars == <<browserVars, dialogVars, closeVars, refs, waiting, op, state>>

NoRefs == [page |-> NoPage, seen |-> NoPage, fresh |-> FALSE, doc |-> "same"]
NoOp   == [kind |-> "read", at |-> "none", page |-> NoPage, byRef |-> FALSE]

\* What createSession leaves.
PagesInit ==
    /\ attached \in BOOLEAN
    /\ \E p \in Pages :
        /\ pages = {p} /\ current = p
        /\ operators = IF attached THEN {p} ELSE {}
    /\ refs = NoRefs
    /\ dialogs = {} /\ pending = NoPage /\ timers = {}
    /\ waiting = 0 /\ op = NoOp /\ state = "ready" /\ closer = "no"
    /\ shut = FALSE

-----------------------------------------------------------------------------
(* Helpers.                                                                *)

\* currentPage and requirePage without a page: when the current page is gone,
\* one of the others.
Current == IF current # NoPage THEN {current} ELSE pages

\* pageRevision++.
Bump == refs' = [refs EXCEPT !.fresh = FALSE]

\* A new document in page p; why says on whose account.
Commit(r, p, why) == IF r.seen = p /\ r.doc = "same" THEN [r EXCEPT !.doc = why] ELSE r

\* A reply that needs the page's script thread and has no timeout.
Replies(p) == p \notin dialogs

Await(at) == op' = [op EXCEPT !.at = at]

\* The operation answers its job.
Answer == op' = NoOp /\ state' = "ready"

Unremembered == Pages \ (pages \cup timers \cup {pending, op.page, refs.page, refs.seen})

Gone(set) ==
    /\ pages' = pages \ set
    /\ operators' = operators \ set
    /\ current' = IF current \in set THEN NoPage ELSE current
    /\ dialogs' = dialogs \ set

-----------------------------------------------------------------------------
(* Requests: requireSession, then the queue.                               *)

Request ==
    /\ waiting < MaxWaiting
    /\ state \in {"ready", "busy"} /\ closer # "done"
    /\ waiting' = waiting + 1
    /\ UNCHANGED <<browserVars, dialogVars, closeVars, refs, op, state>>

\* The operation has its turn.
Turn == op.at = "none" /\ waiting > 0

Starts(kind, at, page, byRef) ==
    /\ waiting' = waiting - 1
    /\ state' = "busy"
    /\ op' = [kind |-> kind, at |-> at, page |-> page, byRef |-> byRef]

\* It fails before its first await.
FailsAtOnce ==
    /\ waiting' = waiting - 1
    /\ Answer
    /\ UNCHANGED <<browserVars, dialogVars, closeVars, refs>>

\* Operations on the current page.
OnPage(kind, at) ==
    /\ Turn
    /\ \/ pages = {} /\ FailsAtOnce
       \/ \E p \in Current :
            /\ current' = p
            /\ Starts(kind, at, p, FALSE)
            /\ UNCHANGED <<pages, operators, dialogs, dialogVars, closeVars, refs>>

StartNavigate == OnPage("navigate", "goto")
StartSnapshot == OnPage("snapshot", "tree") \/ OnPage("read", "title")
StartFind     == OnPage("find", "tree")
StartEvaluate == OnPage("evaluate", "script")

\* resolveTarget, as far as its await: a ref must be of this revision.
Resolve ==
    /\ Turn
    /\ \E byRef \in BOOLEAN, kind \in {"interact", "upload", "screenshot"} :
        \/ (pages = {} \/ (byRef /\ ~refs.fresh)) /\ FailsAtOnce
        \/ /\ byRef => refs.fresh
           /\ \E p \in Current :
                /\ current' = p
                /\ Starts(kind, "found", p, byRef)
           /\ UNCHANGED <<pages, operators, dialogs, dialogVars, closeVars, refs>>

\* Any failure of the operation under way: a timeout, a page that is closed, a
\* refusal of the browser. The page may have a new document all the same.
Fails(committed) ==
    /\ Answer
    /\ refs' = IF committed THEN Commit(refs, op.page, "excused") ELSE refs
    /\ UNCHANGED <<browserVars, dialogVars, closeVars, waiting>>

-----------------------------------------------------------------------------
(* browserNavigateJob.                                                     *)

GotoCommits ==
    /\ op.at = "goto" /\ op.page \in pages
    /\ Await("settled")
    /\ refs' = Commit(refs, op.page, "changed")
    /\ UNCHANGED <<browserVars, dialogVars, closeVars, waiting, state>>

GotoFails ==
    /\ op.at = "goto"
    /\ \E committed \in BOOLEAN : Fails(committed /\ op.page \in pages)

\* After the title: the final URL is allowed.
Navigated ==
    /\ op.at = "settled" /\ Replies(op.page)
    /\ Bump
    /\ Answer
    /\ UNCHANGED <<browserVars, dialogVars, closeVars, waiting>>

\* Or it is not: about:blank, and no new revision.
RedirectDenied ==
    /\ op.at = "settled" /\ Replies(op.page)
    /\ Answer
    /\ refs' = IF refs.seen = op.page THEN [refs EXCEPT !.doc = "excused"] ELSE refs
    /\ UNCHANGED <<browserVars, dialogVars, closeVars, waiting>>

-----------------------------------------------------------------------------
(* browserSnapshotJob, browserFindJob: a tree, refs for it, the title.     *)

TreeRendered ==
    /\ op.at = "tree" /\ op.page \in pages /\ Replies(op.page)
    /\ \E p \in Current :
        /\ current' = p
        /\ refs' = [page |-> p, seen |-> op.page, fresh |-> TRUE, doc |-> "same"]
    /\ Await("title")
    /\ UNCHANGED <<pages, operators, dialogs, dialogVars, closeVars, waiting, state>>

TreeFails ==
    /\ op.at = "tree" /\ Replies(op.page)
    /\ Fails(FALSE)

\* Also the snapshots of type html and text, which have no other await.
TitleRead ==
    /\ op.at = "title" /\ Replies(op.page)
    /\ Answer
    /\ UNCHANGED <<browserVars, dialogVars, closeVars, refs, waiting>>

-----------------------------------------------------------------------------
(* browserInteractJob, browserUploadJob, browserScreenshotJob.             *)

\* Mutant: it does not look either.
FoundUnlooked ==
    /\ op.at = "found"
    /\ Await("acting")
    /\ UNCHANGED <<browserVars, dialogVars, closeVars, refs, waiting, state>>

\* Only interact looks again for the page of the ref.
Found ==
    /\ op.at = "found"
    /\ (op.kind = "interact" /\ op.byRef) => refs.page \in pages
    /\ Await("acting")
    /\ UNCHANGED <<browserVars, dialogVars, closeVars, refs, waiting, state>>

NotFound ==
    /\ op.at = "found"
    /\ Fails(FALSE)

Changed ==
    \E committed \in BOOLEAN :
        refs' = [(IF committed THEN Commit(refs, op.page, "changed") ELSE refs)
                   EXCEPT !.fresh = FALSE]

\* The page may have a new document by then.
Acted ==
    /\ op.at = "acting" /\ op.kind = "interact" /\ op.page \in pages
    /\ Changed
    /\ Answer
    /\ UNCHANGED <<browserVars, dialogVars, closeVars, waiting>>

Uploaded ==
    /\ op.at = "acting" /\ op.kind = "upload" /\ op.page \in pages
    /\ Changed
    /\ Answer
    /\ UNCHANGED <<browserVars, dialogVars, closeVars, waiting>>

\* A screenshot changes nothing.
Shot ==
    /\ op.at = "acting" /\ op.kind = "screenshot" /\ op.page \in pages
    /\ Answer
    /\ UNCHANGED <<browserVars, dialogVars, closeVars, refs, waiting>>

ActFails ==
    /\ op.at = "acting"
    /\ \E committed \in BOOLEAN :
         Fails(committed /\ op.page \in pages /\ op.kind # "screenshot")

\* interact with action evaluate: no timeout.
Evaluated ==
    /\ op.at = "script" /\ Replies(op.page)
    /\ \/ /\ op.page \in pages
          /\ Changed
          /\ Answer
          /\ UNCHANGED <<browserVars, dialogVars, closeVars, waiting>>
       \/ \E committed \in BOOLEAN : Fails(committed /\ op.page \in pages)

-----------------------------------------------------------------------------
(* browserTabsJob. At last it asks every page for its title.               *)

StartTabs ==
    /\ Turn
    /\ \E at \in {"new page", "titles"} : Starts("tabs", at, NoPage, FALSE)
    /\ UNCHANGED <<browserVars, dialogVars, closeVars, refs>>

NewPage ==
    /\ op.at = "new page" /\ (attached \/ closer \in {"no", "closing"})
    /\ \E p \in Unremembered :
        /\ pages' = pages \cup {p}
        /\ current' = p
        /\ op' = [op EXCEPT !.at = "first load", !.page = p]
    /\ UNCHANGED <<operators, dialogs, dialogVars, closeVars, refs, waiting, state>>

NewPageFails ==
    /\ op.at = "new page"
    /\ Fails(FALSE)

FirstLoad ==
    /\ op.at = "first load" /\ Replies(op.page)
    /\ Await("titles")
    /\ Bump
    /\ UNCHANGED <<browserVars, dialogVars, closeVars, waiting, state>>

Select ==
    /\ Turn
    /\ \/ FailsAtOnce
       \/ \E p \in pages :
            /\ current' = p
            /\ Starts("tabs", "titles", NoPage, FALSE)
            /\ Bump
            /\ UNCHANGED <<pages, operators, dialogs, dialogVars, closeVars>>

StartClose ==
    /\ Turn
    /\ \/ FailsAtOnce
       \/ \E p, q \in pages :
            /\ p # q
            /\ Starts("tabs", "page closing", p, FALSE)
            /\ UNCHANGED <<browserVars, dialogVars, closeVars, refs>>

TabClosed ==
    /\ op.at = "page closing"
    /\ Gone({op.page})
    /\ op' = [op EXCEPT !.at = "titles", !.page = NoPage]
    /\ Bump
    /\ UNCHANGED <<pending, timers, closeVars, waiting, state>>

Listed ==
    /\ op.at = "titles" /\ \A p \in pages : Replies(p)
    /\ current' \in IF pages = {} THEN {NoPage} ELSE Current
    /\ Answer
    /\ UNCHANGED <<pages, operators, dialogs, dialogVars, closeVars, refs, waiting>>

-----------------------------------------------------------------------------
(* Dialogs: the listener, its timer, and interact with handle_dialog.      *)

DialogOpens(p) ==
    /\ p \in pages \ dialogs
    /\ dialogs' = dialogs \cup {p}
    /\ pending' = p
    /\ timers' = (timers \ {pending}) \cup {p}
    /\ UNCHANGED <<pages, operators, current, closeVars, refs, waiting, op, state>>

\* After three seconds it is dismissed, if it is still the pending one.
DialogTimer(p) ==
    /\ p \in timers
    /\ timers' = timers \ {p}
    /\ IF pending = p
       THEN pending' = NoPage /\ dialogs' = dialogs \ {p}
       ELSE UNCHANGED <<pending, dialogs>>
    /\ UNCHANGED <<pages, operators, current, closeVars, refs, waiting, op, state>>

\* Mutant: a job that cannot answer the dialog stops its timer first.
StartDialogRefused ==
    /\ Turn
    /\ timers' = timers \ {pending}
    /\ waiting' = waiting - 1
    /\ Answer
    /\ UNCHANGED <<browserVars, pending, closeVars, refs>>

StartDialog ==
    /\ Turn
    /\ \/ pending = NoPage /\ FailsAtOnce
       \/ /\ pending # NoPage
          /\ timers' = timers \ {pending}
          /\ Starts("dialog", "dialog", pending, FALSE)
          /\ UNCHANGED <<browserVars, pending, closeVars, refs>>

\* Whatever is pending by now is forgotten.
DialogAnswers ==
    /\ op.at = "dialog" /\ op.page \in dialogs
    /\ dialogs' = dialogs \ {op.page}
    /\ pending' = NoPage
    /\ Bump
    /\ Answer
    /\ UNCHANGED <<pages, operators, current, timers, closeVars, waiting>>

DialogFails ==
    /\ op.at = "dialog" /\ op.page \notin dialogs
    /\ Fails(FALSE)

-----------------------------------------------------------------------------
(* What pages do by themselves, and the operator.                          *)

PageOpens(p) ==
    /\ closer = "no" /\ p \in Unremembered
    /\ pages' = pages \cup {p}
    /\ \/ pages # {} /\ UNCHANGED operators
       \/ attached /\ operators' = operators \cup {p}
    /\ current' = IF current = NoPage THEN p ELSE current
    /\ UNCHANGED <<dialogs, dialogVars, closeVars, refs, waiting, op, state>>

PageCloses(p) ==
    /\ p \in pages
    /\ Gone({p})
    /\ UNCHANGED <<pending, timers, closeVars, refs, waiting, op, state>>

Drifts(p) ==
    /\ p \in pages \ dialogs
    /\ refs' = Commit(refs, p, "excused")
    /\ refs' # refs
    /\ UNCHANGED <<browserVars, dialogVars, closeVars, waiting, op, state>>

-----------------------------------------------------------------------------
(* closeSession, for a close job or when the sweep finds the session too   *)
(* old, which it does not wait for an operation to tell.                   *)

\* Mutant: the sweep leaves a busy session alone.
ExpireIdle ==
    /\ closer = "no" /\ op = NoOp
    /\ closer' = "closing"
    /\ state' = "closing"
    /\ timers' = timers \ {pending}
    /\ pending' = NoPage
    /\ UNCHANGED <<browserVars, attached, shut, refs, waiting, op>>

Expire ==
    /\ closer = "no"
    /\ closer' = "closing"
    /\ state' = "closing"
    /\ timers' = timers \ {pending}
    /\ pending' = NoPage
    /\ UNCHANGED <<browserVars, attached, shut, refs, waiting, op>>

\* A context closes at once, the pages of the operator's one after the other.
ClosePages ==
    /\ closer = "closing" /\ pages # {}
    /\ \E set \in SUBSET pages :
        /\ IF attached THEN \E p \in pages : set = {p} ELSE set = pages
        /\ Gone(set)
        /\ shut' = (shut \/ set \cap operators # {})
    /\ UNCHANGED <<pending, timers, attached, closer, refs, waiting, op, state>>

CloseEnds ==
    /\ closer = "closing" /\ pages = {}
    /\ closer' = "done"
    /\ state' = "closed"
    /\ refs' = NoRefs
    /\ UNCHANGED <<browserVars, dialogVars, attached, shut, waiting, op>>

-----------------------------------------------------------------------------
Starting ==
    \/ StartNavigate \/ StartSnapshot \/ StartFind \/ StartEvaluate
    \/ Resolve \/ StartTabs \/ Select \/ StartClose \/ StartDialog

Going ==
    \/ GotoCommits \/ GotoFails \/ Navigated \/ RedirectDenied
    \/ TreeRendered \/ TreeFails \/ TitleRead
    \/ Found \/ NotFound \/ Acted \/ Uploaded \/ Shot \/ ActFails \/ Evaluated
    \/ NewPage \/ NewPageFails \/ FirstLoad \/ TabClosed \/ Listed
    \/ DialogAnswers \/ DialogFails

SessionCloses == Expire \/ ClosePages \/ CloseEnds

PagesNext ==
    \/ Request
    \/ Starting \/ Going \/ SessionCloses
    \/ \E p \in Pages : \/ DialogOpens(p) \/ DialogTimer(p)
                        \/ PageOpens(p) \/ PageCloses(p) \/ Drifts(p)

\* keyboard.press and the count of what a CSS selector matches have no time
\* limit, and wait as long as their page is there.
Untimed ==
    /\ op.page \in pages
    /\ \/ op.at = "found" /\ ~op.byRef
       \/ op.at = "acting" /\ op.kind = "interact"

\* The event loop runs what is ready, timers fire, no session outlives its
\* longest lifetime. Nothing is assumed of pages, the operator or callers.
Fairness ==
    /\ WF_pagesVars(Starting \/ (Going /\ ~Untimed))
    /\ \A p \in Pages : WF_pagesVars(DialogTimer(p))
    /\ WF_pagesVars(SessionCloses)

PagesSpec == PagesInit /\ [][PagesNext]_pagesVars /\ Fairness

-----------------------------------------------------------------------------
(* Properties.                                                             *)

\* Every variable has its type; the current page is an open one.
PagesTypeOK ==
    /\ attached \in BOOLEAN
    /\ pages \subseteq Pages
    /\ operators \subseteq pages
    /\ current \in pages \cup {NoPage}
    /\ refs \in [page : Pages \cup {NoPage}, seen : Pages \cup {NoPage}, fresh : BOOLEAN,
                 doc : {"same", "changed", "excused"}]
    /\ dialogs \subseteq pages /\ timers \subseteq Pages
    /\ pending \in Pages \cup {NoPage}
    /\ waiting \in 0..MaxWaiting
    /\ op \in [kind : Kinds, at : At, page : Pages \cup {NoPage},
               byRef : BOOLEAN]
    /\ state \in {"ready", "busy", "closing", "closed"}
    /\ closer \in {"no", "closing", "done"}
    /\ shut \in BOOLEAN

\* An interaction with a ref goes to the page whose tree the ref came from,
\* and to the document the tree showed, unless the page left it by itself or
\* an operation failed on it: tabs are opened, selected and closed, pages
\* close under the agent, and the ref itself only knows a revision.
ActsOnWhatItShows ==
    op.kind = "interact" /\ op.byRef /\ op.at = "acting" /\ refs # NoRefs
    => /\ refs.page = refs.seen
       /\ op.page \in pages => op.page = refs.seen
       /\ refs.doc # "changed"

\* No operation keeps the queue for ever, also one that asks a page for
\* something no timeout ends: every job of the session has its turn and its
\* answer. An operation that has opened a page in the operator's browser after
\* the session was closed is on its own: nothing closes that page.
EveryTurnEnds == []<>(op = NoOp \/ (closer = "done" /\ pages # {}))

\* A page whose dialog is the pending one never waits for good: the timer of
\* the dialog runs, or a job is answering it. (A dialog that another one has
\* pushed out of pendingDialog has neither.)
DialogWatched ==
    pending \in dialogs => pending \in timers \/ (op.at = "dialog" /\ op.page = pending)

\* "Existing: never close the operator's browser; close only pages we created."
ClosesOnlyItsPages == ~shut
=============================================================================
