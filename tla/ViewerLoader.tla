---------------------------- MODULE ViewerLoader ----------------------------
(***************************************************************************)
(* How the viewer comes by what it draws: the window's thread (viewer/src/ *)
(* window.rs and cartography/) sends the moves and the sizes of the window *)
(* to a thread that searches the tree (viewer/src/loader/), which has a    *)
(* third one hold back the searches until the moves pause.  What a search  *)
(* finds is left in a buffer, and a flag tells the window to draw it.      *)
(*                                                                         *)
(* An area is how many moves led to it and at how many of them it was led  *)
(* astray, a size how many sizes there were before; what a search finds    *)
(* goes by its area and its level, which is computed from an area and a    *)
(* size.  The window moves by what the user does and tells the loader to   *)
(* move in the same way, except for a pinch: that one it tells the loader  *)
(* by a factor it computes anew from the view already zoomed, so that from *)
(* then on the loader searches another area than the window shows.  A      *)
(* search yields its entries in batches, between which messages are taken. *)
(* Time is left out: the debouncer may pass a tick on at any moment, as it *)
(* may in the code just after it has passed on another one.                *)
(***************************************************************************)
EXTENDS Naturals, Sequences

CONSTANTS Bare,      \* the areas in which nothing is found
          Batches,   \* of each area, how many batches come before the last
          Nothing,   \* an empty buffer
          MaxMoves,  \* bound: pans, zooms and pinches
          MaxSizes   \* bound: sizes of the window

\* The areas the window shows are those with no move astray.
Areas == (0 .. MaxMoves) \X (0 .. MaxMoves)

ASSUME ViewerConstants ==
    /\ MaxMoves \in Nat /\ MaxSizes \in Nat \ {0}
    /\ Bare \subseteq Areas /\ Batches \in [Areas -> Nat]
    /\ Nothing \notin Areas \X (Areas \X Nat)

VARIABLES
    view,      \* view_bbox of the window: its moves
    astray,    \* history: at how many of them the loader is told another one
    sizes,     \* how many sizes the window has had
    stage,     \* of the window: "idle", "take" or "draw"
    rerender,  \* the next redraw draws
    hand,      \* the objects it is drawing
    drawn,     \* what it drew last, and for which area
    movedAt,   \* history: the sizes there were at the last move
    messages,  \* from the window to the loader
    buffer,    \* objects, shared by both
    hasUpdates,
    ticks,     \* from the loader to the debouncer
    waiting,   \* send: the debouncer has a tick to pass on
    passed,    \* from the debouncer to the loader
    pc,        \* of the loader: "tick", "load", "store", "flag", "message"
    bbox, size, level,  \* of the loader
    search     \* its search: of what, how far, and whether it is over

windowVars == <<view, astray, sizes, stage, rerender, hand, drawn, movedAt>>
debounceVars == <<ticks, waiting, passed>>
loaderVars == <<pc, bbox, size, level, search>>
vars == <<windowVars, messages, buffer, hasUpdates, debounceVars, loaderVars>>

\* bbox.shift_over or bbox.zoom by what a message says
Moved(area, message) ==
    <<area[1] + 1, IF message = "astray" THEN area[2] + 1 ELSE area[2]>>

\* compute_deepest_level_for_visible_objects
LevelOf(area, s) == <<area, s>>

\* reload_objects: nothing is searched yet.
Search(area, l) == [area |-> area, level |-> l, left |-> Batches[area], over |-> FALSE]

Found(s) == IF s.area \in Bare THEN Nothing ELSE <<s.area, s.level>>

\* The first search has the level of a window of no size; its size is sent
\* when the window is there.
Init ==
    /\ view = 0 /\ astray = 0 /\ sizes = 1 /\ movedAt = 0
    /\ stage = "idle" /\ rerender = TRUE /\ hand = Nothing
    /\ drawn = [view |-> 0, objects |-> Nothing]
    /\ messages = <<"resize">>
    /\ buffer = Nothing /\ hasUpdates = FALSE
    /\ ticks = 0 /\ waiting = FALSE /\ passed = 0
    /\ pc = "store"
    /\ bbox = <<0, 0>> /\ size = 0 /\ level = LevelOf(bbox, 0)
    /\ search = Search(bbox, level)

-----------------------------------------------------------------------------
(* The window.  Every event asks is_updated. *)

IsUpdated ==
    /\ rerender' = (rerender \/ hasUpdates)
    /\ hasUpdates' = FALSE

\* The window's own view moves, and it tells the loader.
MoveBy(message) ==
    /\ stage = "idle" /\ view < MaxMoves
    /\ view' = view + 1
    /\ movedAt' = sizes
    /\ messages' = Append(messages, message)
    /\ rerender' = TRUE
    /\ hasUpdates' = FALSE
    /\ UNCHANGED <<sizes, stage, hand, drawn, buffer, debounceVars, loaderVars>>

\* A drag or the wheel, or a pinch both of whose factors are the same: a zoom
\* by more than 1 does nothing, so that the view is still what it was.
Move == MoveBy("move") /\ UNCHANGED astray

\* A pinch.  Its factor depends on the height and the place of the view, which
\* it has changed before it computes the one it sends.
Pinch == MoveBy("astray") /\ astray' = astray + 1

Resize ==
    /\ stage = "idle" /\ sizes < MaxSizes
    /\ sizes' = sizes + 1
    /\ messages' = Append(messages, "resize")
    /\ IsUpdated
    /\ UNCHANGED <<view, astray, stage, hand, drawn, movedAt, buffer, debounceVars, loaderVars>>

\* RedrawRequested, which each redraw asks for again
Redraw ==
    /\ stage = "idle"
    /\ IsUpdated
    /\ stage' = IF rerender' THEN "take" ELSE "idle"
    /\ UNCHANGED <<view, astray, sizes, hand, drawn, movedAt, messages, buffer,
                   debounceVars, loaderVars>>

\* render takes the objects out of the buffer ...
Take ==
    /\ stage = "take"
    /\ rerender' = FALSE
    /\ hand' = buffer /\ buffer' = Nothing
    /\ stage' = "draw"
    /\ UNCHANGED <<view, astray, sizes, drawn, movedAt, messages, hasUpdates,
                   debounceVars, loaderVars>>

\* Fault: they are put back whatever has come meanwhile.
PutBackOver ==
    /\ stage = "draw"
    /\ drawn' = [view |-> view, objects |-> hand]
    /\ buffer' = hand
    /\ hand' = Nothing
    /\ stage' = "idle"
    /\ UNCHANGED <<view, astray, sizes, rerender, movedAt, messages, hasUpdates,
                   debounceVars, loaderVars>>

\* ... and puts them back when it has drawn them, if the buffer is empty.
PutBack ==
    /\ stage = "draw"
    /\ drawn' = [view |-> view, objects |-> hand]
    /\ buffer' = IF buffer = Nothing THEN hand ELSE buffer
    /\ hand' = Nothing
    /\ stage' = "idle"
    /\ UNCHANGED <<view, astray, sizes, rerender, movedAt, messages, hasUpdates,
                   debounceVars, loaderVars>>

-----------------------------------------------------------------------------
(* The debouncer: of all ticks that came since the last one it passed on,  *)
(* it passes on one.                                                       *)

PassOn ==
    /\ waiting
    /\ waiting' = FALSE
    /\ passed' = passed + 1
    /\ UNCHANGED <<windowVars, messages, buffer, hasUpdates, ticks, loaderVars>>

Receive ==
    /\ ticks > 0
    /\ ticks' = ticks - 1
    /\ waiting' = TRUE
    /\ UNCHANGED <<windowVars, messages, buffer, hasUpdates, passed, loaderVars>>

-----------------------------------------------------------------------------
(* The loader's loop. *)

\* Fault: a tick that comes during a search is taken and forgotten.
TickWhenOver ==
    /\ pc = "tick"
    /\ passed' = IF passed > 0 THEN passed - 1 ELSE passed
    /\ search' = IF passed > 0 /\ search.over THEN Search(bbox, level) ELSE search
    /\ pc' = "load"
    /\ UNCHANGED <<windowVars, messages, buffer, hasUpdates, ticks, waiting,
                   bbox, size, level>>

\* A tick gives up the search under way for a new one.
Tick ==
    /\ pc = "tick"
    /\ IF passed > 0
       THEN /\ passed' = passed - 1
            /\ search' = Search(bbox, level)
       ELSE UNCHANGED <<passed, search>>
    /\ pc' = "load"
    /\ UNCHANGED <<windowVars, messages, buffer, hasUpdates, ticks, waiting,
                   bbox, size, level>>

\* nth(10): another batch, or the end.
Load ==
    /\ pc = "load"
    /\ IF search.left > 0 /\ ~search.over
       THEN search' = [search EXCEPT !.left = @ - 1]
       ELSE UNCHANGED search
    /\ pc' = IF search.left = 0 /\ ~search.over THEN "store" ELSE "message"
    /\ UNCHANGED <<windowVars, messages, buffer, hasUpdates, debounceVars,
                   bbox, size, level>>

Store ==
    /\ pc = "store"
    /\ buffer' = Found(search)
    /\ pc' = "flag"
    /\ UNCHANGED <<windowVars, messages, hasUpdates, debounceVars,
                   bbox, size, level, search>>

Flag ==
    /\ pc = "flag"
    /\ hasUpdates' = TRUE
    /\ search' = [search EXCEPT !.over = TRUE]
    /\ pc' = "message"
    /\ UNCHANGED <<windowVars, messages, buffer, debounceVars, bbox, size, level>>

\* A new size is taken into account by the next search, but asks for none.
Message ==
    /\ pc = "message"
    /\ pc' = "tick"
    /\ IF messages = <<>> THEN UNCHANGED <<messages, bbox, size, level, ticks>>
       ELSE /\ messages' = Tail(messages)
            /\ IF Head(messages) = "resize"
               THEN size' = size + 1 /\ UNCHANGED <<bbox, ticks>>
               ELSE bbox' = Moved(bbox, Head(messages)) /\ ticks' = ticks + 1 /\ UNCHANGED size
            /\ level' = LevelOf(bbox', size')
    /\ UNCHANGED <<windowVars, buffer, hasUpdates, waiting, passed, search>>

-----------------------------------------------------------------------------

Window == Redraw \/ Take \/ PutBack
Debouncer == PassOn \/ Receive
Loader == Tick \/ Load \/ Store \/ Flag \/ Message

Next == Move \/ Pinch \/ Resize \/ Window \/ Debouncer \/ Loader

(* Each thread runs on.  The window redraws again and again; the debouncer *)
(* passes its tick on when no other one has come for a while.              *)
Fairness == WF_vars(Window) /\ WF_vars(Debouncer) /\ WF_vars(Loader)

Spec == Init /\ [][Next]_vars /\ Fairness

(* The area all messages lead the loader to.  It is the one that is seen   *)
(* unless one of them has led it astray.                                   *)
Heard == <<view, astray>>

(* Objects of that area, at a level for it and for a size the window has   *)
(* had since the last move                                                 *)
OfLastMove(objects) ==
    \E s \in movedAt .. sizes : objects = <<Heard, LevelOf(Heard, s)>>

(* Nothing is on its way: no message or tick that asks for a search, no    *)
(* search, and no redraw that has something to draw.                       *)
Quiet ==
    /\ \A i \in DOMAIN messages : messages[i] = "resize"
    /\ ticks = 0 /\ ~waiting /\ passed = 0
    /\ search.over /\ ~hasUpdates
    /\ stage = "idle" /\ ~rerender

(* QuietIsRight: however moves, sizes, ticks, searches and redraws have    *)
(* come between one another, when all is quiet the picture is of the area  *)
(* that is seen, and the objects in it are those of the area the loader    *)
(* has been led to, but for a bare one: the same area if no pinch has led  *)
(* it astray, and never that of an earlier move.  After such a pinch it is *)
(* another area than the one that is seen, also after further moves.       *)
QuietIsRight ==
    Quiet => drawn.view = view /\ (Heard \notin Bare => OfLastMove(drawn.objects))

(* LastAreaDrawn: once the user has made the last move, the window comes   *)
(* to draw what a search of the area that move has led the loader to       *)
(* finds, at a level for that area and for a size of the window not older  *)
(* than the move, and stays with it.  That is the area that is seen if no  *)
(* pinch has led the loader astray.  Not so if nothing is found there:     *)
(* then what was drawn before may be put back in the place of nothing.     *)
LastAreaDrawn ==
    <>[](/\ drawn.view = view
         /\ Heard \notin Bare =>
               \E s \in movedAt .. MaxSizes : drawn.objects = <<Heard, LevelOf(Heard, s)>>)
=============================================================================
