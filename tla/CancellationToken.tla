-------------------------- MODULE CancellationToken --------------------------
(***************************************************************************)
(* cancellation_token (include/kcenon/thread/core/cancellation_token.h):   *)
(* tokens with registered callbacks, and tokens linked to parents, whose   *)
(* cancellation they follow through a callback registered on each parent.  *)
(*                                                                         *)
(* callback_mutex of a token is held for one critical section at a time    *)
(* and never while another is taken, so a critical section is one step.    *)
(* The callbacks run outside it, one step each; the order in which a       *)
(* thread runs the ones it has taken is left open.                         *)
(***************************************************************************)
EXTENDS Integers

CONSTANTS
    Tokens,
    Links,      \* pairs <<parent, child>>: the child is made by create_linked
    Callbacks,  \* what the users of the tokens register, each once
    Threads,
    None

ASSUME LinksJoinTokens == Links \subseteq Tokens \X Tokens
ASSUME CallbacksAreNoLinks == Callbacks \cap Links = {} /\ None \notin Tokens

VARIABLES
    usable,     \* tokens somebody holds
    dropped,    \* tokens everybody has let go of
    cancelled,  \* is_cancelled of each token's state
    callbacks,  \* the registered callbacks of each token
    owner,      \* history: the token a user's callback was registered on
    todo,       \* callbacks each thread has taken and has still to run
    ran,        \* history: how often each user's callback ran
    lost,       \* history: what a thread had still to run when a callback threw
    linking     \* the token each thread is making, with the parents not yet linked

vars == <<usable, dropped, cancelled, callbacks, owner, todo, ran, lost, linking>>

Items == Callbacks \cup Links
Parents(t) == {p \in Tokens : <<p, t>> \in Links}
NotLinking == [child |-> None, parents |-> {}]
Free(th) == todo[th] = {} /\ linking[th] = NotLinking

TypeOK ==
    /\ usable \subseteq Tokens /\ dropped \subseteq Tokens /\ cancelled \subseteq Tokens
    /\ callbacks \in [Tokens -> SUBSET Items]
    /\ owner \in [Callbacks -> Tokens \cup {None}]
    /\ todo \in [Threads -> SUBSET Items]
    /\ ran \in [Callbacks -> Nat]
    /\ lost \subseteq Items
    /\ linking \in [Threads -> [child : Tokens \cup {None}, parents : SUBSET Tokens]]
    /\ \A th \in Threads : linking[th].parents \subseteq Parents(linking[th].child)

Init ==
    /\ usable = {t \in Tokens : Parents(t) = {}}
    /\ dropped = {} /\ cancelled = {}
    /\ callbacks = [t \in Tokens |-> {}]
    /\ owner = [c \in Callbacks |-> None]
    /\ todo = [th \in Threads |-> {}]
    /\ ran = [c \in Callbacks |-> 0] /\ lost = {}
    /\ linking = [th \in Threads |-> NotLinking]

---------------------------------------------------------------------------

\* The critical section of cancel(): the first to set is_cancelled takes the callbacks.
Fire(th, t, rest) ==
    /\ cancelled' = cancelled \cup {t}
    /\ IF t \in cancelled
       THEN todo' = [todo EXCEPT ![th] = rest] /\ UNCHANGED callbacks
       ELSE /\ todo' = [todo EXCEPT ![th] = rest \cup callbacks[t]]
            /\ callbacks' = [callbacks EXCEPT ![t] = {}]

Cancel(th, t) ==
    /\ Free(th) /\ t \in usable
    /\ Fire(th, t, {})
    /\ UNCHANGED <<usable, dropped, owner, ran, linking, lost>>

\* A user's callback runs; it may itself cancel a token.
RunCallback(th, c) ==
    /\ c \in todo[th]
    /\ ran' = [ran EXCEPT ![c] = @ + 1]
    /\ \/ /\ todo' = [todo EXCEPT ![th] = @ \ {c}]
          /\ UNCHANGED <<cancelled, callbacks>>
       \/ \E t \in usable : Fire(th, t, todo[th] \ {c})
    /\ UNCHANGED <<usable, dropped, owner, linking, lost>>

\* A user's callback throws: the exception leaves every loop of the thread, and with them
\* the calls of cancel, register_callback or create_linked it came from.
CallbackThrows(th, c) ==
    /\ c \in todo[th]
    /\ ran' = [ran EXCEPT ![c] = @ + 1]
    /\ lost' = lost \cup (todo[th] \ {c})
    /\ todo' = [todo EXCEPT ![th] = {}]
    /\ dropped' = dropped \cup ({linking[th].child} \ {None})
    /\ linking' = [linking EXCEPT ![th] = NotLinking]
    /\ UNCHANGED <<usable, cancelled, callbacks, owner>>

\* The callback of create_linked: nothing when the weak_ptr has expired.
RunLink(th, l) ==
    /\ l \in todo[th]
    /\ IF l[2] \in dropped
       THEN todo' = [todo EXCEPT ![th] = @ \ {l}] /\ UNCHANGED <<cancelled, callbacks>>
       ELSE Fire(th, l[2], todo[th] \ {l})
    /\ UNCHANGED <<usable, dropped, owner, ran, linking, lost>>

\* Mutant: the state of the token is not looked at under the mutex.
AttachBlindly(th, t, item) ==
    /\ callbacks' = [callbacks EXCEPT ![t] = @ \cup {item}]
    /\ UNCHANGED todo

\* register_callback: on a cancelled token the callback runs at once.
Attach(th, t, item) ==
    IF t \in cancelled
    THEN todo' = [todo EXCEPT ![th] = {item}] /\ UNCHANGED callbacks
    ELSE callbacks' = [callbacks EXCEPT ![t] = @ \cup {item}] /\ UNCHANGED todo

RegisterCallback(th, t, c) ==
    /\ Free(th) /\ t \in usable /\ owner[c] = None
    /\ owner' = [owner EXCEPT ![c] = t]
    /\ Attach(th, t, c)
    /\ UNCHANGED <<usable, dropped, cancelled, ran, linking, lost>>

CreateLinked(th, t) ==
    /\ Free(th)
    /\ t \notin usable \cup dropped /\ \A other \in Threads : linking[other].child # t
    /\ Parents(t) \subseteq usable
    /\ linking' = [linking EXCEPT ![th] = [child |-> t, parents |-> Parents(t)]]
    /\ UNCHANGED <<usable, dropped, cancelled, callbacks, owner, todo, ran, lost>>

\* One parent after the other; the initializer_list keeps them alive.
LinkParent(th, p) ==
    /\ todo[th] = {} /\ p \in linking[th].parents
    /\ Attach(th, p, <<p, linking[th].child>>)
    /\ linking' = [linking EXCEPT ![th].parents = @ \ {p}]
    /\ UNCHANGED <<usable, dropped, cancelled, owner, ran, lost>>

LinkedReady(th) ==
    /\ todo[th] = {} /\ linking[th].child # None /\ linking[th].parents = {}
    /\ usable' = usable \cup {linking[th].child}
    /\ linking' = [linking EXCEPT ![th] = NotLinking]
    /\ UNCHANGED <<dropped, cancelled, callbacks, owner, todo, ran, lost>>

\* The last holder lets go of the token: its state and its callbacks are destroyed.
Drop(t) ==
    /\ t \in usable /\ \A th \in Threads : t \notin linking[th].parents
    /\ usable' = usable \ {t} /\ dropped' = dropped \cup {t}
    /\ callbacks' = [callbacks EXCEPT ![t] = {}]
    /\ UNCHANGED <<cancelled, owner, todo, ran, linking, lost>>

---------------------------------------------------------------------------

Proceed(th) ==
    \/ \E c \in Callbacks : RunCallback(th, c) \/ CallbackThrows(th, c)
    \/ \E l \in Links : RunLink(th, l)
    \/ \E p \in Tokens : LinkParent(th, p)
    \/ LinkedReady(th)

Next ==
    \/ \E th \in Threads :
          \/ Proceed(th)
          \/ \E t \in Tokens :
                \/ Cancel(th, t) \/ CreateLinked(th, t)
                \/ \E c \in Callbacks : RegisterCallback(th, t, c)
    \/ \E t \in Tokens : Drop(t)

Spec == Init /\ [][Next]_vars

---------------------------------------------------------------------------
(* Properties.                                                              *)

\* "Callbacks are invoked exactly once": never twice, whoever cancels, registers or
\* propagates at the same time.
CallbackOnce == \A c \in Callbacks : ran[c] <= 1

\* No callback of a cancelled token is forgotten, also not one registered while the
\* token was being cancelled: it ran, a thread is on its way to run it, or a callback
\* before it threw.
NoneForgotten ==
    \A c \in Callbacks : owner[c] \in cancelled =>
        ran[c] >= 1 \/ c \in lost \/ \E th \in Threads : c \in todo[th]

\* Cancellation reaches linked tokens, also when a parent is cancelled while the link is
\* made: the child of a cancelled parent is cancelled, a thread is about to do it, or a
\* callback before the link's threw.
LinkNotLost ==
    \A l \in Links : l[2] \in usable /\ l[1] \in cancelled =>
        l[2] \in cancelled \/ l \in lost \/ \E th \in Threads : l \in todo[th]

===============================================================================
