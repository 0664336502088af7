------------------------ MODULE CancellationTokenProofs ------------------------
(***************************************************************************)
(* For every set of tokens, links, callbacks and threads: a callback runs  *)
(* at most once, none of a cancelled token is forgotten, and cancellation  *)
(* reaches linked tokens.  The invariant says where a callback can be: not *)
(* registered, registered with a token that is not cancelled, in the hands *)
(* of exactly one thread, or run; and a link of a finished or growing      *)
(* linked token is with its parent until the parent is cancelled.          *)
(***************************************************************************)
EXTENDS CancellationToken, TLAPS

\* A registered callback has not run, belongs to its token, and the token is not cancelled.
Registered ==
    \A c \in Callbacks : \A t \in Tokens :
        c \in callbacks[t] => owner[c] = t /\ ran[c] = 0 /\ \A th \in Threads : c \notin todo[th]

\* A callback a thread has taken has not run and no other thread has it.
Taken ==
    \A c \in Callbacks : \A th \in Threads :
        c \in todo[th] => owner[c] \in Tokens /\ ran[c] = 0 /\ \A o \in Threads \ {th} : c \notin todo[o]

\* A callback that was never registered has not run.
Unregistered == \A c \in Callbacks : owner[c] = None => ran[c] = 0

\* Until its token is cancelled or dropped a callback stays registered.
StaysRegistered ==
    \A c \in Callbacks : owner[c] \in Tokens =>
        owner[c] \in cancelled \/ owner[c] \in dropped \/ c \in callbacks[owner[c]]

EmptyWhenCancelled == \A t \in Tokens : t \in cancelled => callbacks[t] = {}

\* No token is both held and let go of, and one being made is neither.
Held ==
    /\ usable \cap dropped = {}
    /\ \A th \in Threads : linking[th].child \notin usable \cup dropped
    /\ \A th, o \in Threads : th # o /\ linking[th].child # None => linking[o].child # linking[th].child

CallbackInv ==
    /\ Registered /\ Taken /\ Unregistered /\ StaysRegistered /\ EmptyWhenCancelled /\ Held
    /\ CallbackOnce /\ NoneForgotten

\* The callback of create_linked was handed to the parent.
Attached(l) ==
    \/ l[2] \in usable
    \/ \E th \in Threads : linking[th].child = l[2] /\ l[1] \notin linking[th].parents

\* Where the link l is, once it was attached.
LinkPlace(l) ==
    \/ l[1] \in dropped /\ l[1] \notin cancelled
    \/ l[1] \notin cancelled /\ l \in callbacks[l[1]]
    \/ l[1] \in cancelled /\ \/ l[2] \in cancelled \cup dropped \/ l \in lost
                              \/ \E th \in Threads : l \in todo[th]

LinkInv == \A l \in Links : Attached(l) => LinkPlace(l)

IInv == TypeOK /\ CallbackInv /\ LinkInv

USE DEF Items, Parents, NotLinking

\* Types are kept by every step.
LEMMA TypeCorrect == TypeOK /\ [Next]_vars => TypeOK'
<1> SUFFICES ASSUME TypeOK, [Next]_vars PROVE TypeOK'
    OBVIOUS
<1> USE LinksJoinTokens DEF TypeOK
<1>f. ASSUME NEW th \in Threads, NEW t \in Tokens, NEW rest \in SUBSET Items, Fire(th, t, rest)
      PROVE  /\ cancelled' \subseteq Tokens
             /\ callbacks' \in [Tokens -> SUBSET Items]
             /\ todo' \in [Threads -> SUBSET Items]
    <2>1. {} \in SUBSET Items /\ rest \cup callbacks[t] \in SUBSET Items
        OBVIOUS
    <2>2. CASE t \in cancelled
        BY <2>1, <2>2, <1>f DEF Fire
    <2>3. CASE t \notin cancelled
        BY <2>1, <2>3, <1>f DEF Fire
    <2> QED BY <2>2, <2>3
<1>a. ASSUME NEW th \in Threads, NEW t \in Tokens, NEW item \in Items, Attach(th, t, item)
      PROVE  /\ callbacks' \in [Tokens -> SUBSET Items]
             /\ todo' \in [Threads -> SUBSET Items]
    <2>1. {item} \in SUBSET Items /\ callbacks[t] \cup {item} \in SUBSET Items
        OBVIOUS
    <2>2. CASE t \in cancelled
        BY <2>1, <2>2, <1>a DEF Attach
    <2>3. CASE t \notin cancelled
        BY <2>1, <2>3, <1>a DEF Attach
    <2> QED BY <2>2, <2>3
<1>1. ASSUME NEW th \in Threads, NEW c \in Callbacks, RunCallback(th, c) PROVE TypeOK'
    <2>1. ran' \in [Callbacks -> Nat]
        BY <1>1 DEF RunCallback
    <2>2. /\ cancelled' \subseteq Tokens
          /\ callbacks' \in [Tokens -> SUBSET Items]
          /\ todo' \in [Threads -> SUBSET Items]
        <3>1. todo[th] \ {c} \in SUBSET Items
            OBVIOUS
        <3>2. CASE todo' = [todo EXCEPT ![th] = @ \ {c}] /\ UNCHANGED <<cancelled, callbacks>>
            BY <3>2
        <3>3. CASE \E t \in usable : Fire(th, t, todo[th] \ {c})
            BY <3>1, <3>3, <1>f
        <3> QED BY <1>1, <3>2, <3>3, Zenon DEF RunCallback
    <2> QED BY <2>1, <2>2, <1>1 DEF RunCallback
<1>t. ASSUME NEW th \in Threads, NEW c \in Callbacks, CallbackThrows(th, c) PROVE TypeOK'
    <2>1. ran' \in [Callbacks -> Nat] /\ lost' \subseteq Items
        BY <1>t DEF CallbackThrows
    <2>2. dropped' \subseteq Tokens
        BY <1>t DEF CallbackThrows
    <2>3. todo' \in [Threads -> SUBSET Items]
        BY <1>t DEF CallbackThrows
    <2>4. /\ linking' \in [Threads -> [child : Tokens \cup {None}, parents : SUBSET Tokens]]
          /\ \A o \in Threads : linking'[o].parents \subseteq Parents(linking'[o].child)
        BY <1>t DEF CallbackThrows
    <2> QED BY <2>1, <2>2, <2>3, <2>4, <1>t DEF CallbackThrows
<1>2. ASSUME NEW th \in Threads, NEW l \in Links, RunLink(th, l) PROVE TypeOK'
    <2>1. l[2] \in Tokens /\ todo[th] \ {l} \in SUBSET Items
        OBVIOUS
    <2>2. /\ cancelled' \subseteq Tokens
          /\ callbacks' \in [Tokens -> SUBSET Items]
          /\ todo' \in [Threads -> SUBSET Items]
        BY <2>1, <1>2, <1>f DEF RunLink
    <2> QED BY <2>2, <1>2 DEF RunLink
<1>3. ASSUME NEW th \in Threads, NEW p \in Tokens, LinkParent(th, p) PROVE TypeOK'
    <2>1. <<p, linking[th].child>> \in Items
        BY <1>3 DEF LinkParent
    <2>2. /\ callbacks' \in [Tokens -> SUBSET Items]
          /\ todo' \in [Threads -> SUBSET Items]
        BY <2>1, <1>3, <1>a DEF LinkParent
    <2>3. /\ linking' \in [Threads -> [child : Tokens \cup {None}, parents : SUBSET Tokens]]
          /\ \A o \in Threads : linking'[o].parents \subseteq Parents(linking'[o].child)
        BY <1>3 DEF LinkParent
    <2> QED BY <2>2, <2>3, <1>3 DEF LinkParent
<1>4. ASSUME NEW th \in Threads, LinkedReady(th) PROVE TypeOK'
    BY <1>4, CallbacksAreNoLinks DEF LinkedReady
<1>5. ASSUME NEW th \in Threads, NEW t \in Tokens, Cancel(th, t) PROVE TypeOK'
    BY <1>5, <1>f DEF Cancel
<1>6. ASSUME NEW th \in Threads, NEW t \in Tokens, CreateLinked(th, t) PROVE TypeOK'
    BY <1>6 DEF CreateLinked
<1>7. ASSUME NEW th \in Threads, NEW t \in Tokens, NEW c \in Callbacks, RegisterCallback(th, t, c)
      PROVE  TypeOK'
    BY <1>7, <1>a DEF RegisterCallback
<1>8. ASSUME NEW t \in Tokens, Drop(t) PROVE TypeOK'
    BY <1>8 DEF Drop
<1>9. CASE UNCHANGED vars
    BY <1>9 DEF vars
<1> QED BY <1>1, <1>t, <1>2, <1>3, <1>4, <1>5, <1>6, <1>7, <1>8, <1>9, Zenon DEF Next, Proceed

---------------------------------------------------------------------------

\* How often a callback ran after a step in which the ones in done ran.
RanAfter(done) == [c \in Callbacks |-> IF c \in done THEN ran[c] + 1 ELSE ran[c]]

\* What Fire does once it is known that a cancelled token has no callbacks.
LEMMA FireEffect ==
    ASSUME TypeOK, EmptyWhenCancelled, NEW th \in Threads, NEW t \in Tokens,
           NEW rest \in SUBSET todo[th], Fire(th, t, rest)
    PROVE  /\ cancelled' = cancelled \cup {t}
           /\ todo'[th] = rest \cup callbacks[t]
           /\ \A o \in Threads \ {th} : todo'[o] = todo[o]
           /\ callbacks'[t] = {}
           /\ \A u \in Tokens \ {t} : callbacks'[u] = callbacks[u]
<1>1. CASE t \in cancelled
    <2>1. callbacks[t] = {}
        BY <1>1 DEF EmptyWhenCancelled
    <2> QED BY <1>1, <2>1 DEF Fire, TypeOK
<1>2. CASE t \notin cancelled
    BY <1>2 DEF Fire, TypeOK
<1> QED BY <1>1, <1>2

\* Cancelling a token keeps the places of the callbacks, when the callbacks the thread
\* has no longer to run ran in the same step.
LEMMA FireKeepsCallbacks ==
    ASSUME TypeOK, CallbackInv, NEW th \in Threads, NEW t \in Tokens, t \notin dropped,
           NEW rest \in SUBSET todo[th],
           Fire(th, t, rest), ran' = RanAfter(todo[th] \ rest),
           UNCHANGED <<usable, dropped, owner, lost, linking>>
    PROVE  CallbackInv'
<1> USE DEF TypeOK, CallbackInv
<1> DEFINE done == todo[th] \ rest
<1>1. /\ cancelled' = cancelled \cup {t}
      /\ todo'[th] = rest \cup callbacks[t]
      /\ \A o \in Threads \ {th} : todo'[o] = todo[o]
      /\ callbacks'[t] = {}
      /\ \A u \in Tokens \ {t} : callbacks'[u] = callbacks[u]
    BY FireEffect
<1>2. \A c \in Callbacks : ran[c] \in Nat /\ ran'[c] = IF c \in done THEN ran[c] + 1 ELSE ran[c]
    BY DEF RanAfter
<1>3. \A c \in Callbacks : owner'[c] = owner[c]
    OBVIOUS
<1> HIDE DEF done
<1>4. done \subseteq todo[th] /\ done \cap rest = {}
    BY DEF done
<1>5. todo[th] = done \cup rest
    BY DEF done
<1>6. Registered'
    <2> SUFFICES ASSUME NEW c \in Callbacks, NEW u \in Tokens, c \in callbacks'[u]
                 PROVE  owner'[c] = u /\ ran'[c] = 0 /\ \A o \in Threads : c \notin todo'[o]
        BY Zenon DEF Registered
    <2>1. u # t /\ c \in callbacks[u]
        BY <1>1
    <2>2. owner[c] = u /\ ran[c] = 0 /\ (\A o \in Threads : c \notin todo[o]) /\ c \notin callbacks[t]
        BY <2>1 DEF Registered
    <2>3. c \notin done
        BY <2>2, <1>4
    <2> QED BY <2>2, <2>3, <1>1, <1>2, <1>3, <1>5, Zenon
<1>7. Taken'
    <2> SUFFICES ASSUME NEW c \in Callbacks, NEW o \in Threads, c \in todo'[o]
                 PROVE  /\ owner[c] \in Tokens /\ ran'[c] = 0
                        /\ \A q \in Threads \ {o} : c \notin todo'[q]
        BY <1>3, Zenon DEF Taken
    <2>1. CASE c \in callbacks[t]
        <3>1. owner[c] = t /\ ran[c] = 0 /\ \A q \in Threads : c \notin todo[q]
            BY <2>1 DEF Registered
        <3>2. o = th /\ c \notin done
            BY <3>1, <1>1, <1>4
        <3> QED BY <3>1, <3>2, <1>1, <1>2, Zenon
    <2>2. CASE c \notin callbacks[t]
        <3>1. c \in todo[o] /\ c \notin done
            <4>1. CASE o = th
                BY <4>1, <2>2, <1>1, <1>4, <1>5
            <4>2. CASE o # th
                BY <4>2, <1>1, <1>4 DEF Taken
            <4> QED BY <4>1, <4>2
        <3>2. owner[c] \in Tokens /\ ran[c] = 0 /\ \A q \in Threads \ {o} : c \notin todo[q]
            BY <3>1 DEF Taken
        <3>3. \A q \in Threads \ {o} : c \notin todo'[q]
            BY <3>2, <2>2, <1>1, <1>5
        <3> QED BY <3>1, <3>2, <3>3, <1>2, Zenon
    <2> QED BY <2>1, <2>2
<1>8. Unregistered'
    BY <1>2, <1>3, <1>4, CallbacksAreNoLinks, Zenon DEF Unregistered, Taken
<1>9. StaysRegistered'
    BY <1>1, <1>3 DEF StaysRegistered
<1>10. EmptyWhenCancelled'
    BY <1>1 DEF EmptyWhenCancelled
<1>11. Held'
    BY DEF Held
<1>12. CallbackOnce'
    <2> SUFFICES ASSUME NEW c \in Callbacks PROVE ran'[c] <= 1
        BY Zenon DEF CallbackOnce
    <2>1. c \in done => ran[c] = 0
        BY <1>4 DEF Taken
    <2>2. ran[c] \in Nat /\ ran'[c] = (IF c \in done THEN ran[c] + 1 ELSE ran[c])
        BY <1>2, Zenon
    <2>3. ran[c] <= 1
        BY DEF CallbackOnce
    <2> HIDE DEF TypeOK, CallbackInv
    <2> QED BY <2>1, <2>2, <2>3
<1>13. NoneForgotten'
    <2> SUFFICES ASSUME NEW c \in Callbacks, owner[c] \in cancelled \cup {t}
                 PROVE  ran'[c] >= 1 \/ c \in lost' \/ \E o \in Threads : c \in todo'[o]
        <3>1. NoneForgotten' <=> \A c \in Callbacks : owner'[c] \in cancelled' =>
                                    ran'[c] >= 1 \/ c \in lost' \/ \E o \in Threads : c \in todo'[o]
            BY DEF NoneForgotten
        <3> QED BY <3>1, <1>1, <1>3, Zenon
    <2>1. CASE c \in done
        <3>1. ran[c] \in Nat /\ ran'[c] = ran[c] + 1
            BY <2>1, <1>2, Zenon
        <3>2. ran'[c] >= 1
            BY ONLY <3>1
        <3> QED BY <3>2
    <2>2. CASE c \notin done /\ owner[c] \in cancelled
        BY <2>2, <1>1, <1>2, <1>5, Zenon DEF NoneForgotten
    <2>3. CASE owner[c] = t /\ t \notin cancelled
        BY <2>3, <1>1 DEF StaysRegistered
    <2> QED BY <2>1, <2>2, <2>3
<1> QED BY <1>6, <1>7, <1>8, <1>9, <1>10, <1>11, <1>12, <1>13

\* So does running callbacks without cancelling anything.
LEMMA RunKeepsCallbacks ==
    ASSUME TypeOK, CallbackInv, NEW th \in Threads, NEW rest \in SUBSET todo[th],
           todo' = [todo EXCEPT ![th] = rest], ran' = RanAfter(todo[th] \ rest),
           UNCHANGED <<usable, dropped, cancelled, callbacks, owner, lost, linking>>
    PROVE  CallbackInv'
<1> USE DEF TypeOK, CallbackInv
<1> DEFINE done == todo[th] \ rest
<1>1. /\ todo'[th] = rest
      /\ \A o \in Threads \ {th} : todo'[o] = todo[o]
    OBVIOUS
<1>2. \A c \in Callbacks : ran[c] \in Nat /\ ran'[c] = IF c \in done THEN ran[c] + 1 ELSE ran[c]
    BY DEF RanAfter
<1> HIDE DEF done
<1>4. done \subseteq todo[th] /\ done \cap rest = {} /\ todo[th] = done \cup rest
    BY DEF done
<1>6. Registered'
    BY <1>1, <1>2, <1>4, Zenon DEF Registered
<1>7. Taken'
    <2> SUFFICES ASSUME NEW c \in Callbacks, NEW o \in Threads, c \in todo'[o]
                 PROVE  /\ owner[c] \in Tokens /\ ran'[c] = 0
                        /\ \A q \in Threads \ {o} : c \notin todo'[q]
        BY Zenon DEF Taken
    <2>1. c \in todo[o]
        BY <1>1, <1>4
    <2>2. owner[c] \in Tokens /\ ran[c] = 0 /\ \A q \in Threads \ {o} : c \notin todo[q]
        BY <2>1 DEF Taken
    <2>3. c \notin done
        BY <2>2, <1>1, <1>4
    <2> QED BY <2>2, <2>3, <1>1, <1>2, <1>4, Zenon
<1>8. Unregistered'
    BY <1>2, <1>4, CallbacksAreNoLinks, Zenon DEF Unregistered, Taken
<1>9. StaysRegistered' /\ EmptyWhenCancelled' /\ Held'
    BY DEF StaysRegistered, EmptyWhenCancelled, Held
<1>12. CallbackOnce'
    <2> SUFFICES ASSUME NEW c \in Callbacks PROVE ran'[c] <= 1
        BY Zenon DEF CallbackOnce
    <2>1. c \in done => ran[c] = 0
        BY <1>4 DEF Taken
    <2>2. ran[c] \in Nat /\ ran'[c] = (IF c \in done THEN ran[c] + 1 ELSE ran[c])
        BY <1>2, Zenon
    <2>3. ran[c] <= 1
        BY DEF CallbackOnce
    <2> HIDE DEF TypeOK, CallbackInv
    <2> QED BY <2>1, <2>2, <2>3
<1>13. NoneForgotten'
    <2> SUFFICES ASSUME NEW c \in Callbacks, owner[c] \in cancelled
                 PROVE  ran'[c] >= 1 \/ c \in lost' \/ \E o \in Threads : c \in todo'[o]
        BY Zenon DEF NoneForgotten
    <2>1. CASE c \in done
        <3>1. ran[c] \in Nat /\ ran'[c] = ran[c] + 1
            BY <2>1, <1>2, Zenon
        <3>2. ran'[c] >= 1
            BY ONLY <3>1
        <3> QED BY <3>2
    <2>2. CASE c \notin done
        BY <2>2, <1>1, <1>2, <1>4, Zenon DEF NoneForgotten
    <2> QED BY <2>1, <2>2
<1> QED BY <1>6, <1>7, <1>8, <1>9, <1>12, <1>13

\* A step in which no callback runs leaves the counts alone.
LEMMA NothingRan ==
    ASSUME TypeOK, NEW done, done \cap Callbacks = {}
    PROVE  RanAfter(done) = ran
BY DEF TypeOK, RanAfter

\* Registering a callback or a link gives it its first place.
LEMMA AttachKeepsCallbacks ==
    ASSUME TypeOK, CallbackInv, NEW th \in Threads, NEW t \in Tokens, todo[th] = {},
           NEW item \in Items, Attach(th, t, item),
           \/ item \in Links /\ owner' = owner
           \/ item \in Callbacks /\ owner[item] = None /\ owner' = [owner EXCEPT ![item] = t],
           UNCHANGED <<usable, dropped, cancelled, ran, lost>>
    PROVE  /\ Registered' /\ Taken' /\ Unregistered' /\ StaysRegistered' /\ EmptyWhenCancelled'
           /\ CallbackOnce' /\ NoneForgotten'
<1> USE CallbacksAreNoLinks DEF TypeOK, CallbackInv
<1>1. \A c \in Callbacks : owner'[c] = IF c = item THEN t ELSE owner[c]
    OBVIOUS
<1>2. item \in Callbacks => /\ \A u \in Tokens : item \notin callbacks[u]
                            /\ \A o \in Threads : item \notin todo[o]
                            /\ ran[item] = 0
    BY DEF Registered, Taken, Unregistered
<1>3. CASE t \in cancelled
    <2>1. callbacks' = callbacks /\ todo'[th] = {item} /\ \A o \in Threads \ {th} : todo'[o] = todo[o]
        BY <1>3 DEF Attach
    <2>2. Registered'
        BY <2>1, <1>1, <1>2 DEF Registered
    <2>3. Taken'
        BY <2>1, <1>1, <1>2 DEF Taken
    <2>4. Unregistered' /\ StaysRegistered' /\ EmptyWhenCancelled' /\ CallbackOnce'
        BY <2>1, <1>1, <1>3 DEF Unregistered, StaysRegistered, EmptyWhenCancelled, CallbackOnce
    <2>5. NoneForgotten'
        BY <2>1, <1>1 DEF NoneForgotten
    <2> QED BY <2>2, <2>3, <2>4, <2>5
<1>4. CASE t \notin cancelled
    <2>1. /\ todo' = todo /\ callbacks'[t] = callbacks[t] \cup {item}
          /\ \A u \in Tokens \ {t} : callbacks'[u] = callbacks[u]
        BY <1>4 DEF Attach
    <2>2. Registered'
        BY <2>1, <1>1, <1>2 DEF Registered
    <2>3. Taken'
        BY <2>1, <1>1, <1>2 DEF Taken
    <2>4. Unregistered' /\ CallbackOnce'
        BY <2>1, <1>1 DEF Unregistered, CallbackOnce
    <2>5. StaysRegistered' /\ EmptyWhenCancelled'
        BY <2>1, <1>1, <1>4 DEF StaysRegistered, EmptyWhenCancelled
    <2>6. NoneForgotten'
        BY <2>1, <1>1, <1>4 DEF NoneForgotten
    <2> QED BY <2>2, <2>3, <2>4, <2>5, <2>6
<1> QED BY <1>3, <1>4

\* Every step keeps the places of the callbacks.
LEMMA CallbacksKept == TypeOK /\ CallbackInv /\ [Next]_vars => CallbackInv'
<1> SUFFICES ASSUME TypeOK, CallbackInv, [Next]_vars PROVE CallbackInv'
    OBVIOUS
<1> USE LinksJoinTokens, CallbacksAreNoLinks
<1>1. ASSUME NEW th \in Threads, NEW c \in Callbacks, RunCallback(th, c) PROVE CallbackInv'
    <2>1. ran' = RanAfter(todo[th] \ (todo[th] \ {c}))
        BY <1>1, Zenon DEF RunCallback, RanAfter, TypeOK
    <2>2. CASE todo' = [todo EXCEPT ![th] = @ \ {c}] /\ UNCHANGED <<cancelled, callbacks>>
        <3>1. todo' = [todo EXCEPT ![th] = todo[th] \ {c}] /\ todo[th] \ {c} \in SUBSET todo[th]
            BY <2>2 DEF TypeOK
        <3> QED BY <3>1, <2>1, <2>2, <1>1, RunKeepsCallbacks, Zenon DEF RunCallback
    <2>3. CASE \E t \in usable : Fire(th, t, todo[th] \ {c})
        <3>1. PICK t \in usable : Fire(th, t, todo[th] \ {c})
            BY <2>3
        <3>2. t \in Tokens /\ t \notin dropped /\ todo[th] \ {c} \in SUBSET todo[th]
            BY DEF TypeOK, CallbackInv, Held
        <3> QED BY <3>1, <3>2, <2>1, <1>1, FireKeepsCallbacks DEF RunCallback
    <2> QED BY <2>2, <2>3, <1>1, Zenon DEF RunCallback
<1>t. ASSUME NEW th \in Threads, NEW c \in Callbacks, CallbackThrows(th, c) PROVE CallbackInv'
    <2>1. todo'[th] = {} /\ \A o \in Threads \ {th} : todo'[o] = todo[o]
        BY <1>t DEF CallbackThrows, TypeOK
    <2>2. ran'[c] = 1 /\ \A d \in Callbacks \ {c} : ran'[d] = ran[d]
        <3>1. ran[c] = 0 /\ ran'[c] = ran[c] + 1
            BY <1>t DEF CallbackThrows, TypeOK, CallbackInv, Taken
        <3> QED BY <3>1, <1>t DEF CallbackThrows, TypeOK
    <2>3. /\ owner[c] \in Tokens /\ \A t \in Tokens : c \notin callbacks[t]
          /\ \A o \in Threads \ {th} : c \notin todo[o]
        BY <1>t DEF CallbackThrows, CallbackInv, Registered, Taken
    <2>4. Registered' /\ Taken'
        BY <2>1, <2>2, <2>3, <1>t DEF CallbackThrows, CallbackInv, Registered, Taken
    <2>5. Unregistered' /\ StaysRegistered' /\ EmptyWhenCancelled'
        BY <2>2, <2>3, <1>t DEF CallbackThrows, CallbackInv, Unregistered, StaysRegistered,
           EmptyWhenCancelled
    <2>6. Held'
        <3>1. linking'[th].child = None /\ \A o \in Threads \ {th} : linking'[o] = linking[o]
            BY <1>t DEF CallbackThrows, TypeOK
        <3>2. None \notin usable' \cup dropped'
            BY <1>t DEF CallbackThrows, CallbackInv, Held, TypeOK
        <3> QED BY <3>1, <3>2, <1>t DEF CallbackThrows, CallbackInv, Held
    <2>7. CallbackOnce'
        BY <2>2 DEF CallbackInv, CallbackOnce
    <2>8. NoneForgotten'
        BY <2>1, <2>2, <1>t DEF CallbackThrows, CallbackInv, NoneForgotten
    <2> QED BY <2>4, <2>5, <2>6, <2>7, <2>8 DEF CallbackInv
<1>2. ASSUME NEW th \in Threads, NEW l \in Links, RunLink(th, l) PROVE CallbackInv'
    <2>1. l[2] \in Tokens /\ todo[th] \ {l} \in SUBSET todo[th]
        OBVIOUS
    <2>2. ran' = RanAfter(todo[th] \ (todo[th] \ {l}))
        BY <1>2, NothingRan DEF RunLink
    <2>3. CASE l[2] \in dropped
        <3>1. todo' = [todo EXCEPT ![th] = todo[th] \ {l}]
            BY <2>3, <1>2 DEF RunLink, TypeOK
        <3> QED BY <3>1, <2>1, <2>2, <2>3, <1>2, RunKeepsCallbacks, Zenon DEF RunLink
    <2>4. CASE l[2] \notin dropped
        BY <2>1, <2>2, <2>4, <1>2, FireKeepsCallbacks DEF RunLink
    <2> QED BY <2>3, <2>4
<1>3. ASSUME NEW th \in Threads, NEW p \in Tokens, LinkParent(th, p) PROVE CallbackInv'
    <2>1. <<p, linking[th].child>> \in Links
        BY <1>3 DEF LinkParent, TypeOK
    <2>2. /\ Registered' /\ Taken' /\ Unregistered' /\ StaysRegistered' /\ EmptyWhenCancelled'
          /\ CallbackOnce' /\ NoneForgotten'
        BY <2>1, <1>3, AttachKeepsCallbacks DEF LinkParent
    <2>3. \A o \in Threads : linking'[o].child = linking[o].child
        BY <1>3 DEF LinkParent, TypeOK
    <2>4. Held'
        BY <2>3, <1>3 DEF LinkParent, Held, CallbackInv
    <2> QED BY <2>2, <2>4 DEF CallbackInv
<1>4. ASSUME NEW th \in Threads, LinkedReady(th) PROVE CallbackInv'
    <2>1. Held'
        BY <1>4 DEF LinkedReady, Held, CallbackInv, TypeOK
    <2> QED BY <2>1, <1>4 DEF LinkedReady, CallbackInv, Registered, Taken, Unregistered,
               StaysRegistered, EmptyWhenCancelled, CallbackOnce, NoneForgotten
<1>5. ASSUME NEW th \in Threads, NEW t \in Tokens, Cancel(th, t) PROVE CallbackInv'
    <2>1. todo[th] = {} /\ t \notin dropped /\ {} \in SUBSET todo[th]
        BY <1>5 DEF Cancel, Free, CallbackInv, Held
    <2>2. ran' = RanAfter(todo[th] \ {})
        BY <2>1, <1>5, NothingRan DEF Cancel
    <2> QED BY <2>1, <2>2, <1>5, FireKeepsCallbacks DEF Cancel
<1>6. ASSUME NEW th \in Threads, NEW t \in Tokens, CreateLinked(th, t) PROVE CallbackInv'
    <2>1. /\ linking'[th].child = t
          /\ \A o \in Threads \ {th} : linking'[o].child = linking[o].child
        BY <1>6 DEF CreateLinked, TypeOK
    <2>2. Held'
        BY <2>1, <1>6 DEF CreateLinked, Held, CallbackInv
    <2> QED BY <2>2, <1>6 DEF CreateLinked, CallbackInv, Registered, Taken, Unregistered,
               StaysRegistered, EmptyWhenCancelled, CallbackOnce, NoneForgotten
<1>7. ASSUME NEW th \in Threads, NEW t \in Tokens, NEW c \in Callbacks, RegisterCallback(th, t, c)
      PROVE  CallbackInv'
    <2>1. /\ Registered' /\ Taken' /\ Unregistered' /\ StaysRegistered' /\ EmptyWhenCancelled'
          /\ CallbackOnce' /\ NoneForgotten'
        BY <1>7, AttachKeepsCallbacks, Zenon DEF RegisterCallback, Free
    <2>2. Held'
        BY <1>7 DEF RegisterCallback, Held, CallbackInv
    <2> QED BY <2>1, <2>2 DEF CallbackInv
<1>8. ASSUME NEW t \in Tokens, Drop(t) PROVE CallbackInv'
    <2>1. callbacks'[t] = {} /\ \A u \in Tokens \ {t} : callbacks'[u] = callbacks[u]
        BY <1>8 DEF Drop, TypeOK
    <2>2. Registered' /\ StaysRegistered' /\ EmptyWhenCancelled'
        BY <2>1, <1>8 DEF Drop, CallbackInv, Registered, StaysRegistered, EmptyWhenCancelled, TypeOK
    <2>3. Held'
        BY <1>8 DEF Drop, CallbackInv, Held
    <2> QED BY <2>2, <2>3, <1>8 DEF Drop, CallbackInv, Taken, Unregistered, CallbackOnce, NoneForgotten
<1>9. CASE UNCHANGED vars
    BY <1>9 DEF vars, CallbackInv, Registered, Taken, Unregistered, StaysRegistered,
       EmptyWhenCancelled, Held, CallbackOnce, NoneForgotten
<1> QED BY <1>1, <1>t, <1>2, <1>3, <1>4, <1>5, <1>6, <1>7, <1>8, <1>9 DEF Next, Proceed

\* A link keeps its place when a token is cancelled, unless it is the one that just ran.
LEMMA FireKeepsLink ==
    ASSUME TypeOK, NEW th \in Threads, NEW t \in Tokens, t \notin dropped,
           NEW rest \in SUBSET todo[th], Fire(th, t, rest), dropped' = dropped, lost' = lost,
           NEW l \in Links, LinkPlace(l), l \in rest \/ l \notin todo[th] \/ l[2] = t
    PROVE  LinkPlace(l)'
<1> USE LinksJoinTokens DEF TypeOK
<1>1. l[1] \in Tokens /\ l[2] \in Tokens
    OBVIOUS
<1>2. cancelled' = cancelled \cup {t} /\ \A o \in Threads \ {th} : todo'[o] = todo[o]
    BY DEF Fire
<1>3. CASE t \in cancelled
    <2>1. callbacks' = callbacks /\ todo'[th] = rest
        BY <1>3 DEF Fire
    <2> QED BY <1>1, <1>2, <1>3, <2>1 DEF LinkPlace
<1>4. CASE t \notin cancelled
    <2>1. todo'[th] = rest \cup callbacks[t] /\ \A u \in Tokens \ {t} : callbacks'[u] = callbacks[u]
        BY <1>4 DEF Fire
    <2> QED BY <1>1, <1>2, <1>4, <2>1, Zenon DEF LinkPlace
<1> QED BY <1>3, <1>4

\* Registering one thing moves no link.
LEMMA AttachKeepsLink ==
    ASSUME TypeOK, NEW th \in Threads, NEW t \in Tokens, todo[th] = {}, NEW item \in Items,
           Attach(th, t, item), UNCHANGED <<dropped, cancelled, lost>>,
           NEW l \in Links, LinkPlace(l)
    PROVE  LinkPlace(l)'
<1> USE LinksJoinTokens DEF TypeOK
<1>1. l[1] \in Tokens /\ l[2] \in Tokens
    OBVIOUS
<1>2. CASE t \in cancelled
    BY <1>1, <1>2 DEF Attach, LinkPlace
<1>3. CASE t \notin cancelled
    <2>1. todo' = todo /\ \A u \in Tokens : callbacks[u] \subseteq callbacks'[u]
        BY <1>3 DEF Attach
    <2> QED BY <1>1, <2>1 DEF LinkPlace
<1> QED BY <1>2, <1>3

\* Every step keeps the places of the links.
LEMMA LinksKept == TypeOK /\ CallbackInv /\ LinkInv /\ [Next]_vars => LinkInv'
<1> SUFFICES ASSUME TypeOK, CallbackInv, LinkInv, [Next]_vars, NEW l \in Links, Attached(l)'
             PROVE  LinkPlace(l)'
    BY DEF LinkInv
<1> USE LinksJoinTokens, CallbacksAreNoLinks
<1>l. l[1] \in Tokens /\ l[2] \in Tokens /\ l \notin Callbacks /\ l = <<l[1], l[2]>>
    OBVIOUS
<1>p. Attached(l) => LinkPlace(l)
    BY DEF LinkInv
<1>s. UNCHANGED <<usable, dropped, linking>> => Attached(l)
    BY DEF Attached
<1>1. ASSUME NEW th \in Threads, NEW c \in Callbacks, RunCallback(th, c) PROVE LinkPlace(l)'
    <2>1. LinkPlace(l)
        BY <1>p, <1>s, <1>1 DEF RunCallback
    <2>2. CASE todo' = [todo EXCEPT ![th] = @ \ {c}] /\ UNCHANGED <<cancelled, callbacks>>
        BY <2>1, <2>2, <1>1, <1>l DEF RunCallback, LinkPlace, TypeOK
    <2>3. CASE \E t \in usable : Fire(th, t, todo[th] \ {c})
        <3>1. PICK t \in usable : Fire(th, t, todo[th] \ {c})
            BY <2>3
        <3>2. /\ t \in Tokens /\ t \notin dropped
              /\ todo[th] \ {c} \in SUBSET todo[th]
              /\ l \in todo[th] \ {c} \/ l \notin todo[th]
            BY <1>l DEF TypeOK, CallbackInv, Held
        <3> QED BY <2>1, <3>1, <3>2, <1>1, FireKeepsLink DEF RunCallback
    <2> QED BY <2>2, <2>3, <1>1, Zenon DEF RunCallback
<1>t. ASSUME NEW th \in Threads, NEW c \in Callbacks, CallbackThrows(th, c) PROVE LinkPlace(l)'
    <2>1. todo'[th] = {} /\ \A o \in Threads \ {th} : todo'[o] = todo[o]
        BY <1>t DEF CallbackThrows, TypeOK
    <2>2. linking'[th].child = None /\ \A o \in Threads \ {th} : linking'[o] = linking[o]
        BY <1>t DEF CallbackThrows, TypeOK
    <2>3. Attached(l)
        BY <2>2, <1>l, <1>t DEF CallbackThrows, Attached
    <2> QED BY <2>1, <2>3, <1>p, <1>l, <1>t DEF CallbackThrows, LinkPlace
<1>2. ASSUME NEW th \in Threads, NEW k \in Links, RunLink(th, k) PROVE LinkPlace(l)'
    <2>1. LinkPlace(l)
        BY <1>p, <1>s, <1>2 DEF RunLink
    <2>2. CASE k[2] \in dropped
        BY <2>1, <2>2, <1>2, <1>l DEF RunLink, LinkPlace, TypeOK
    <2>3. CASE k[2] \notin dropped
        <3>1. /\ k[2] \in Tokens
              /\ todo[th] \ {k} \in SUBSET todo[th]
              /\ l \in todo[th] \ {k} \/ l \notin todo[th] \/ l[2] = k[2]
            OBVIOUS
        <3> QED BY <2>1, <2>3, <3>1, <1>2, FireKeepsLink DEF RunLink
    <2> QED BY <2>2, <2>3
<1>3. ASSUME NEW th \in Threads, NEW p \in Tokens, LinkParent(th, p) PROVE LinkPlace(l)'
    <2> DEFINE item == <<p, linking[th].child>>
    <2>1. item \in Links
        BY <1>3 DEF LinkParent, TypeOK
    <2>2. CASE l = item
        <3>1. CASE p \in cancelled
            BY <2>2, <3>1, <1>3 DEF LinkParent, Attach, LinkPlace, TypeOK
        <3>2. CASE p \notin cancelled
            BY <2>2, <3>2, <1>3 DEF LinkParent, Attach, LinkPlace, TypeOK
        <3> QED BY <3>1, <3>2
    <2>3. CASE l # item
        <3>1. /\ linking'[th].child = linking[th].child
              /\ linking'[th].parents = linking[th].parents \ {p}
              /\ \A o \in Threads \ {th} : linking'[o] = linking[o]
            BY <1>3 DEF LinkParent, TypeOK
        <3>2. l[2] = linking[th].child => l[1] # p
            BY <2>3, <1>l
        <3>3. Attached(l)
            BY <3>1, <3>2, <1>3 DEF LinkParent, Attached
        <3> QED BY <3>3, <1>p, <2>1, <1>3, AttachKeepsLink DEF LinkParent
    <2> QED BY <2>2, <2>3
<1>4. ASSUME NEW th \in Threads, LinkedReady(th) PROVE LinkPlace(l)'
    <2>1. linking'[th].child = None /\ \A o \in Threads \ {th} : linking'[o] = linking[o]
        BY <1>4 DEF LinkedReady, TypeOK
    <2>2. Attached(l)
        BY <2>1, <1>4, <1>l DEF LinkedReady, Attached
    <2> QED BY <2>2, <1>p, <1>4 DEF LinkedReady, LinkPlace
<1>5. ASSUME NEW th \in Threads, NEW t \in Tokens, Cancel(th, t) PROVE LinkPlace(l)'
    <2>1. LinkPlace(l)
        BY <1>p, <1>s, <1>5 DEF Cancel
    <2>2. todo[th] = {} /\ t \notin dropped /\ {} \in SUBSET todo[th]
        BY <1>5 DEF Cancel, Free, CallbackInv, Held
    <2> QED BY <2>1, <2>2, <1>5, FireKeepsLink DEF Cancel
<1>6. ASSUME NEW th \in Threads, NEW t \in Tokens, CreateLinked(th, t) PROVE LinkPlace(l)'
    <2>1. /\ linking'[th] = [child |-> t, parents |-> Parents(t)]
          /\ \A o \in Threads \ {th} : linking'[o] = linking[o]
        BY <1>6 DEF CreateLinked, TypeOK
    <2>2. l[2] = t => l[1] \in linking'[th].parents
        BY <2>1, <1>l
    <2>3. Attached(l)
        BY <2>1, <2>2, <1>6 DEF CreateLinked, Attached
    <2> QED BY <2>3, <1>p, <1>6 DEF CreateLinked, LinkPlace
<1>7. ASSUME NEW th \in Threads, NEW t \in Tokens, NEW c \in Callbacks, RegisterCallback(th, t, c)
      PROVE  LinkPlace(l)'
    <2>1. LinkPlace(l)
        BY <1>p, <1>s, <1>7 DEF RegisterCallback
    <2> QED BY <2>1, <1>7, AttachKeepsLink DEF RegisterCallback, Free
<1>8. ASSUME NEW t \in Tokens, Drop(t) PROVE LinkPlace(l)'
    <2>1. Attached(l)
        BY <1>8 DEF Drop, Attached
    <2>2. \A u \in Tokens \ {t} : callbacks'[u] = callbacks[u]
        BY <1>8 DEF Drop, TypeOK
    <2> QED BY <2>1, <2>2, <1>p, <1>8, <1>l DEF Drop, LinkPlace
<1>9. CASE UNCHANGED vars
    BY <1>9, <1>p, <1>s DEF vars, LinkPlace
<1> QED BY <1>1, <1>t, <1>2, <1>3, <1>4, <1>5, <1>6, <1>7, <1>8, <1>9 DEF Next, Proceed

\* At first nobody holds a token and nothing is registered.
LEMMA InitHolds == Init => IInv
<1> SUFFICES ASSUME Init PROVE IInv
    OBVIOUS
<1> USE LinksJoinTokens, CallbacksAreNoLinks DEF Init
<1>1. TypeOK
    BY DEF TypeOK
<1>2. CallbackInv
    BY DEF CallbackInv, Registered, Taken, Unregistered, StaysRegistered, EmptyWhenCancelled, Held,
       CallbackOnce, NoneForgotten
<1>3. LinkInv
    BY DEF LinkInv, Attached, LinkPlace
<1> QED BY <1>1, <1>2, <1>3 DEF IInv

\* The invariant holds in every state of every behaviour.
LEMMA Inductive == Spec => []IInv
<1>1. IInv /\ [Next]_vars => IInv'
    BY TypeCorrect, CallbacksKept, LinksKept DEF IInv
<1> QED BY <1>1, InitHolds, PTL DEF Spec

\* cancel(), register_callback and linked tokens never run a callback twice.
THEOREM EveryCallbackOnce == Spec => []CallbackOnce
<1>1. IInv => CallbackOnce
    BY DEF IInv, CallbackInv
<1> QED BY <1>1, Inductive, PTL

\* A callback of a cancelled token ran, or a thread holds it.
THEOREM NoCallbackForgotten == Spec => []NoneForgotten
<1>1. IInv => NoneForgotten
    BY DEF IInv, CallbackInv
<1> QED BY <1>1, Inductive, PTL

\* The cancellation of a parent reaches its linked tokens, or is on its way in a thread.
THEOREM CancellationReachesChildren == Spec => []LinkNotLost
<1>1. IInv => LinkNotLost
    BY LinksJoinTokens DEF IInv, CallbackInv, Held, LinkInv, LinkPlace, Attached, LinkNotLost
<1> QED BY <1>1, Inductive, PTL
================================================================================
