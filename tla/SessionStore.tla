---------------------------- MODULE SessionStore ----------------------------
(***************************************************************************)
(* HttpSessionStore and HttpSession of QtWebApp.  Sessions are found by    *)
(* the id in a cookie, handed out as HttpSession objects that share the    *)
(* data of the session by a reference count, and dropped by a timer when   *)
(* nobody has asked for them for a while.  The store has a mutex; the data *)
(* of a session has a lock of its own, and the time of its last access is  *)
(* set without the mutex.                                                  *)
(*                                                                         *)
(* Time is kept as the age of the last access.  Sections under the mutex   *)
(* that touch nothing another thread can touch without it are one step;    *)
(* the section of the timer is not one of these.                           *)
(***************************************************************************)
EXTENDS Integers, FiniteSets

CONSTANTS
    Server,         \* the threads that serve requests of the browser
    Session,        \* the ids of sessions, and their data
    ExpirationTime, \* the setting, in ticks of the clock
    MaxTicks,       \* bound: ticks during one run of the timer's slot
    Nobody          \* the null session, the absent cookie

ASSUME SessionAssumption ==
    /\ Nobody \notin Session
    /\ ExpirationTime \in Nat /\ MaxTicks \in Nat

ASSUME ServerAssumption == IsFiniteSet(Server)

VARIABLES
    refCount,       \* HttpSessionData::refCount
    age,            \* now - HttpSessionData::lastAccess
    alive,          \* the data that has not been deleted
    sessions,       \* HttpSessionStore::sessions, by id
    thread,         \* what each thread is at
    browser,        \* the cookie of the browser
    timer           \* the slot sessionTimerEvent, which holds the mutex while it runs

sessVars == <<refCount, age, alive, sessions, thread, browser, timer>>

MaxAge == ExpirationTime + MaxTicks + 1
Older(a) == IF a < MaxAge THEN a + 1 ELSE a
NoTimer == [at |-> "idle", todo |-> {}, session |-> Nobody, since |-> 0]
Idle == [at |-> "idle", cookie |-> Nobody, set |-> FALSE, id |-> Nobody,
         held |-> Nobody, temp |-> Nobody]

SessInit ==
    /\ refCount = [s \in Session |-> 0]
    /\ age = [s \in Session |-> 0]
    /\ alive = {}
    /\ sessions = {}
    /\ thread = [t \in Server |-> Idle]
    /\ browser = Nobody
    /\ timer = NoTimer

MutexFree == timer.at = "idle"
Doing(t, place) == thread[t].at = place

\* An HttpSession object is attached to the data of s: it is counted.
Attach(s) ==
    /\ refCount' = IF s = Nobody THEN refCount ELSE [refCount EXCEPT ![s] = @ + 1]
    /\ UNCHANGED alive

\* An object is destroyed or attached to other data; the last one deletes the data.
Detach(s) ==
    /\ refCount' = IF s = Nobody THEN refCount ELSE [refCount EXCEPT ![s] = @ - 1]
    /\ alive' = IF s # Nobody /\ refCount[s] = 1 THEN alive \ {s} ELSE alive

Touched(s) == IF s = Nobody THEN age ELSE [age EXCEPT ![s] = 0]

-----------------------------------------------------------------------------
(* A thread serves a request: the application asks for the session, uses   *)
(* it, and may remove it.                                                  *)

Serve(t) ==
    /\ Doing(t, "idle")
    /\ thread' = [thread EXCEPT ![t] = [Idle EXCEPT !.at = "service", !.cookie = browser]]
    /\ UNCHANGED <<refCount, age, alive, sessions, browser, timer>>

\* getSession(request, response, allowCreate) begins with getSessionId: the
\* cookie of the response, if one is set, counts more than that of the request.
GetSession(t) ==
    /\ Doing(t, "service") /\ MutexFree
    /\ thread' = [thread EXCEPT ![t].at = "lookup",
                                ![t].id = IF thread[t].cookie \in sessions THEN thread[t].cookie ELSE Nobody]
    /\ UNCHANGED <<refCount, age, alive, sessions, browser, timer>>

\* The mutex was free in between: the session may have gone.
Found(t) ==
    /\ Doing(t, "lookup") /\ MutexFree
    /\ thread[t].id \in sessions
    /\ Attach(thread[t].id)
    /\ thread' = [thread EXCEPT ![t].at = "refresh", ![t].temp = thread[t].id,
                                ![t].id = Nobody]
    /\ UNCHANGED <<age, sessions, browser, timer>>

\* Ids are unique: no cookie under way has that of a new session.
Fresh(s) ==
    /\ s \notin alive /\ s # browser
    /\ \A t \in Server : s \notin {thread[t].cookie, thread[t].id}

\* allowCreate is what the application says.
\* The new session is counted for the local object and for the entry of the map.
CreateSession(t) ==
    /\ Doing(t, "lookup") /\ MutexFree
    /\ thread[t].id \notin sessions
    /\ \E s \in Session :
        /\ Fresh(s)
        /\ refCount' = [refCount EXCEPT ![s] = 2]
        /\ age' = [age EXCEPT ![s] = 0]
        /\ alive' = alive \cup {s}
        /\ sessions' = sessions \cup {s}
        /\ thread' = [thread EXCEPT ![t].at = "assign", ![t].temp = s, ![t].cookie = s, ![t].set = TRUE,
                                    ![t].id = Nobody]
    /\ UNCHANGED <<browser, timer>>

NullSession(t) ==
    /\ Doing(t, "lookup") /\ MutexFree
    /\ thread[t].id \notin sessions
    /\ thread' = [thread EXCEPT ![t].at = "assign", ![t].id = Nobody]
    /\ UNCHANGED <<refCount, age, alive, sessions, browser, timer>>

\* The cookie is renewed, and the time of access set, after the mutex is released.
Refresh(t) ==
    /\ Doing(t, "refresh")
    /\ age' = Touched(thread[t].temp)
    /\ thread' = [thread EXCEPT ![t].at = "assign", ![t].cookie = thread[t].temp, ![t].set = TRUE]
    /\ UNCHANGED <<refCount, alive, sessions, browser, timer>>

\* getSession(id), with the id of the cookie.
GetSessionById(t) ==
    /\ Doing(t, "service") /\ MutexFree
    /\ LET s == IF thread[t].cookie \in sessions THEN thread[t].cookie ELSE Nobody
       IN  /\ Attach(s)
           /\ thread' = [thread EXCEPT ![t].at = "touch", ![t].temp = s]
    /\ UNCHANGED <<age, sessions, browser, timer>>

Touch(t) ==
    /\ Doing(t, "touch")
    /\ age' = Touched(thread[t].temp)
    /\ thread' = [thread EXCEPT ![t].at = "assign"]
    /\ UNCHANGED <<refCount, alive, sessions, browser, timer>>

\* Mutant: nothing is attached yet when the old session is the new one.
AssignSame(t) ==
    /\ Doing(t, "assign")
    /\ IF thread[t].temp = thread[t].held THEN UNCHANGED <<refCount, alive>> ELSE Attach(thread[t].temp)
    /\ age' = Touched(thread[t].temp)
    /\ thread' = [thread EXCEPT ![t].at = "detach", ![t].held = thread[t].temp, ![t].id = thread[t].held]
    /\ UNCHANGED <<sessions, browser, timer>>

\* operator= attaches the variable of the application to the session it was given ...
Assign(t) ==
    /\ Doing(t, "assign")
    /\ Attach(thread[t].temp)
    /\ age' = Touched(thread[t].temp)
    /\ thread' = [thread EXCEPT ![t].at = "detach", ![t].held = thread[t].temp, ![t].id = thread[t].held]
    /\ UNCHANGED <<sessions, browser, timer>>

\* ... and detaches it from the old one.
DetachOld(t) ==
    /\ Doing(t, "detach")
    /\ Detach(thread[t].id)
    /\ thread' = [thread EXCEPT ![t].at = "destroy", ![t].id = Nobody]
    /\ UNCHANGED <<age, sessions, browser, timer>>

\* The temporary object goes.
Destroy(t) ==
    /\ Doing(t, "destroy")
    /\ Detach(thread[t].temp)
    /\ thread' = [thread EXCEPT ![t].at = "service", ![t].temp = Nobody]
    /\ UNCHANGED <<age, sessions, browser, timer>>

\* removeSession takes a copy of the session ...
RemoveSession(t) ==
    /\ Doing(t, "service")
    /\ Attach(thread[t].held)
    /\ thread' = [thread EXCEPT ![t].at = "remove", ![t].temp = thread[t].held]
    /\ UNCHANGED <<age, sessions, browser, timer>>

\* ... and removes the entry, unless there is none any more.
RemoveEntry(t) ==
    /\ Doing(t, "remove") /\ MutexFree
    /\ Detach(IF thread[t].temp \in sessions THEN thread[t].temp ELSE Nobody)
    /\ sessions' = sessions \ {thread[t].temp}
    /\ thread' = [thread EXCEPT ![t].at = "destroy"]
    /\ UNCHANGED <<age, browser, timer>>

\* The answer leaves with its cookie, and the application's variable goes.
Answer(t) ==
    /\ Doing(t, "service")
    /\ Detach(thread[t].held)
    /\ thread' = [thread EXCEPT ![t] = Idle]
    /\ browser' = IF thread[t].set THEN thread[t].cookie ELSE browser
    /\ UNCHANGED <<age, sessions, timer>>

-----------------------------------------------------------------------------
(* sessionTimerEvent                                                       *)

TimerStart ==
    /\ timer.at = "idle"
    /\ timer' = [at |-> "loop", todo |-> sessions, session |-> Nobody, since |-> 0]
    /\ UNCHANGED <<refCount, age, alive, sessions, thread, browser>>

\* A copy of the next entry is made; the map is ordered by random ids.
TimerCopy ==
    /\ timer.at = "loop"
    /\ \E s \in timer.todo :
        /\ Attach(s)
        /\ timer' = [timer EXCEPT !.at = "test", !.session = s, !.todo = @ \ {s}]
    /\ UNCHANGED <<age, sessions, thread, browser>>

\* now was taken when the slot began, timer.since ticks ago.
Expired(s) == age[s] - timer.since > ExpirationTime

\* The time of the last access is read; the session may be used right after.
TimerTest ==
    /\ timer.at = "test"
    /\ timer' = [timer EXCEPT !.at = IF Expired(timer.session) THEN "erase" ELSE "next"]
    /\ UNCHANGED <<refCount, age, alive, sessions, thread, browser>>

TimerErase ==
    /\ timer.at = "erase"
    /\ Detach(timer.session)
    /\ sessions' = sessions \ {timer.session}
    /\ timer' = [timer EXCEPT !.at = "next"]
    /\ UNCHANGED <<age, thread, browser>>

TimerNext ==
    /\ timer.at = "next"
    /\ Detach(timer.session)
    /\ timer' = [timer EXCEPT !.at = "loop", !.session = Nobody]
    /\ UNCHANGED <<age, sessions, thread, browser>>

TimerDone ==
    /\ timer.at = "loop" /\ timer.todo = {}
    /\ timer' = NoTimer
    /\ UNCHANGED <<refCount, age, alive, sessions, thread, browser>>

\* The clock; ages beyond MaxAge make no difference.
Tick ==
    /\ timer.at # "idle" => timer.since < MaxTicks
    /\ age' = [s \in Session |-> IF s \in alive THEN Older(age[s]) ELSE 0]
    /\ timer' = IF timer.at = "idle" THEN timer ELSE [timer EXCEPT !.since = @ + 1]
    /\ UNCHANGED <<refCount, alive, sessions, thread, browser>>

-----------------------------------------------------------------------------
ThreadStep(t) ==
    \/ Found(t) \/ CreateSession(t) \/ NullSession(t) \/ Refresh(t)
    \/ Touch(t) \/ Assign(t) \/ DetachOld(t) \/ Destroy(t) \/ RemoveEntry(t)

AppCall(t) ==
    GetSession(t) \/ GetSessionById(t) \/ RemoveSession(t)

TimerStep == TimerCopy \/ TimerTest \/ TimerErase \/ TimerNext \/ TimerDone

SessNext ==
    \/ \E t \in Server : Serve(t) \/ ThreadStep(t) \/ AppCall(t) \/ Answer(t)
    \/ TimerStart \/ TimerStep
    \/ Tick

SessSpec == SessInit /\ [][SessNext]_sessVars

-----------------------------------------------------------------------------
(* Properties                                                              *)

SessTypeOK ==
    /\ refCount \in [Session -> Nat]
    /\ age \in [Session -> 0..MaxAge]
    /\ alive \subseteq Session /\ sessions \subseteq alive
    /\ browser \in Session \cup {Nobody}
    /\ timer.session \in alive \cup {Nobody}

\* The objects that are attached to the data of s: the entry of the map, the
\* objects of the threads and the copy of the timer.
References(s) ==
    (IF s \in sessions THEN 1 ELSE 0) + (IF timer.session = s THEN 1 ELSE 0)
    + Cardinality({t \in Server : thread[t].held = s})
    + Cardinality({t \in Server : thread[t].temp = s})
    + Cardinality({t \in Server : Doing(t, "detach") /\ thread[t].id = s})

\* The data of a session lives exactly as long as somebody refers to it, though
\* the application, the timer and a removal let go of it in any order.
DataLivesWhileReferenced ==
    \A s \in Session :
        /\ refCount[s] = References(s)
        /\ s \in alive <=> References(s) > 0

\* What it rests on: where the threads and the timer hold on to a session.
ThreadPlaces ==
    /\ thread \in [Server -> [at : {"idle", "service", "lookup", "refresh", "touch", "assign",
                                    "detach", "destroy", "remove"},
                              cookie : Session \cup {Nobody}, set : BOOLEAN,
                              id : Session \cup {Nobody}, held : Session \cup {Nobody},
                              temp : Session \cup {Nobody}]]
    /\ \A t \in Server :
        /\ thread[t].at \in {"idle", "service", "lookup"} => thread[t].temp = Nobody
        /\ thread[t].at = "idle" => thread[t].held = Nobody

\* While the timer has the mutex, what it has still to visit stays in the map,
\* and so does the session it is about to erase.
TimerPlaces ==
    /\ timer \in [at : {"idle", "loop", "test", "erase", "next"}, todo : SUBSET Session,
                  session : Session \cup {Nobody}, since : 0..MaxTicks]
    /\ timer.at \in {"idle", "loop"} => timer.session = Nobody
    /\ timer.at # "idle" => timer.todo \subseteq sessions /\ timer.session \notin timer.todo
    /\ timer.at \in {"test", "erase"} => timer.session \in sessions

SessInv == SessTypeOK /\ ThreadPlaces /\ TimerPlaces /\ DataLivesWhileReferenced
=============================================================================
