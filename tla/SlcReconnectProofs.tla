------------------------- MODULE SlcReconnectProofs -------------------------
(* For any number of phones and any configuration: LinksDistinct, LinkFound, *)
(* SearchGoesOn, TypeOK, ListedTrue, ConnectedTrue and Reachable.  For the   *)
(* first, the inductive invariant adds what a link may be, and that the idle *)
(* links are those without an address; for the second, that BlueStack's      *)
(* stream with a phone, what is queued about it and the state of the phone's *)
(* link agree; for the third, that every result announced to the application *)
(* is still to come; for TypeOK, that a phone that asks for a stream is      *)
(* queued once or held, not both; for the last three, that the slots listed, *)
(* once the application has heard what is queued, come between the links     *)
(* that are complete and those that are to last.                             *)
EXTENDS Integers, SlcReconnect, InductionOverData, SequenceTheorems, FiniteSetTheorems, TLAPS

State == {"idle", "complete"} \cup Active

LinkRecord ==
    [state : State, addr : Phone \cup {NULL}, priority : 0..2, owns_service : BOOLEAN]

\* The links ls as the library keeps them.
LinksOf(n, ls) ==
    /\ ls \in [1..n -> LinkRecord]
    /\ \A l \in 1..n : ls[l].state = "idle" <=> ls[l].priority = 0
    /\ \A l \in 1..n : ls[l].state = "idle" <=> ls[l].addr = NULL
    /\ \A l, k \in 1..n : l # k /\ ls[l].state # "idle" =>
         ls[l].addr # ls[k].addr /\ ls[l].priority # ls[k].priority
    /\ \A l \in 1..n : ls[l].priority = 2 => \E k \in 1..n : ls[k].priority = 1

LinksInv == conf \in Configuration /\ LinksOf(NumLinks, links)

-----------------------------------------------------------------------------
\* The library has one link or two.
LEMMA OneOrTwo == NumLinks \in {1, 2}
  BY DEF NumLinks

\* A link given up leaves the others distinct: what was secondary becomes primary.
LEMMA ResetKeeps ==
    ASSUME NEW n \in {1, 2}, NEW ls, LinksOf(n, ls), NEW l \in 1..n
    PROVE  /\ LinksOf(n, Reset(ls, l))
           /\ Reset(ls, l)[l].state = "idle"
           /\ \A k \in 1..n : Reset(ls, l)[k].addr \in {ls[k].addr, NULL}
           /\ Reset(ls, l)[l].addr = NULL
           /\ \A k \in 1..n : k # l => Reset(ls, l)[k].state = ls[k].state
                                     /\ Reset(ls, l)[k].addr = ls[k].addr
  <1> DEFINE rs == Reset(ls, l)
  <1>1. DOMAIN ls = 1..n /\ \A k \in 1..n : ls[k] \in LinkRecord
    BY DEF LinksOf
  <1>2. \A k \in 1..n : rs[k] = IF k = l THEN IdleLink
                               ELSE IF ls[k].priority = 2 THEN [ls[k] EXCEPT !.priority = 1]
                               ELSE ls[k]
    BY <1>1 DEF Reset
  <1> HIDE DEF rs
  <1>3. ASSUME NEW k \in 1..n, k # l
        PROVE  /\ rs[k].state = ls[k].state /\ rs[k].addr = ls[k].addr
               /\ rs[k].priority = IF ls[k].priority = 2 THEN 1 ELSE ls[k].priority
               /\ rs[k] \in LinkRecord
    <2>1. CASE ls[k].priority = 2
      <3>1. rs[k] = [ls[k] EXCEPT !.priority = 1]
        BY <1>2, <1>3, <2>1
      <3>2. 1 \in 0..2 /\ ls[k] \in LinkRecord
        BY <1>1
      <3> QED
        BY <2>1, <3>1, <3>2 DEF LinkRecord
    <2>2. CASE ls[k].priority # 2
      BY <1>1, <1>2, <1>3, <2>2
    <2> QED
      BY <2>1, <2>2
  <1>4. rs[l] = IdleLink
    BY <1>2
  <1>5. IdleLink \in LinkRecord
    BY DEF IdleLink, LinkRecord, State
  <1>6. rs[l].state = "idle" /\ rs[l].addr = NULL /\ rs[l].priority = 0
    BY <1>4 DEF IdleLink
  <1>7. \A k \in 1..n : rs[k] \in LinkRecord
    BY <1>3, <1>4, <1>5
  <1>8. rs \in [1..n -> LinkRecord]
    <2>1. rs = [k \in 1..n |-> rs[k]]
      BY <1>1 DEF rs, Reset
    <2> QED
      BY <1>7, <2>1
  <1>9. LinksOf(n, rs)
    BY <1>3, <1>6, <1>8 DEF LinksOf
  <1>10. \A k \in 1..n : rs[k].addr \in {ls[k].addr, NULL}
    BY <1>3, <1>6
  <1> QED
    BY <1>3, <1>6, <1>9, <1>10 DEF rs

\* A link set up for a phone that has none: primary if there is no primary link.
LEMMA SetupKeeps ==
    ASSUME NEW n \in {1, 2}, NEW ls, LinksOf(n, ls), NEW l \in 1..n,
           ls[l].state = "idle", NEW a \in Phone, \A k \in 1..n : ls[k].addr # a,
           NEW s \in Active
    PROVE  LinksOf(n, Setup(ls, l, a, s))
  <1> DEFINE rs == Setup(ls, l, a, s)
             p == IF LinkWith(ls, 1) # 0 THEN 2 ELSE 1
  <1>1. DOMAIN ls = 1..n /\ \A k \in 1..n : ls[k] \in LinkRecord
    BY DEF LinksOf
  <1>2. ls[l].priority = 0
    BY DEF LinksOf
  <1>3. rs[l] = [state |-> s, addr |-> a, owns_service |-> s = "incoming", priority |-> p]
    BY <1>1, <1>2 DEF Setup
  <1>4. \A k \in 1..n : k # l => rs[k] = ls[k]
    BY <1>1 DEF Setup
  <1>5. rs \in [1..n -> LinkRecord]
    <2>1. rs[l] \in LinkRecord
      <3>1. p \in 0..2 /\ (s = "incoming") \in BOOLEAN /\ s \in State
        BY DEF State
      <3> HIDE DEF p
      <3> QED
        BY <1>3, <3>1 DEF LinkRecord
    <2>2. \A k \in 1..n : rs[k] \in LinkRecord
      BY <1>1, <1>4, <2>1
    <2>3. rs = [k \in 1..n |-> rs[k]]
      BY <1>1 DEF Setup
    <2> QED
      BY <2>2, <2>3
  <1>6. /\ LinkWith(ls, 1) # 0 => \E k \in 1..n : ls[k].priority = 1
        /\ LinkWith(ls, 1) = 0 => \A k \in 1..n : ls[k].priority # 1
    BY <1>1 DEF LinkWith
  <1>7. \A k \in 1..n : k # l => ls[k].priority # p
    BY <1>1, <1>2, <1>6 DEF LinksOf
  <1>8. p = 2 => \E k \in 1..n : k # l /\ rs[k].priority = 1
    BY <1>2, <1>4, <1>6
  <1>9. s # "idle" /\ a # NULL
    BY PhoneAssumption DEF Active
  <1> QED
    BY <1>3, <1>4, <1>5, <1>7, <1>8, <1>9 DEF LinksOf

\* An attempt that goes on changes no more than its state.
LEMMA MovesKeeps ==
    ASSUME NEW n \in {1, 2}, NEW ls, LinksOf(n, ls), NEW l \in 1..n,
           ls[l].state # "idle", NEW s \in State, s # "idle"
    PROVE  LinksOf(n, [ls EXCEPT ![l].state = s])
  <1> DEFINE rs == [ls EXCEPT ![l].state = s]
  <1>1. DOMAIN ls = 1..n /\ \A k \in 1..n : ls[k] \in LinkRecord
    BY DEF LinksOf
  <1>2. \A k \in 1..n : /\ rs[k].addr = ls[k].addr /\ rs[k].priority = ls[k].priority
                        /\ rs[k].state = IF k = l THEN s ELSE ls[k].state
                        /\ rs[k] \in LinkRecord
    BY <1>1 DEF LinkRecord
  <1>3. rs \in [1..n -> LinkRecord]
    BY <1>1, <1>2
  <1> QED
    BY <1>2, <1>3 DEF LinksOf

\* hfpGetLinkFromBdaddr returns the link of the phone, or none.
LEMMA LinkOfPhone ==
    ASSUME LinksOf(NumLinks, links), NEW a
    PROVE  /\ LinkOf(a) # 0 => LinkOf(a) \in 1..NumLinks /\ links[LinkOf(a)].addr = a
           /\ LinkOf(a) = 0 => \A k \in 1..NumLinks : links[k].addr # a
  BY OneOrTwo DEF LinksOf, LinkOf

\* hfpGetIdleLink returns an idle link, or none.
LEMMA IdleOneIdle ==
    ASSUME LinksOf(NumLinks, links), IdleOne # 0
    PROVE  IdleOne \in 1..NumLinks /\ links[IdleOne].state = "idle"
  <1>1. DOMAIN links = 1..NumLinks
    BY DEF LinksOf
  <1>2. PICK l \in 1..NumLinks : links[l].state = "idle"
    BY <1>1 DEF IdleOne
  <1>3. \E j \in 1..NumLinks : links[j].state = "idle"
                              /\ \A k \in 1..(j - 1) : links[k].state # "idle"
    BY <1>2, OneOrTwo
  <1> QED
    BY <1>1, <1>2, <1>3 DEF IdleOne

-----------------------------------------------------------------------------
\* A request for a phone sets up a link or leaves the links alone.
LEMMA RequestKeeps ==
    ASSUME LinksInv, NEW a \in Phone, NEW rest, HfpSlcConnectRequest(a, rest)
    PROVE  LinksOf(NumLinks, links')
  <1>1. CASE LinkOf(a) # 0 \/ IdleOne = 0
    BY <1>1 DEF HfpSlcConnectRequest, LinksInv
  <1>2. CASE LinkOf(a) = 0 /\ IdleOne # 0
    <2>1. links' = Setup(links, IdleOne, a, "searching")
      BY <1>2 DEF HfpSlcConnectRequest
    <2>2. \A k \in 1..NumLinks : links[k].addr # a
      BY <1>2, LinkOfPhone DEF LinksInv
    <2>3. IdleOne \in 1..NumLinks /\ links[IdleOne].state = "idle"
      BY <1>2, IdleOneIdle DEF LinksInv
    <2>4. "searching" \in Active
      BY DEF Active
    <2> QED
      BY <2>1, <2>2, <2>3, <2>4, OneOrTwo, SetupKeeps DEF LinksInv
  <1> QED
    BY <1>1, <1>2

\* The search asks only for phones that have the profile.
LEMMA AttemptKeeps ==
    ASSUME LinksInv, NEW id, NEW pending, NEW rest, AttemptConnection(id, pending, rest)
    PROVE  LinksOf(NumLinks, links')
  <1>1. conf.Profiled \subseteq Phone
    BY ConfigurationAssumption DEF LinksInv
  <1>2. CASE id < Len(pdl) /\ pdl[id + 1] \in conf.Profiled
    BY <1>1, <1>2, RequestKeeps DEF AttemptConnection
  <1>3. CASE ~(id < Len(pdl) /\ pdl[id + 1] \in conf.Profiled)
    BY <1>3 DEF AttemptConnection, LinksInv
  <1> QED
    BY <1>2, <1>3

\* A call is refused, waits, or gets a link; one that crosses a search gets the
\* link the search gives up.
LEMMA CallKeeps ==
    ASSUME LinksInv, NEW a \in Phone, NEW rest, ConnectIndFrom(a, rest)
    PROVE  LinksOf(NumLinks, links')
  <1> DEFINE l == LinkOf(a)
  <1>1. "incoming" \in Active
    BY DEF Active
  <1>2. CASE links' = links
    BY <1>2 DEF LinksInv
  <1>3. CASE l = 0 /\ IdleOne # 0 /\ links' = Setup(links, IdleOne, a, "incoming")
    BY <1>1, <1>3, LinkOfPhone, IdleOneIdle, OneOrTwo, SetupKeeps DEF LinksInv
  <1>4. CASE l # 0 /\ links' = Setup(Reset(links, l), l, a, "incoming")
    <2>1. l \in 1..NumLinks /\ links[l].addr = a
      BY <1>4, LinkOfPhone DEF LinksInv
    <2>2. links[l].state # "idle"
      BY <2>1, PhoneAssumption DEF LinksInv, LinksOf
    <2>3. \A k \in 1..NumLinks : k # l => links[k].addr # a
      BY <2>1, <2>2 DEF LinksInv, LinksOf
    <2>4. /\ LinksOf(NumLinks, Reset(links, l)) /\ Reset(links, l)[l].state = "idle"
          /\ Reset(links, l)[l].addr = NULL
          /\ \A k \in 1..NumLinks : Reset(links, l)[k].addr \in {links[k].addr, NULL}
      BY <2>1, OneOrTwo, ResetKeeps DEF LinksInv
    <2>5. \A k \in 1..NumLinks : Reset(links, l)[k].addr # a
      BY <2>3, <2>4, PhoneAssumption
    <2> QED
      BY <1>1, <1>4, <2>1, <2>4, <2>5, OneOrTwo, SetupKeeps
  <1> QED
    BY <1>2, <1>3, <1>4 DEF ConnectIndFrom
-----------------------------------------------------------------------------
\* What a step has to keep; the configuration never changes.
Keeps == conf' = conf /\ LinksOf(NumLinks, links')

\* The handlers of the application set up links only through the search.
LEMMA ApplicationKeeps ==
    ASSUME LinksInv,
           \/ HandlePowerOn \/ HandlePowerOff \/ HandleEnterPairing
           \/ PairingEnds \/ ConnectableTimeout \/ HandleEstablish \/ Continue
           \/ HandleConnectInd \/ HandleConnectCfmInLimbo
           \/ HandleConnectSuccess \/ HandleConnectFail \/ HandleDisconnectInd
    PROVE  Keeps
  <1>1. CASE conf' = conf /\ links' = links
    BY <1>1 DEF Keeps, LinksInv
  <1>2. CASE HandlePowerOn
    BY <1>1, <1>2 DEF HandlePowerOn, lib
  <1>3. CASE HandlePowerOff
    BY <1>1, <1>3 DEF HandlePowerOff, lib
  <1>4. CASE HandleEnterPairing
    BY <1>1, <1>4 DEF HandleEnterPairing, lib
  <1>5. CASE PairingEnds
    BY <1>1, <1>5 DEF PairingEnds, lib
  <1>6. CASE ConnectableTimeout
    BY <1>1, <1>6 DEF ConnectableTimeout, lib
  <1>7. CASE HandleConnectInd
    BY <1>1, <1>7 DEF HandleConnectInd, lib
  <1>8. CASE HandleConnectCfmInLimbo
    BY <1>1, <1>8 DEF HandleConnectCfmInLimbo, lib
  <1>9. CASE HandleConnectSuccess
    BY <1>1, <1>9 DEF HandleConnectSuccess, lib
  <1>10. CASE HandleConnectFail
    BY <1>1, <1>10 DEF HandleConnectFail, lib
  <1>11. CASE HandleDisconnectInd
    BY <1>1, <1>11 DEF HandleDisconnectInd, lib
  <1>12. CASE HandleEstablish
    <2>1. conf' = conf
      BY <1>12 DEF HandleEstablish
    <2>2. CASE links' = links
      BY <1>1, <2>1, <2>2
    <2>3. CASE \E id : AttemptConnection(id, continues, Tail(queue))
      BY <2>1, <2>3, AttemptKeeps DEF Keeps
    <2> QED
      BY <1>12, <2>2, <2>3 DEF HandleEstablish
  <1>13. CASE Continue
    <2>1. conf' = conf
      BY <1>13 DEF Continue
    <2>2. CASE links' = links
      BY <1>1, <2>1, <2>2
    <2>3. CASE \E id : AttemptConnection(id, continues - 1, queue)
      BY <2>1, <2>3, AttemptKeeps DEF Keeps
    <2> QED
      BY <1>13, <2>2, <2>3 DEF Continue, ContinueSearch
  <1> QED
    BY <1>2, <1>3, <1>4, <1>5, <1>6, <1>7, <1>8, <1>9, <1>10, <1>11, <1>12, <1>13

\* The end of an attempt or a connection resets its link, and no other.
LEMMA LinkResets ==
    ASSUME LinksInv, conf' = conf, NEW l \in 1..NumLinks, links' = Reset(links, l)
    PROVE  Keeps
  BY OneOrTwo, ResetKeeps DEF Keeps, LinksInv

\* A link in use goes on with its attempt.
LEMMA LinkMoves ==
    ASSUME LinksInv, conf' = conf, NEW l \in 1..NumLinks, links[l].state # "idle",
           NEW s \in State, s # "idle", links' = [links EXCEPT ![l].state = s]
    PROVE  Keeps
  BY OneOrTwo, MovesKeeps DEF Keeps, LinksInv

\* Each handler of the library resets a link, moves one on or accepts a call.
LEMMA LibraryKeeps ==
    ASSUME LinksInv,
           \/ HandleDisconnectReq \/ HandleSdpCfm \/ HandleRfcConnectCfm
           \/ HandleRfcConnectInd \/ (\E a \in Phone : RfcConnectIndAgain(a))
           \/ HandleAtComplete \/ HandleRfcDisconnect
    PROVE  Keeps
  <1>1. CASE conf' = conf /\ links' = links
    BY <1>1 DEF Keeps, LinksInv
  <1>2. \A a : LinkOf(a) # 0 => LinkOf(a) \in 1..NumLinks /\ links[LinkOf(a)].addr = a
    BY LinkOfPhone DEF LinksInv
  <1>3. DOMAIN links = 1..NumLinks
    BY DEF LinksInv, LinksOf
  <1>4. CASE HandleDisconnectReq
    <2>1. conf' = conf
      BY <1>4 DEF HandleDisconnectReq
    <2>2. PICK l \in DOMAIN links \cup {0} :
            \/ links' = links
            \/ l # 0 /\ links' = Reset(links, l)
      BY <1>4 DEF HandleDisconnectReq
    <2> QED
      BY <1>1, <1>3, <2>1, <2>2, LinkResets
  <1>5. CASE HandleSdpCfm
    <2> DEFINE l == LinkOf(m.addr)
    <2>1. conf' = conf
      BY <1>5 DEF HandleSdpCfm
    <2>2. \/ links' = links
          \/ /\ l # 0 /\ links[l].state = "searching"
             /\ \/ links' = [links EXCEPT ![l].state = "outgoing"]
                \/ links' = Reset(links, l)
      BY <1>5 DEF HandleSdpCfm
    <2>3. "outgoing" \in State
      BY DEF State, Active
    <2> QED
      BY <1>1, <1>2, <2>1, <2>2, <2>3, LinkResets, LinkMoves
  <1>6. CASE HandleRfcConnectCfm
    <2>1. conf' = conf
      BY <1>6 DEF HandleRfcConnectCfm
    <2>2. PICK a \in Phone :
            \/ links' = links
            \/ /\ LinkOf(a) # 0
               /\ \/ links' = [links EXCEPT ![LinkOf(a)].state = "connected"]
                  \/ links' = Reset(links, LinkOf(a))
      BY <1>6 DEF HandleRfcConnectCfm
    <2>3. "connected" \in State
      BY DEF State, Active
    <2>4. LinkOf(a) # 0 => links[LinkOf(a)].state # "idle"
      BY <1>2, PhoneAssumption DEF LinksInv, LinksOf
    <2> QED
      BY <1>1, <1>2, <2>1, <2>2, <2>3, <2>4, LinkResets, LinkMoves
  <1>7. CASE HandleRfcConnectInd \/ \E a \in Phone : RfcConnectIndAgain(a)
    <2>1. conf' = conf
      BY <1>7 DEF HandleRfcConnectInd, RfcConnectIndAgain
    <2>2. PICK a \in Phone : \E rest : ConnectIndFrom(a, rest)
      BY <1>7 DEF HandleRfcConnectInd, RfcConnectIndAgain
    <2> QED
      BY <2>1, <2>2, CallKeeps DEF Keeps
  <1>8. CASE HandleAtComplete
    <2> DEFINE l == LinkOf(m.addr)
    <2>1. conf' = conf
      BY <1>8 DEF HandleAtComplete
    <2>2. \/ links' = links
          \/ /\ l # 0 /\ links[l].state = "connected"
             /\ links' = [links EXCEPT ![l].state = "complete"]
      BY <1>8 DEF HandleAtComplete
    <2>3. "complete" \in State
      BY DEF State
    <2> QED
      BY <1>1, <1>2, <2>1, <2>2, <2>3, LinkMoves
  <1>9. CASE HandleRfcDisconnect
    BY <1>2, <1>9, LinkResets DEF HandleRfcDisconnect
  <1> QED
    BY <1>4, <1>5, <1>6, <1>7, <1>8, <1>9

\* BlueStack, the phones and the user touch no link.
LEMMA OutsideKeeps ==
    ASSUME LinksInv,
           \/ \E a \in Phone : PhoneCalls(a) \/ PhoneCompletesAt(a) \/ StackCloses(a)
           \/ \E a \in Phone, ok \in BOOLEAN : StackFinds(a, ok) \/ StackConnects(a, ok)
           \/ \E a \in Phone, status \in Status : PhoneEnds(a, status)
           \/ \E id \in User : UserPresses(id)
    PROVE  Keeps
  <1>1. conf' = conf /\ links' = links
    <2>1. CASE \E a \in Phone : PhoneCalls(a) \/ PhoneCompletesAt(a) \/ StackCloses(a)
      BY <2>1 DEF PhoneCalls, PhoneCompletesAt, StackCloses, Ends, lib
    <2>2. CASE \E a \in Phone, ok \in BOOLEAN : StackFinds(a, ok) \/ StackConnects(a, ok)
      BY <2>2 DEF StackFinds, StackConnects, lib
    <2>3. CASE \E a \in Phone, status \in Status : PhoneEnds(a, status)
      BY <2>3 DEF PhoneEnds, Ends, lib
    <2>4. CASE \E id \in User : UserPresses(id)
      BY <2>4 DEF UserPresses, lib
    <2> QED
      BY <2>1, <2>2, <2>3, <2>4
  <1> QED
    BY <1>1 DEF Keeps, LinksInv

-----------------------------------------------------------------------------
\* At power up every link is idle.
LEMMA InitLinks == Init => LinksInv
  <1> SUFFICES ASSUME Init PROVE LinksInv
    OBVIOUS
  <1>1. IdleLink \in LinkRecord
    BY DEF IdleLink, LinkRecord, State
  <1>2. links = [l \in 1..NumLinks |-> IdleLink] /\ conf \in Configuration
    BY DEF Init
  <1>3. \A l \in 1..NumLinks :
          links[l].state = "idle" /\ links[l].addr = NULL /\ links[l].priority = 0
    BY <1>2 DEF IdleLink
  <1>4. links \in [1..NumLinks -> LinkRecord]
    BY <1>1, <1>2
  <1> QED
    BY <1>2, <1>3, <1>4 DEF LinksInv, LinksOf

\* Every step keeps the links as the library means them to be.
LEMMA NextLinks == LinksInv /\ [Next]_vars => LinksInv'
  <1> SUFFICES ASSUME LinksInv, [Next]_vars PROVE LinksInv'
    OBVIOUS
  <1>1. Keeps
    <2>1. CASE Next
      BY <2>1, ApplicationKeeps, LibraryKeeps, OutsideKeeps DEF Next
    <2>2. CASE UNCHANGED vars
      BY <2>2 DEF vars, lib, Keeps, LinksInv
    <2> QED
      BY <2>1, <2>2
  <1>2. NumLinks' = NumLinks
    BY <1>1 DEF Keeps, NumLinks
  <1> QED
    BY <1>1, <1>2 DEF Keeps, LinksInv, LinksOf

\* The invariant is as strong as the property.
LEMMA InvDistinct == LinksInv => LinksDistinct
  <1> SUFFICES ASSUME LinksInv PROVE LinksDistinct
    OBVIOUS
  <1>1. DOMAIN links = 1..NumLinks
    BY DEF LinksInv, LinksOf
  <1> QED
    BY <1>1 DEF LinksInv, LinksOf, LinksDistinct

\* However requests, calls, failures and disconnections cross, no phone has two links,
\* no priority is given twice and a secondary link has a primary one: what
\* hfp_link_manager.c is for, with any number of phones and any configuration.
THEOREM AlwaysDistinct == Spec => []LinksDistinct
  <1>1. Spec => []LinksInv
    BY InitLinks, NextLinks, PTL DEF Spec
  <1> QED
    BY <1>1, InvDistinct, PTL
-----------------------------------------------------------------------------
(* The stream with a phone                                                 *)

\* What the library hears of a stream: BlueStack's answer and its end.
StreamIds == {"RFC_CONNECT_CFM", "RFC_DISCONNECT"}

\* Where in the queue q the library hears of the stream with phone a.
Heard(q, a) == {k \in 1..Len(q) : q[k].id \in StreamIds /\ q[k].addr = a}

\* The state of the link of phone a, which may have none.
PhoneState(ls, a) ==
    IF \E l \in DOMAIN ls : ls[l].addr = a
    THEN ls[CHOOSE l \in DOMAIN ls : ls[l].addr = a].state ELSE "idle"

NoStream == {"idle", "searching"}
Opening == {"outgoing", "incoming"}
Opened == {"connected", "complete"}

\* What BlueStack has for phone a, what it has told, and what the library makes of
\* it agree: here with nothing to hear.
Agreed(a, st, at, q) ==
    /\ Heard(q, a) = {}
    /\ \/ st \in NoStream /\ at = "none"
       \/ st \in Opening /\ at \in {"asked", "accepted"}
       \/ st \in Opened /\ at = "up"

\* Here with the answer to hear of.
Answered(a, st, at, q) ==
    \E i \in Heard(q, a) :
        /\ Heard(q, a) = {i} /\ q[i].id = "RFC_CONNECT_CFM"
        /\ st \in Opening /\ at = IF q[i].ok THEN "up" ELSE "none"

\* With the end to hear of.
Ended(a, st, at, q) ==
    \E i \in Heard(q, a) :
        /\ Heard(q, a) = {i} /\ q[i].id = "RFC_DISCONNECT"
        /\ st \in Opened /\ at = "none"

\* With the answer and the end, in this order.
AnsweredEnded(a, st, at, q) ==
    \E i, j \in Heard(q, a) :
        /\ Heard(q, a) = {i, j} /\ i < j
        /\ q[i].id = "RFC_CONNECT_CFM" /\ q[i].ok /\ q[j].id = "RFC_DISCONNECT"
        /\ st \in Opening /\ at = "none"

StreamOf(a, st, at, q) ==
    \/ Agreed(a, st, at, q) \/ Answered(a, st, at, q)
    \/ Ended(a, st, at, q) \/ AnsweredEnded(a, st, at, q)

Streams == \A a \in Phone : StreamOf(a, PhoneState(links, a), air[a], queue)

\* What a step sends that is not about a stream.
Unheard(s) == \A k \in 1..Len(s) : s[k].id \notin StreamIds

\* The state is that of the phone's link, or idle.
LEMMA PhoneStateIs ==
    ASSUME NEW n \in {1, 2}, NEW ls, LinksOf(n, ls), NEW a \in Phone
    PROVE  /\ \A l \in 1..n : ls[l].addr = a => PhoneState(ls, a) = ls[l].state
           /\ (\A l \in 1..n : ls[l].addr # a) => PhoneState(ls, a) = "idle"
  <1>1. DOMAIN ls = 1..n
    BY DEF LinksOf
  <1>2. ASSUME NEW l \in 1..n, ls[l].addr = a
        PROVE  PhoneState(ls, a) = ls[l].state
    <2> DEFINE c == CHOOSE k \in 1..n : ls[k].addr = a
    <2>1. c \in 1..n /\ ls[c].addr = a
      BY <1>2
    <2>2. ls[l].state # "idle" /\ ls[c].state # "idle"
      BY <1>2, <2>1, PhoneAssumption DEF LinksOf
    <2>3. c = l
      BY <1>2, <2>1, <2>2 DEF LinksOf
    <2>4. PhoneState(ls, a) = ls[c].state
      BY <1>1, <1>2 DEF PhoneState
    <2> QED
      BY <2>3, <2>4
  <1>3. (\A l \in 1..n : ls[l].addr # a) => PhoneState(ls, a) = "idle"
    BY <1>1 DEF PhoneState
  <1> QED
    BY <1>2, <1>3

\* A link set up changes the state of its phone only.
LEMMA StateSetup ==
    ASSUME NEW n \in {1, 2}, NEW ls, LinksOf(n, ls), NEW l \in 1..n,
           ls[l].state = "idle", NEW a \in Phone, \A k \in 1..n : ls[k].addr # a,
           NEW s \in Active, NEW b \in Phone
    PROVE  PhoneState(Setup(ls, l, a, s), b) = IF b = a THEN s ELSE PhoneState(ls, b)
  <1> DEFINE rs == Setup(ls, l, a, s)
  <1>1. DOMAIN ls = 1..n /\ ls[l].addr = NULL
    BY DEF LinksOf
  <1>2. rs[l].addr = a /\ rs[l].state = s /\ \A k \in 1..n : k # l => rs[k] = ls[k]
    BY <1>1 DEF Setup
  <1>3. LinksOf(n, rs)
    BY SetupKeeps
  <1> HIDE DEF rs
  <1>4. CASE b = a
    BY <1>2, <1>3, <1>4, PhoneStateIs DEF rs
  <1>5. CASE b # a /\ \E k \in 1..n : ls[k].addr = b
    <2>1. PICK k \in 1..n : ls[k].addr = b
      BY <1>5
    <2>2. k # l
      BY <1>1, <2>1, PhoneAssumption
    <2>3. rs[k].addr = b /\ rs[k].state = ls[k].state
      BY <1>2, <2>1, <2>2
    <2> QED
      BY <1>3, <1>5, <2>1, <2>3, PhoneStateIs DEF rs
  <1>6. CASE b # a /\ \A k \in 1..n : ls[k].addr # b
    <2>1. \A k \in 1..n : rs[k].addr # b
      BY <1>2, <1>6
    <2> QED
      BY <1>3, <1>6, <2>1, PhoneStateIs DEF rs
  <1> QED
    BY <1>4, <1>5, <1>6

\* So does a link given up.
LEMMA StateReset ==
    ASSUME NEW n \in {1, 2}, NEW ls, LinksOf(n, ls), NEW l \in 1..n, NEW b \in Phone
    PROVE  PhoneState(Reset(ls, l), b) =
               IF b = ls[l].addr THEN "idle" ELSE PhoneState(ls, b)
  <1> DEFINE rs == Reset(ls, l)
  <1>1. /\ LinksOf(n, rs) /\ rs[l].addr = NULL
        /\ \A k \in 1..n : k # l => rs[k].state = ls[k].state /\ rs[k].addr = ls[k].addr
    BY ResetKeeps
  <1> HIDE DEF rs
  <1>2. CASE b = ls[l].addr
    <2>1. \A k \in 1..n : k # l => ls[k].addr # b
      BY <1>2, PhoneAssumption DEF LinksOf
    <2>2. \A k \in 1..n : rs[k].addr # b
      BY <1>1, <2>1, PhoneAssumption
    <2> QED
      BY <1>1, <1>2, <2>2, PhoneStateIs DEF rs
  <1>3. CASE b # ls[l].addr /\ \E k \in 1..n : ls[k].addr = b
    <2>1. PICK k \in 1..n : ls[k].addr = b
      BY <1>3
    <2>2. k # l /\ rs[k].addr = b /\ rs[k].state = ls[k].state
      BY <1>1, <1>3, <2>1
    <2> QED
      BY <1>1, <1>3, <2>1, <2>2, PhoneStateIs DEF rs
  <1>4. CASE b # ls[l].addr /\ \A k \in 1..n : ls[k].addr # b
    <2>1. \A k \in 1..n : rs[k].addr # b
      BY <1>1, <1>4, PhoneAssumption
    <2> QED
      BY <1>1, <1>4, <2>1, PhoneStateIs DEF rs
  <1> QED
    BY <1>2, <1>3, <1>4

\* And a link that goes on.
LEMMA StateMoves ==
    ASSUME NEW n \in {1, 2}, NEW ls, LinksOf(n, ls), NEW l \in 1..n,
           ls[l].state # "idle", NEW s \in State, s # "idle", NEW b \in Phone,
           NEW rs, LinksOf(n, rs),
           \A k \in 1..n : /\ rs[k].addr = ls[k].addr
                           /\ rs[k].state = IF k = l THEN s ELSE ls[k].state
    PROVE  PhoneState(rs, b) =
               IF b = ls[l].addr THEN s ELSE PhoneState(ls, b)
  <1>1. ASSUME b = ls[l].addr PROVE PhoneState(rs, b) = s
    BY <1>1, PhoneStateIs
  <1>2. ASSUME b # ls[l].addr, \E k \in 1..n : ls[k].addr = b
        PROVE  PhoneState(rs, b) = PhoneState(ls, b)
    <2>1. PICK k \in 1..n : ls[k].addr = b
      BY <1>2
    <2>2. rs[k].addr = b /\ rs[k].state = ls[k].state
      BY <1>2, <2>1
    <2> QED
      BY <1>2, <2>1, <2>2, PhoneStateIs
  <1>3. ASSUME b # ls[l].addr, \A k \in 1..n : ls[k].addr # b
        PROVE  PhoneState(rs, b) = PhoneState(ls, b)
    <2>1. \A k \in 1..n : rs[k].addr # b
      BY <1>3
    <2> QED
      BY <1>3, <2>1, PhoneStateIs
  <1> QED
    BY <1>1, <1>2, <1>3

-----------------------------------------------------------------------------
\* Messages sent that are not about the stream leave it as it is.
LEMMA StreamExtended ==
    ASSUME NEW q \in Seq(Message), NEW s \in Seq(Message), Unheard(s),
           NEW a, NEW st, NEW at
    PROVE  StreamOf(a, st, at, q \o s) <=> StreamOf(a, st, at, q)
  <1>1. /\ Len(q) \in Nat /\ Len(s) \in Nat /\ Len(q \o s) = Len(q) + Len(s)
        /\ \A i \in 1..(Len(q) + Len(s)) :
              (q \o s)[i] = IF i <= Len(q) THEN q[i] ELSE s[i - Len(q)]
    BY ConcatProperties, LenProperties
  <1>2. /\ \A i \in 1..Len(q) : (q \o s)[i] = q[i]
        /\ \A i \in 1..Len(q \o s) : i \notin 1..Len(q) => (q \o s)[i].id \notin StreamIds
    BY <1>1 DEF Unheard
  <1>3. Heard(q \o s, a) = Heard(q, a)
    BY <1>1, <1>2 DEF Heard
  <1>4. \A i \in Heard(q, a) : (q \o s)[i] = q[i]
    BY <1>2 DEF Heard
  <1> QED
    BY <1>3, <1>4 DEF StreamOf, Agreed, Answered, Ended, AnsweredEnded

\* A message taken brings the others one place nearer.
LEMMA HeardTaken ==
    ASSUME NEW q \in Seq(Message), q # <<>>, NEW a
    PROVE  /\ \A i \in Heard(Tail(q), a) : i + 1 \in Heard(q, a) /\ Tail(q)[i] = q[i + 1]
           /\ \A i \in Heard(q, a) : i # 1 => i - 1 \in Heard(Tail(q), a)
           /\ Heard(q, a) \subseteq Nat \ {0} /\ Heard(Tail(q), a) \subseteq Nat \ {0}
           /\ 1 \in Heard(q, a) <=> (Head(q).id \in StreamIds /\ Head(q).addr = a)
           /\ Head(q) = q[1]
  <1>1. /\ Len(q) \in Nat \ {0} /\ Head(q) = q[1] /\ Len(Tail(q)) = Len(q) - 1
        /\ \A i \in 1..Len(Tail(q)) : Tail(q)[i] = q[i + 1]
    BY HeadTailProperties, EmptySeq
  <1> QED
    BY <1>1 DEF Heard

\* One that is not about the stream leaves it as it is.
LEMMA StreamPassed ==
    ASSUME NEW q \in Seq(Message), q # <<>>, NEW a, NEW st, NEW at,
           ~(Head(q).id \in StreamIds /\ Head(q).addr = a), StreamOf(a, st, at, q)
    PROVE  StreamOf(a, st, at, Tail(q))
  <1> DEFINE r == Tail(q)
             old == Heard(q, a)
             new == Heard(r, a)
  <1>1. /\ \A i \in new : i + 1 \in old /\ r[i] = q[i + 1]
        /\ \A i \in old : i - 1 \in new /\ r[i - 1] = q[i]
        /\ old \subseteq Nat \ {0} /\ new \subseteq Nat \ {0}
    <2>1. 1 \notin old
      BY HeardTaken
    <2>2. /\ \A i \in new : i + 1 \in old /\ r[i] = q[i + 1]
          /\ \A i \in old : i # 1 => i - 1 \in new
          /\ old \subseteq Nat \ {0} /\ new \subseteq Nat \ {0}
      BY HeardTaken
    <2>3. \A i \in old : (i - 1) + 1 = i
      BY <2>2
    <2> QED
      BY <2>1, <2>2, <2>3
  <1>2. CASE Agreed(a, st, at, q)
    <2>1. new = {}
      BY <1>1, <1>2 DEF Agreed
    <2> QED
      BY <1>2, <2>1 DEF StreamOf, Agreed
  <1>3. ASSUME NEW i \in old, old = {i}
        PROVE  i - 1 \in new /\ new = {i - 1} /\ r[i - 1] = q[i]
    <2>1. i - 1 \in new /\ r[i - 1] = q[i]
      BY <1>1
    <2>2. \A j \in new : j = i - 1
      BY <1>1, <1>3
    <2> QED
      BY <2>1, <2>2
  <1>4. CASE Answered(a, st, at, q)
    <2>1. PICK i \in old : /\ old = {i} /\ q[i].id = "RFC_CONNECT_CFM"
                           /\ st \in Opening /\ at = IF q[i].ok THEN "up" ELSE "none"
      BY <1>4 DEF Answered
    <2>2. i - 1 \in new /\ new = {i - 1} /\ r[i - 1] = q[i]
      BY <1>3, <2>1
    <2>3. Answered(a, st, at, r)
      BY <2>1, <2>2 DEF Answered
    <2> QED
      BY <2>3 DEF StreamOf
  <1>5. CASE Ended(a, st, at, q)
    <2>1. PICK i \in old : /\ old = {i} /\ q[i].id = "RFC_DISCONNECT"
                           /\ st \in Opened /\ at = "none"
      BY <1>5 DEF Ended
    <2>2. i - 1 \in new /\ new = {i - 1} /\ r[i - 1] = q[i]
      BY <1>3, <2>1
    <2>3. Ended(a, st, at, r)
      BY <2>1, <2>2 DEF Ended
    <2> QED
      BY <2>3 DEF StreamOf
  <1>6. CASE AnsweredEnded(a, st, at, q)
    <2>1. PICK i, j \in old :
              /\ old = {i, j} /\ i < j
              /\ q[i].id = "RFC_CONNECT_CFM" /\ q[i].ok /\ q[j].id = "RFC_DISCONNECT"
              /\ st \in Opening /\ at = "none"
      BY <1>6 DEF AnsweredEnded
    <2>2. /\ i - 1 \in new /\ j - 1 \in new /\ new = {i - 1, j - 1} /\ i - 1 < j - 1
          /\ r[i - 1] = q[i] /\ r[j - 1] = q[j]
      <3> HIDE DEF r, old, new
      <3>1. ASSUME NEW k \in new
            PROVE  k = i - 1 \/ k = j - 1
        <4>1. k + 1 = i \/ k + 1 = j
          BY <1>1, <2>1
        <4>2. k \in Nat /\ i \in Nat /\ j \in Nat
          BY <1>1
        <4> QED
          BY <4>1, <4>2
      <3>2. /\ i - 1 \in new /\ j - 1 \in new /\ i - 1 < j - 1
            /\ r[i - 1] = q[i] /\ r[j - 1] = q[j]
        BY <1>1, <2>1
      <3> QED
        BY <3>1, <3>2
    <2> DEFINE x == i - 1
               y == j - 1
    <2>3. /\ x \in new /\ y \in new /\ new = {x, y} /\ x < y
          /\ r[x] = q[i] /\ r[y] = q[j]
      BY <2>2
    <2> HIDE DEF x, y
    <2>4. AnsweredEnded(a, st, at, r)
      BY <2>1, <2>3 DEF AnsweredEnded
    <2> QED
      BY <2>4 DEF StreamOf
  <1> QED
    BY <1>2, <1>4, <1>5, <1>6 DEF StreamOf

\* The answer heard: the library's link follows it.
LEMMA StreamAnswerHeard ==
    ASSUME NEW q \in Seq(Message), q # <<>>, NEW a, NEW st, NEW at,
           Head(q).id = "RFC_CONNECT_CFM", Head(q).addr = a, StreamOf(a, st, at, q)
    PROVE  /\ st \in Opening
           /\ Head(q).ok => StreamOf(a, "connected", at, Tail(q))
           /\ ~Head(q).ok => StreamOf(a, "idle", at, Tail(q))
  <1> DEFINE r == Tail(q)
             old == Heard(q, a)
             new == Heard(r, a)
  <1>1. /\ \A i \in new : i + 1 \in old /\ r[i] = q[i + 1]
        /\ \A i \in old : i # 1 => i - 1 \in new
        /\ old \subseteq Nat \ {0} /\ new \subseteq Nat \ {0}
    BY ZenonT(40), HeardTaken
  <1>2. 1 \in old /\ q[1].id = "RFC_CONNECT_CFM" /\ Head(q) = q[1]
    BY HeardTaken DEF StreamIds
  <1>3. CASE Answered(a, st, at, q)
    <2>1. /\ old = {1} /\ st \in Opening
          /\ at = IF q[1].ok THEN "up" ELSE "none"
      BY <1>2, <1>3 DEF Answered
    <2>2. new = {}
      BY <1>1, <2>1
    <2>3. "idle" \in NoStream /\ "connected" \in Opened
      BY DEF NoStream, Opened
    <2>4. Head(q).ok => Agreed(a, "connected", at, r)
      BY <1>2, <2>1, <2>2, <2>3 DEF Agreed
    <2>5. ~Head(q).ok => Agreed(a, "idle", at, r)
      BY <1>2, <2>1, <2>2, <2>3 DEF Agreed
    <2> QED
      BY <2>1, <2>4, <2>5 DEF StreamOf
  <1>4. CASE AnsweredEnded(a, st, at, q)
    <2>1. PICK i, j \in old :
              /\ old = {i, j} /\ i < j
              /\ q[i].id = "RFC_CONNECT_CFM" /\ q[i].ok /\ q[j].id = "RFC_DISCONNECT"
              /\ st \in Opening /\ at = "none"
      BY <1>4 DEF AnsweredEnded
    <2>2. i = 1 /\ j # 1 /\ j \in Nat
      BY <1>1, <1>2, <2>1
    <2>3. j - 1 \in new /\ new = {j - 1} /\ (j - 1) + 1 = j
      BY <1>1, <2>1, <2>2
    <2>4. r[j - 1] = q[j]
      BY <1>1, <2>3
    <2>5. "connected" \in Opened
      BY DEF Opened
    <2>6. Ended(a, "connected", at, r)
      BY <2>1, <2>3, <2>4, <2>5 DEF Ended
    <2> QED
      BY <1>2, <2>1, <2>2, <2>6 DEF StreamOf
  <1>5. ~Agreed(a, st, at, q) /\ ~Ended(a, st, at, q)
    BY <1>2 DEF Agreed, Ended
  <1> QED
    BY <1>3, <1>4, <1>5 DEF StreamOf

\* The end heard: it finds a link with a stream, and takes it.
LEMMA StreamEndHeard ==
    ASSUME NEW q \in Seq(Message), q # <<>>, NEW a, NEW st, NEW at,
           Head(q).id = "RFC_DISCONNECT", Head(q).addr = a, StreamOf(a, st, at, q)
    PROVE  st \in Opened /\ StreamOf(a, "idle", at, Tail(q))
  <1> DEFINE r == Tail(q)
             old == Heard(q, a)
             new == Heard(r, a)
  <1>1. /\ \A i \in new : i + 1 \in old
        /\ old \subseteq Nat \ {0} /\ new \subseteq Nat \ {0}
    BY HeardTaken
  <1>2. 1 \in old /\ q[1].id = "RFC_DISCONNECT" /\ Head(q) = q[1]
    BY HeardTaken DEF StreamIds
  <1>3. ~Agreed(a, st, at, q) /\ ~Answered(a, st, at, q)
    BY <1>2 DEF Agreed, Answered
  <1>4. ~AnsweredEnded(a, st, at, q)
    <2> SUFFICES ASSUME NEW i \in old, NEW j \in old, old = {i, j}, i < j,
                        q[i].id = "RFC_CONNECT_CFM"
                 PROVE  FALSE
      BY DEF AnsweredEnded
    <2>1. i # 1
      BY <1>2
    <2>2. j = 1
      BY <1>2, <2>1
    <2> QED
      BY <1>1, <2>1, <2>2
  <1>5. Ended(a, st, at, q)
    BY <1>3, <1>4 DEF StreamOf
  <1>6. old = {1} /\ st \in Opened /\ at = "none"
    BY <1>2, <1>5 DEF Ended
  <1>7. new = {}
    BY <1>1, <1>6
  <1>8. Agreed(a, "idle", at, r)
    BY <1>6, <1>7 DEF Agreed, NoStream
  <1> QED
    BY <1>6, <1>8 DEF StreamOf

\* BlueStack's answer, and the end of a stream that is up, put in the queue.
LEMMA StreamTold ==
    ASSUME NEW q \in Seq(Message), NEW e \in Message, NEW a, NEW st, NEW at,
           e.id \in StreamIds, e.addr = a, StreamOf(a, st, at, q)
    PROVE  /\ e.id = "RFC_CONNECT_CFM" /\ at \in {"asked", "accepted"}
                 => StreamOf(a, st, IF e.ok THEN "up" ELSE "none", Append(q, e))
           /\ e.id = "RFC_DISCONNECT" /\ at = "up"
                 => StreamOf(a, st, "none", Append(q, e))
           /\ \A b : b # a => \A sb, ab :
                 StreamOf(b, sb, ab, q) => StreamOf(b, sb, ab, Append(q, e))
  <1> DEFINE r == Append(q, e)
             n == Len(q) + 1
  <1>1. /\ Len(q) \in Nat /\ Len(r) = n
        /\ \A i \in 1..Len(q) : r[i] = q[i]
        /\ r[n] = e
    BY AppendProperties, LenProperties
  <1>2. Heard(r, a) = Heard(q, a) \cup {n}
    BY <1>1 DEF Heard
  <1>3. \A b : \A i \in Heard(q, b) : r[i] = q[i] /\ i < n /\ i \in 1..Len(q)
    BY <1>1 DEF Heard
  <1>4. ASSUME e.id = "RFC_CONNECT_CFM", at \in {"asked", "accepted"}
        PROVE  StreamOf(a, st, IF e.ok THEN "up" ELSE "none", r)
    <2>1. Heard(q, a) = {} /\ st \in Opening
      BY <1>4 DEF StreamOf, Agreed, Answered, Ended, AnsweredEnded
    <2>2. Heard(r, a) = {n} /\ n \in Heard(r, a)
      BY <1>2, <2>1
    <2>3. Answered(a, st, IF e.ok THEN "up" ELSE "none", r)
      BY <1>1, <1>4, <2>1, <2>2 DEF Answered
    <2> QED
      BY <2>3 DEF StreamOf
  <1>5. ASSUME e.id = "RFC_DISCONNECT", at = "up"
        PROVE  StreamOf(a, st, "none", r)
    <2>1. CASE Agreed(a, st, at, q)
      <3>1. Heard(q, a) = {} /\ st \in Opened
        BY <1>5, <2>1 DEF Agreed
      <3>2. Heard(r, a) = {n} /\ n \in Heard(r, a)
        BY <1>2, <3>1
      <3>3. Ended(a, st, "none", r)
        BY <1>1, <1>5, <3>1, <3>2 DEF Ended
      <3> QED
        BY <3>3 DEF StreamOf
    <2>2. CASE Answered(a, st, at, q)
      <3>1. PICK i \in Heard(q, a) : /\ Heard(q, a) = {i} /\ q[i].id = "RFC_CONNECT_CFM"
                                     /\ st \in Opening /\ q[i].ok
        BY <1>5, <2>2 DEF Answered
      <3>2. Heard(r, a) = {i, n} /\ i \in Heard(r, a) /\ n \in Heard(r, a)
        BY <1>2, <3>1
      <3>3. i < n /\ r[i] = q[i]
        BY <1>3
      <3>4. AnsweredEnded(a, st, "none", r)
        BY <1>1, <1>5, <3>1, <3>2, <3>3 DEF AnsweredEnded
      <3> QED
        BY <3>4 DEF StreamOf
    <2> QED
      BY <1>5, <2>1, <2>2 DEF StreamOf, Ended, AnsweredEnded
  <1>6. ASSUME NEW b, b # a, NEW sb, NEW ab, StreamOf(b, sb, ab, q)
        PROVE  StreamOf(b, sb, ab, r)
    <2>1. Heard(r, b) = Heard(q, b)
      BY <1>1, <1>6 DEF Heard
    <2>2. \A i \in Heard(q, b) : r[i] = q[i]
      BY <1>3
    <2> QED
      BY ZenonT(40), <1>6, <2>1, <2>2 DEF StreamOf, Agreed, Answered, Ended, AnsweredEnded
  <1> QED
    BY <1>4, <1>5, <1>6

-----------------------------------------------------------------------------
(* What the steps send                                                     *)

\* Messages of certain kinds and no others.
Only(s, ids) == s \in Seq(Message) /\ \A k \in 1..Len(s) : s[k].id \in ids

\* The kinds that are not about a stream.
Sent == {"DISCONNECT_REQ", "SLC_CONNECT_CFM", "SLC_CONNECT_IND", "SLC_DISCONNECT_IND",
         "SDP_CFM", "RFC_CONNECT_IND", "AT_COMPLETE",
         "ESTABLISH", "ENTER_PAIRING", "POWER_ON", "POWER_OFF"}

\* The kinds of messages, one by one.
LEMMA MessageKinds ==
    /\ [id : User \cup {"SLC_CONNECT_IND"}] \subseteq Message
    /\ [id : {"SLC_CONNECT_CFM"}, ok : BOOLEAN, priority : 0..2, addr : Phone]
          \subseteq Message
    /\ [id : {"SLC_DISCONNECT_IND"}, status : Status \cup {"no_slc"},
        priority : 0..2, addr : Phone \cup {NULL}] \subseteq Message
    /\ [id : {"DISCONNECT_REQ"}, link : 0..2] \subseteq Message
    /\ [id : {"SDP_CFM", "RFC_CONNECT_CFM"}, addr : Phone, ok : BOOLEAN] \subseteq Message
    /\ [id : {"RFC_CONNECT_IND", "AT_COMPLETE"}, addr : Phone] \subseteq Message
    /\ [id : {"RFC_DISCONNECT"}, addr : Phone, status : Status] \subseteq Message
  BY Zenon DEF Message

\* Every message the code makes up is one of the queue's.
LEMMA ConnectMessages ==
    /\ \A ok \in BOOLEAN, p \in 0..2, a \in Phone :
          ConnectCfm(ok, p, a) \in Message /\ ConnectCfm(ok, p, a).id = "SLC_CONNECT_CFM"
    /\ \A status \in Status \cup {"no_slc"}, p \in 0..2, a \in Phone \cup {NULL} :
          /\ DisconnectInd(status, p, a) \in Message
          /\ DisconnectInd(status, p, a).id = "SLC_DISCONNECT_IND"
    /\ \A l \in 0..2 : DisconnectReq(l) \in Message /\ DisconnectReq(l).id = "DISCONNECT_REQ"
  <1>1. \A ok \in BOOLEAN, p \in 0..2, a \in Phone :
          ConnectCfm(ok, p, a) \in [id : {"SLC_CONNECT_CFM"}, ok : BOOLEAN, priority : 0..2,
                                    addr : Phone]
    BY DEF ConnectCfm
  <1>2. \A status \in Status \cup {"no_slc"}, p \in 0..2, a \in Phone \cup {NULL} :
          DisconnectInd(status, p, a) \in
              [id : {"SLC_DISCONNECT_IND"}, status : Status \cup {"no_slc"},
               priority : 0..2, addr : Phone \cup {NULL}]
    BY DEF DisconnectInd
  <1>3. \A l \in 0..2 : DisconnectReq(l) \in [id : {"DISCONNECT_REQ"}, link : 0..2]
    BY DEF DisconnectReq
  <1>4. \A ok, p, a : ConnectCfm(ok, p, a).id = "SLC_CONNECT_CFM"
    BY DEF ConnectCfm
  <1>5. \A status, p, a : DisconnectInd(status, p, a).id = "SLC_DISCONNECT_IND"
    BY DEF DisconnectInd
  <1>6. \A l : DisconnectReq(l).id = "DISCONNECT_REQ"
    BY DEF DisconnectReq
  <1> QED
    <2>1. \A ok \in BOOLEAN, p \in 0..2, a \in Phone : ConnectCfm(ok, p, a) \in Message
      BY <1>1, MessageKinds, Zenon
    <2>2. \A status \in Status \cup {"no_slc"}, p \in 0..2, a \in Phone \cup {NULL} :
            DisconnectInd(status, p, a) \in Message
      BY <1>2, MessageKinds, Zenon
    <2>3. \A l \in 0..2 : DisconnectReq(l) \in Message
      BY <1>3, MessageKinds, Zenon
    <2> QED
      BY <1>4, <1>5, <1>6, <2>1, <2>2, <2>3

\* So are BlueStack's, the phones' and the user's.
LEMMA OtherMessages ==
    /\ \A id \in User \cup {"SLC_CONNECT_IND"} : Plain(id) \in Message /\ Plain(id).id = id
    /\ \A a \in Phone, ok \in BOOLEAN, id \in {"SDP_CFM", "RFC_CONNECT_CFM"} :
          /\ Answer(id, a, ok) \in Message
          /\ Answer(id, a, ok).id = id /\ Answer(id, a, ok).addr = a /\ Answer(id, a, ok).ok = ok
    /\ \A a \in Phone, id \in {"RFC_CONNECT_IND", "AT_COMPLETE"} :
          OfPhone(id, a) \in Message /\ OfPhone(id, a).id = id /\ OfPhone(id, a).addr = a
    /\ \A a \in Phone, status \in Status :
          [id |-> "RFC_DISCONNECT", addr |-> a, status |-> status] \in Message
  <1>1. \A id \in User \cup {"SLC_CONNECT_IND"} :
          Plain(id) \in [id : User \cup {"SLC_CONNECT_IND"}]
    BY DEF Plain
  <1>2. \A a \in Phone, ok \in BOOLEAN, id \in {"SDP_CFM", "RFC_CONNECT_CFM"} :
          Answer(id, a, ok) \in [id : {"SDP_CFM", "RFC_CONNECT_CFM"}, addr : Phone, ok : BOOLEAN]
    BY DEF Answer
  <1>3. \A a \in Phone, id \in {"RFC_CONNECT_IND", "AT_COMPLETE"} :
          OfPhone(id, a) \in [id : {"RFC_CONNECT_IND", "AT_COMPLETE"}, addr : Phone]
    BY DEF OfPhone
  <1>4. \A a \in Phone, status \in Status :
          [id |-> "RFC_DISCONNECT", addr |-> a, status |-> status] \in
              [id : {"RFC_DISCONNECT"}, addr : Phone, status : Status]
    OBVIOUS
  <1>5. /\ \A id : Plain(id).id = id
        /\ \A id, a, ok : Answer(id, a, ok).id = id /\ Answer(id, a, ok).addr = a
                          /\ Answer(id, a, ok).ok = ok
        /\ \A id, a : OfPhone(id, a).id = id /\ OfPhone(id, a).addr = a
    BY DEF Plain, Answer, OfPhone
  <1> QED
    <2>1. \A id \in User \cup {"SLC_CONNECT_IND"} : Plain(id) \in Message /\ Plain(id).id = id
      BY <1>1, <1>5, MessageKinds, Zenon
    <2>2. \A a \in Phone, ok \in BOOLEAN, id \in {"SDP_CFM", "RFC_CONNECT_CFM"} :
            Answer(id, a, ok) \in Message
      BY <1>2, MessageKinds, Zenon
    <2>3. \A a \in Phone, id \in {"RFC_CONNECT_IND", "AT_COMPLETE"} :
            OfPhone(id, a) \in Message
      BY <1>3, MessageKinds, Zenon
    <2>4. \A a \in Phone, status \in Status :
            [id |-> "RFC_DISCONNECT", addr |-> a, status |-> status] \in Message
      BY <1>4, MessageKinds, Zenon
    <2> QED
      BY <1>5, <2>1, <2>2, <2>3, <2>4

\* The messages that name a phone name one of the phones.
LEMMA PhoneNamed ==
    \A msg \in Message :
        msg.id \in StreamIds \cup {"SDP_CFM", "AT_COMPLETE", "SLC_CONNECT_CFM"}
        => msg.addr \in Phone
  BY DEF Message, StreamIds, User

\* The laws of sending: no message,
LEMMA OnlyEmpty == \A ids : Only(<<>>, ids)
  BY DEF Only

\* one,
LEMMA OnlyOne ==
    ASSUME NEW x \in Message, NEW ids, x.id \in ids
    PROVE  Only(<<x>>, ids)
  BY DEF Only

\* several,
LEMMA OnlyConcat ==
    ASSUME NEW s, NEW t, NEW ids, Only(s, ids), Only(t, ids)
    PROVE  Only(s \o t, ids)
  <1>1. s \in Seq(Message) /\ t \in Seq(Message)
    BY DEF Only
  <1>2. /\ s \o t \in Seq(Message) /\ Len(s \o t) = Len(s) + Len(t)
        /\ Len(s) \in Nat /\ Len(t) \in Nat
        /\ \A i \in 1..(Len(s) + Len(t)) :
              (s \o t)[i] = IF i <= Len(s) THEN s[i] ELSE t[i - Len(s)]
    BY <1>1, ConcatProperties, LenProperties
  <1>3. ASSUME NEW i \in 1..(Len(s) + Len(t)) PROVE (s \o t)[i].id \in ids
    <2>1. CASE i <= Len(s)
      BY <1>2, <1>3, <2>1 DEF Only
    <2>2. CASE ~(i <= Len(s))
      <3>1. i - Len(s) \in 1..Len(t)
        BY <1>2, <2>2
      <3> QED
        BY <1>2, <2>2, <3>1 DEF Only
    <2> QED
      BY <2>1, <2>2
  <1> QED
    BY <1>2, <1>3 DEF Only

\* and fewer kinds than need be.
LEMMA OnlyWider ==
    ASSUME NEW s, NEW ids, NEW more, Only(s, ids), ids \subseteq more
    PROVE  Only(s, more)
  BY DEF Only

\* Nothing sent, and one message sent, as a queue extended.
LEMMA Extended ==
    ASSUME NEW q \in Seq(Message)
    PROVE  /\ q \o <<>> = q
           /\ \A x \in Message : Append(q, x) = q \o <<x>> /\ <<x>> \in Seq(Message)
           /\ \A s \in Seq(Message), t \in Seq(Message) : (q \o s) \o t = q \o (s \o t)
           /\ q # <<>> => Tail(q) \in Seq(Message)
  BY ConcatEmptySeq, AppendIsConcat, ConcatAssociative, HeadTailProperties

\* Nothing that is sent is about a stream.
LEMMA SentUnheard == \A s : Only(s, Sent) => Unheard(s)
  BY DEF Only, Sent, Unheard, StreamIds

\* Both disconnect requests, of links or of none.
LEMMA DisconnectsSent ==
    ASSUME LinksInv
    PROVE  /\ Only(DisconnectAllSlc, {"DISCONNECT_REQ"})
           /\ Only(IfConnected(DisconnectAllSlc), {"DISCONNECT_REQ"})
  <1>1. \A p : LinkWith(links, p) \in 0..2
    <2>1. \A p : LinkWith(links, p) = 0 \/ LinkWith(links, p) \in 1..NumLinks
      BY DEF LinksInv, LinksOf, LinkWith
    <2> QED
      BY <2>1, OneOrTwo
  <1>2. \A p : /\ DisconnectReq(LinkWith(links, p)) \in Message
               /\ DisconnectReq(LinkWith(links, p)).id = "DISCONNECT_REQ"
    BY <1>1, ConnectMessages
  <1>3. \A x \in Message, y \in Message : \A ids :
          x.id \in ids /\ y.id \in ids => Only(<<x, y>>, ids)
    BY DEF Only
  <1>4. Only(DisconnectAllSlc, {"DISCONNECT_REQ"})
    BY <1>2, <1>3 DEF DisconnectAllSlc
  <1> QED
    BY <1>4, OnlyEmpty DEF IfConnected

\* The report of an attempt that failed.
LEMMA FailureSent ==
    ASSUME LinksInv, NEW l \in 1..NumLinks, links[l].addr \in Phone
    PROVE  Only(Failed(l), {"SLC_CONNECT_CFM"}) /\ Len(Failed(l)) = 1
  <1>1. links[l].priority \in 0..2
    BY DEF LinksInv, LinksOf, LinkRecord
  <1>2. /\ ConnectCfm(FALSE, links[l].priority, links[l].addr) \in Message
        /\ ConnectCfm(FALSE, links[l].priority, links[l].addr).id = "SLC_CONNECT_CFM"
    BY <1>1, ConnectMessages
  <1>3. Len(Failed(l)) = 1
    BY DEF Failed
  <1> QED
    BY <1>2, <1>3, OnlyOne DEF Failed

-----------------------------------------------------------------------------
(* The end of a stream finds its link                                      *)

Typed ==
    /\ queue \in Seq(Message)
    /\ air \in [Phone -> {"none", "asked", "accepted", "up"}]

StreamInv == LinksInv /\ Typed /\ Streams

\* The stream of each phone after a step that sends s: what remains is the stream
\* over the messages left.
LEMMA StreamsAfter ==
    ASSUME NEW q \in Seq(Message), NEW s, Only(s, Sent), queue' = q \o s,
           air' \in [Phone -> {"none", "asked", "accepted", "up"}],
           LinksInv',
           \A b \in Phone : StreamOf(b, PhoneState(links', b), air'[b], q)
    PROVE  StreamInv'
  <1>1. s \in Seq(Message) /\ Unheard(s)
    BY SentUnheard DEF Only
  <1>2. queue' \in Seq(Message)
    BY <1>1, ConcatProperties
  <1>3. \A b \in Phone : StreamOf(b, PhoneState(links', b), air'[b], queue')
    BY <1>1, StreamExtended
  <1> QED
    BY <1>2, <1>3 DEF StreamInv, Typed, Streams

\* A step of which the streams hear nothing, and that leaves the links' states or
\* starts or gives up a search.
LEMMA StreamsQuiet ==
    ASSUME StreamInv, LinksInv', NEW s, Only(s, Sent), air' = air,
           \/ queue' = queue \o s
           \/ /\ queue # <<>> /\ Head(queue).id \notin StreamIds
              /\ queue' = Tail(queue) \o s,
           \A b \in Phone : \/ PhoneState(links', b) = PhoneState(links, b)
                            \/ {PhoneState(links, b), PhoneState(links', b)} \subseteq NoStream
                            \/ {PhoneState(links, b), PhoneState(links', b)} \subseteq Opened
    PROVE  StreamInv'
  <1>1. queue \in Seq(Message)
    BY DEF StreamInv, Typed
  <1>2. \A b \in Phone : StreamOf(b, PhoneState(links, b), air[b], queue)
    BY DEF StreamInv, Streams
  <1>3. \A b, at, q, st, su :
           /\ st = su \/ {st, su} \subseteq NoStream \/ {st, su} \subseteq Opened
           /\ StreamOf(b, st, at, q)
           => StreamOf(b, su, at, q)
    <2>1. NoStream \cap Opening = {} /\ NoStream \cap Opened = {} /\ Opening \cap Opened = {}
      BY DEF NoStream, Opening, Opened
    <2> QED
      BY <2>1 DEF StreamOf, Agreed, Answered, Ended, AnsweredEnded
  <1>4. \A b \in Phone : StreamOf(b, PhoneState(links', b), air[b], queue)
    BY <1>2, <1>3
  <1>5. ASSUME queue # <<>>, Head(queue).id \notin StreamIds
        PROVE  \A b \in Phone : StreamOf(b, PhoneState(links', b), air[b], Tail(queue))
    BY <1>1, <1>4, <1>5, StreamPassed
  <1>6. air' \in [Phone -> {"none", "asked", "accepted", "up"}]
    BY DEF StreamInv, Typed
  <1>7. queue # <<>> => Tail(queue) \in Seq(Message)
    BY <1>1, HeadTailProperties
  <1>8. CASE queue' = queue \o s
    BY <1>1, <1>4, <1>6, <1>8, StreamsAfter
  <1>9. CASE queue # <<>> /\ Head(queue).id \notin StreamIds /\ queue' = Tail(queue) \o s
    BY <1>5, <1>6, <1>7, <1>9, StreamsAfter
  <1> QED
    BY <1>8, <1>9

\* What the handlers of the application send, besides the search.
LEMMA ApplicationSends ==
    ASSUME LinksInv, queue \in Seq(Message),
           \/ HandlePowerOn \/ HandlePowerOff \/ HandleEnterPairing
           \/ PairingEnds \/ ConnectableTimeout
           \/ HandleConnectInd \/ HandleConnectCfmInLimbo
           \/ HandleConnectSuccess \/ HandleConnectFail \/ HandleDisconnectInd
    PROVE  /\ links' = links /\ air' = air
           /\ \E s : /\ Only(s, {"DISCONNECT_REQ", "ESTABLISH"})
                     /\ \/ queue' = queue \o s
                        \/ /\ queue # <<>> /\ Head(queue).id \notin StreamIds
                           /\ queue' = Tail(queue) \o s
                     /\ HandlePowerOn \/ Only(s, {"DISCONNECT_REQ"})
  <1> DEFINE both == {"DISCONNECT_REQ", "ESTABLISH"}
  <1>1. \A s : Only(s, {"DISCONNECT_REQ"}) => Only(s, both)
    BY DEF Only
  <1>2. queue \o <<>> = queue /\ (queue # <<>> => Tail(queue) \o <<>> = Tail(queue))
    BY Extended
  <1>3. Only(<<>>, {"DISCONNECT_REQ"}) /\ Only(<<>>, both)
    BY OnlyEmpty
  <1>4. CASE PairingEnds \/ ConnectableTimeout
    <2>1. queue' = queue /\ links' = links /\ air' = air
      BY <1>4 DEF PairingEnds, ConnectableTimeout, lib, stack
    <2> QED
      BY <1>2, <1>3, <2>1
  <1>5. CASE HandleConnectInd \/ HandleConnectSuccess \/ HandleConnectFail
             \/ HandleDisconnectInd
    <2>1. queue' = Tail(queue) /\ queue # <<>> /\ links' = links /\ air' = air
      BY <1>5 DEF HandleConnectInd, HandleConnectSuccess, HandleConnectFail,
         HandleDisconnectInd, Done, Receives, lib, stack
    <2>2. Head(queue).id \notin StreamIds
      BY <1>5 DEF HandleConnectInd, HandleConnectSuccess, HandleConnectFail,
         HandleDisconnectInd, Receives, StreamIds
    <2> QED
      BY <1>2, <1>3, <2>1, <2>2
  <1>6. CASE HandlePowerOff \/ HandleEnterPairing \/ HandleConnectCfmInLimbo
    <2>1. queue # <<>> /\ links' = links /\ air' = air
      BY <1>6 DEF HandlePowerOff, HandleEnterPairing, HandleConnectCfmInLimbo,
         Receives, lib, stack
    <2>2. Head(queue).id \notin StreamIds
      BY <1>6 DEF HandlePowerOff, HandleEnterPairing, HandleConnectCfmInLimbo,
         Receives, StreamIds
    <2>3. \/ queue' = Tail(queue) \/ queue' = Tail(queue) \o <<>>
          \/ queue' = Tail(queue) \o DisconnectAllSlc
          \/ queue' = Tail(queue) \o IfConnected(DisconnectAllSlc)
      BY <1>6 DEF HandlePowerOff, HandleEnterPairing, HandleConnectCfmInLimbo, Done, DoneAndSend
    <2> QED
      BY <1>1, <1>2, <1>3, <2>1, <2>2, <2>3, DisconnectsSent
  <1>7. CASE HandlePowerOn
    <2> DEFINE t == IF conf.AutoReconnectPowerOn THEN <<Plain("ESTABLISH")>> ELSE <<>>
               s == IfConnected(DisconnectAllSlc) \o t
    <2>1. queue # <<>> /\ links' = links /\ air' = air /\ Head(queue).id \notin StreamIds
      BY <1>7 DEF HandlePowerOn, Receives, StreamIds, lib, stack
    <2>2. queue' = Tail(queue) \o s
      BY <1>7 DEF HandlePowerOn, DoneAndSend
    <2>3. Only(<<Plain("ESTABLISH")>>, both)
      BY OtherMessages, OnlyOne DEF User
    <2>4. Only(t, both)
      BY <1>3, <2>3
    <2>5. Only(IfConnected(DisconnectAllSlc), both)
      BY <1>1, DisconnectsSent
    <2>6. Only(s, both)
      BY <2>4, <2>5, OnlyConcat
    <2> QED
      BY <1>7, <2>1, <2>2, <2>6
  <1> QED
    BY <1>4, <1>5, <1>6, <1>7

\* A request sets up a link for a phone that has none, or reports a failure.
LEMMA RequestSends ==
    ASSUME LinksInv, NEW a \in Phone, NEW rest \in Seq(Message),
           HfpSlcConnectRequest(a, rest)
    PROVE  \E s : /\ Only(s, {"SLC_CONNECT_CFM"}) /\ queue' = rest \o s
                  /\ \/ Len(s) = 1 /\ links' = links
                     \/ \E l \in 1..NumLinks :
                           /\ links[l].state = "idle" /\ \A k \in 1..NumLinks : links[k].addr # a
                           /\ links' = Setup(links, l, a, "searching")
  <1>1. CASE LinkOf(a) # 0 \/ IdleOne = 0
    <2> DEFINE x == ConnectCfm(FALSE, 0, a)
    <2>1. x \in Message /\ x.id = "SLC_CONNECT_CFM"
      <3>1. 0 \in 0..2
        OBVIOUS
      <3> QED
        BY <3>1, ConnectMessages, Zenon
    <2>2. queue' = Append(rest, x) /\ links' = links
      BY <1>1 DEF HfpSlcConnectRequest
    <2> HIDE DEF x
    <2>3. Only(<<x>>, {"SLC_CONNECT_CFM"}) /\ queue' = rest \o <<x>> /\ Len(<<x>>) = 1
      BY <2>1, <2>2, OnlyOne, Extended
    <2> QED
      BY <2>2, <2>3
  <1>2. CASE LinkOf(a) = 0 /\ IdleOne # 0
    <2>1. links' = Setup(links, IdleOne, a, "searching") /\ queue' = rest
      BY <1>2 DEF HfpSlcConnectRequest
    <2>2. \A k \in 1..NumLinks : links[k].addr # a
      BY <1>2, LinkOfPhone DEF LinksInv
    <2>3. IdleOne \in 1..NumLinks /\ links[IdleOne].state = "idle"
      BY <1>2, IdleOneIdle DEF LinksInv
    <2>4. Only(<<>>, {"SLC_CONNECT_CFM"}) /\ queue' = rest \o <<>>
      BY <2>1, OnlyEmpty, Extended
    <2> QED
      BY <2>1, <2>2, <2>3, <2>4
  <1> QED
    BY <1>1, <1>2

\* An attempt requests a phone's link or leaves the next entry to a message.
LEMMA AttemptSends ==
    ASSUME LinksInv, NEW id, NEW pending \in Nat, NEW rest \in Seq(Message),
           AttemptConnection(id, pending, rest)
    PROVE  \E s : /\ Only(s, {"SLC_CONNECT_CFM"}) /\ queue' = rest \o s
                  /\ \/ Len(s) = 1 /\ links' = links /\ continues' = pending
                     \/ \E a \in Phone, l \in 1..NumLinks :
                           /\ links[l].state = "idle" /\ \A k \in 1..NumLinks : links[k].addr # a
                           /\ links' = Setup(links, l, a, "searching")
                           /\ continues' = pending
                     \/ /\ ~(id < Len(pdl) /\ pdl[id + 1] \in conf.Profiled)
                        /\ s = <<>> /\ links' = links /\ continues' \in Nat \ {0}
  <1>1. conf.Profiled \subseteq Phone
    BY ConfigurationAssumption DEF LinksInv
  <1>2. CASE id < Len(pdl) /\ pdl[id + 1] \in conf.Profiled
    <2>1. /\ HfpSlcConnectRequest(pdl[id + 1], rest) /\ continues' = pending
          /\ pdl[id + 1] \in Phone
      BY <1>1, <1>2 DEF AttemptConnection
    <2> HIDE DEF AttemptConnection
    <2>2. PICK s : /\ Only(s, {"SLC_CONNECT_CFM"}) /\ queue' = rest \o s
                   /\ \/ Len(s) = 1 /\ links' = links
                      \/ \E l \in 1..NumLinks :
                            /\ links[l].state = "idle"
                            /\ \A k \in 1..NumLinks : links[k].addr # pdl[id + 1]
                            /\ links' = Setup(links, l, pdl[id + 1], "searching")
      BY <2>1, RequestSends
    <2> QED
      BY <2>1, <2>2
  <1>3. CASE ~(id < Len(pdl) /\ pdl[id + 1] \in conf.Profiled)
    <2>1. queue' = rest /\ links' = links /\ continues' \in Nat \ {0}
      BY <1>3 DEF AttemptConnection
    <2>2. Only(<<>>, {"SLC_CONNECT_CFM"}) /\ queue' = rest \o <<>>
      BY <2>1, OnlyEmpty, Extended
    <2> QED
      BY <1>3, <2>1, <2>2
  <1> QED
    BY <1>2, <1>3

\* What the invariant of a step needs of the links, whatever the step.
LEMMA LinksKept ==
    ASSUME LinksInv, [Next]_vars
    PROVE  LinksInv' /\ NumLinks' = NumLinks /\ LinksOf(NumLinks, links')
  <1>1. LinksInv'
    BY NextLinks
  <1>2. conf' = conf
    <2>1. CASE UNCHANGED vars
      BY <2>1 DEF vars
    <2>2. CASE Next
      BY <2>2, ApplicationKeeps, LibraryKeeps, OutsideKeeps DEF Next, Keeps
    <2> QED
      BY <2>1, <2>2
  <1>3. NumLinks' = NumLinks
    BY <1>2 DEF NumLinks
  <1> QED
    BY <1>1, <1>3 DEF LinksInv, LinksOf

\* A search set up starts with no stream.
LEMMA StreamsSearch ==
    ASSUME StreamInv, LinksInv', NEW s, Only(s, Sent), air' = air,
           \/ queue' = queue \o s
           \/ /\ queue # <<>> /\ Head(queue).id \notin StreamIds
              /\ queue' = Tail(queue) \o s,
           \/ links' = links
           \/ \E a \in Phone, l \in 1..NumLinks :
                 /\ links[l].state = "idle" /\ \A k \in 1..NumLinks : links[k].addr # a
                 /\ links' = Setup(links, l, a, "searching")
    PROVE  StreamInv'
  <1>1. CASE links' = links
    BY <1>1, StreamsQuiet
  <1>2. ASSUME NEW a \in Phone, NEW l \in 1..NumLinks, links[l].state = "idle",
               \A k \in 1..NumLinks : links[k].addr # a,
               links' = Setup(links, l, a, "searching")
        PROVE  StreamInv'
    <2>1. "searching" \in Active /\ LinksOf(NumLinks, links)
      BY DEF Active, StreamInv, LinksInv
    <2>2. \A b \in Phone : PhoneState(links', b) = IF b = a THEN "searching"
                                                  ELSE PhoneState(links, b)
      BY <1>2, <2>1, OneOrTwo, StateSetup
    <2>3. PhoneState(links, a) = "idle"
      BY <1>2, <2>1, OneOrTwo, PhoneStateIs
    <2>4. {"idle", "searching"} \subseteq NoStream
      BY DEF NoStream
    <2> QED
      BY <2>2, <2>3, <2>4, StreamsQuiet
  <1> QED
    BY <1>1, <1>2

\* The application's handlers touch no stream.
LEMMA ApplicationStreams ==
    ASSUME StreamInv, LinksInv', continues \in Nat,
           \/ HandlePowerOn \/ HandlePowerOff \/ HandleEnterPairing
           \/ PairingEnds \/ ConnectableTimeout \/ HandleEstablish \/ Continue
           \/ HandleConnectInd \/ HandleConnectCfmInLimbo
           \/ HandleConnectSuccess \/ HandleConnectFail \/ HandleDisconnectInd
    PROVE  StreamInv'
  <1>1. queue \in Seq(Message) /\ LinksInv
    BY DEF StreamInv, Typed
  <1>2. queue # <<>> => Tail(queue) \in Seq(Message)
    BY <1>1, Extended
  <1>3. \A s : \/ Only(s, {"DISCONNECT_REQ", "ESTABLISH"})
               \/ Only(s, {"SLC_CONNECT_CFM"}) \/ Only(s, {"ENTER_PAIRING"})
               => Only(s, Sent)
    BY DEF Only, Sent
  <1>4. CASE HandleEstablish
    <2>1. air' = air /\ queue # <<>> /\ Head(queue).id \notin StreamIds
      BY <1>4 DEF HandleEstablish, Receives, StreamIds
    <2>2. CASE queue' = Tail(queue) /\ links' = links
      <3>1. Only(<<>>, Sent) /\ queue' = Tail(queue) \o <<>>
        BY <1>2, <2>1, <2>2, OnlyEmpty, Extended
      <3> QED
        BY <2>1, <2>2, <3>1, StreamsQuiet
    <2>3. ASSUME NEW id, AttemptConnection(id, continues, Tail(queue))
          PROVE  StreamInv'
      BY <1>1, <1>2, <1>3, <2>1, <2>3, AttemptSends, StreamsSearch
    <2> QED
      BY <1>4, <2>2, <2>3 DEF HandleEstablish, Done
  <1>5. CASE Continue
    <2>1. air' = air /\ continues - 1 \in Nat
      BY <1>5 DEF Continue
    <2>2. CASE queue' = queue /\ links' = links
      <3>1. Only(<<>>, Sent) /\ queue' = queue \o <<>>
        BY <1>1, <2>2, OnlyEmpty, Extended
      <3> QED
        BY <2>1, <2>2, <3>1, StreamsQuiet
    <2>3. CASE queue' = Append(queue, Plain("ENTER_PAIRING")) /\ links' = links
      <3>1. Plain("ENTER_PAIRING") \in Message /\ Plain("ENTER_PAIRING").id = "ENTER_PAIRING"
        BY OtherMessages DEF User
      <3>2. Only(<<Plain("ENTER_PAIRING")>>, Sent)
        BY <1>3, <3>1, OnlyOne
      <3>3. queue' = queue \o <<Plain("ENTER_PAIRING")>>
        BY <1>1, <2>3, <3>1, Extended
      <3> QED
        BY <2>1, <2>3, <3>2, <3>3, StreamsQuiet
    <2>4. ASSUME NEW id, AttemptConnection(id, continues - 1, queue)
          PROVE  StreamInv'
      BY <1>1, <1>3, <2>1, <2>4, AttemptSends, StreamsSearch
    <2> QED
      BY <1>5, <2>2, <2>3, <2>4 DEF Continue, ContinueSearch
  <1>6. CASE ~HandleEstablish /\ ~Continue
    BY <1>1, <1>3, <1>6, ApplicationSends, StreamsQuiet
  <1> QED
    BY <1>4, <1>5, <1>6

\* The library's links are those whose phones the streams are with.
LEMMA PhoneOfLink ==
    ASSUME LinksInv, NEW a \in Phone
    PROVE  /\ LinkOf(a) = 0 => PhoneState(links, a) = "idle"
           /\ LinkOf(a) # 0 => /\ LinkOf(a) \in 1..NumLinks
                               /\ links[LinkOf(a)].addr = a
                               /\ links[LinkOf(a)].state # "idle"
                               /\ PhoneState(links, a) = links[LinkOf(a)].state
  <1>1. LinksOf(NumLinks, links)
    BY DEF LinksInv
  <1>2. CASE LinkOf(a) = 0
    BY <1>1, <1>2, LinkOfPhone, PhoneStateIs, OneOrTwo
  <1>3. CASE LinkOf(a) # 0
    <2>1. LinkOf(a) \in 1..NumLinks /\ links[LinkOf(a)].addr = a
      BY <1>1, <1>3, LinkOfPhone
    <2>2. links[LinkOf(a)].state # "idle"
      BY <1>1, <2>1, PhoneAssumption DEF LinksOf
    <2>3. PhoneState(links, a) = links[LinkOf(a)].state
      BY <1>1, <2>1, OneOrTwo, PhoneStateIs
    <2> QED
      BY <1>3, <2>1, <2>2, <2>3
  <1> QED
    BY <1>2, <1>3

\* The states of all phones after a link is given up.
LEMMA StatesReset ==
    ASSUME LinksInv, NEW l \in 1..NumLinks, links' = Reset(links, l)
    PROVE  \A b \in Phone : PhoneState(links', b) =
               IF b = links[l].addr THEN "idle" ELSE PhoneState(links, b)
  BY OneOrTwo, StateReset DEF LinksInv

\* And after one goes on.
LEMMA StatesMove ==
    ASSUME LinksInv, NEW l \in 1..NumLinks, links[l].state # "idle",
           NEW s \in State, s # "idle"
    PROVE  links' = [links EXCEPT ![l].state = s] =>
               \A b \in Phone : PhoneState(links', b) =
                   IF b = links[l].addr THEN s ELSE PhoneState(links, b)
  <1>1. LinksOf(NumLinks, links) /\ NumLinks \in {1, 2}
    BY OneOrTwo DEF LinksInv
  <1>2. DOMAIN links = 1..NumLinks /\ \A k \in 1..NumLinks : links[k] \in LinkRecord
    BY <1>1 DEF LinksOf
  <1> DEFINE Moved == /\ LinksOf(NumLinks, links')
                      /\ \A k \in 1..NumLinks :
                            /\ links'[k].addr = links[k].addr
                            /\ links'[k].state = IF k = l THEN s ELSE links[k].state
  <1>3. ASSUME links' = [links EXCEPT ![l].state = s] PROVE Moved
    <2>1. LinksOf(NumLinks, links')
      BY <1>1, <1>3, MovesKeeps
    <2> QED
      BY <1>2, <1>3, <2>1 DEF LinkRecord
  <1>4. ASSUME Moved, NEW b \in Phone
        PROVE  PhoneState(links', b) = IF b = links[l].addr THEN s ELSE PhoneState(links, b)
    BY <1>1, <1>4, StateMoves
  <1> HIDE DEF Moved
  <1> QED
    BY <1>3, <1>4, Zenon

\* A disconnect request gives up a search or asks BlueStack to end a stream.
LEMMA DisconnectStreams ==
    ASSUME StreamInv, LinksInv', HandleDisconnectReq
    PROVE  StreamInv'
  <1>1. queue \in Seq(Message) /\ LinksInv /\ DOMAIN links = 1..NumLinks
    BY DEF StreamInv, Typed, LinksInv, LinksOf
  <1>2. air' = air /\ queue # <<>> /\ Head(queue).id \notin StreamIds
    BY DEF HandleDisconnectReq, Receives, StreamIds
  <1>3. Tail(queue) \in Seq(Message)
    BY <1>1, <1>2, Extended
  <1>4. CASE links' = links /\ queue' = Tail(queue)
    <2>1. Only(<<>>, Sent) /\ queue' = Tail(queue) \o <<>>
      BY <1>3, <1>4, OnlyEmpty, Extended
    <2> QED
      BY <1>2, <1>4, <2>1, StreamsQuiet
  <1>5. CASE links' = links /\ queue' = Tail(queue) \o <<DisconnectInd("no_slc", 0, NULL)>>
    <2> DEFINE x == DisconnectInd("no_slc", 0, NULL)
    <2>1. 0 \in 0..2 /\ "no_slc" \in Status \cup {"no_slc"} /\ NULL \in Phone \cup {NULL}
      OBVIOUS
    <2>2. x \in Message /\ x.id = "SLC_DISCONNECT_IND"
      BY <2>1, ConnectMessages, Zenon
    <2> HIDE DEF x
    <2>3. Only(<<x>>, Sent)
      BY <2>2, OnlyOne DEF Sent
    <2> QED
      BY <1>2, <1>5, <2>3, StreamsQuiet DEF x
  <1>6. ASSUME NEW l \in 1..NumLinks, links[l].state = "searching",
               links' = Reset(links, l), queue' = Tail(queue) \o Failed(l)
        PROVE  StreamInv'
    <2>1. links[l].addr \in Phone
      BY <1>1, <1>6 DEF LinksInv, LinksOf, LinkRecord
    <2>2. Only(Failed(l), Sent)
      BY <1>1, <2>1, FailureSent, OnlyWider DEF Sent
    <2>3. PhoneState(links, links[l].addr) = "searching"
      BY <1>1, <1>6, <2>1, OneOrTwo, PhoneStateIs DEF LinksInv
    <2>4. {"idle", "searching"} \subseteq NoStream
      BY DEF NoStream
    <2>5. \A b \in Phone : \/ PhoneState(links', b) = PhoneState(links, b)
                           \/ {PhoneState(links, b), PhoneState(links', b)} \subseteq NoStream
      BY <1>1, <1>6, <2>3, <2>4, StatesReset
    <2> QED
      BY <1>2, <1>6, <2>2, <2>5, StreamsQuiet
  <1>7. PICK l \in DOMAIN links \cup {0} :
          \/ links' = links /\ queue' = Tail(queue)
          \/ links' = links /\ queue' = Tail(queue) \o <<DisconnectInd("no_slc", 0, NULL)>>
          \/ /\ l # 0 /\ links[l].state = "searching"
             /\ links' = Reset(links, l) /\ queue' = Tail(queue) \o Failed(l)
    BY DEF HandleDisconnectReq, Done, DoneAndSend
  <1> QED
    BY <1>1, <1>4, <1>5, <1>6, <1>7

\* The result of a search opens a stream, which the phone did not have.
LEMMA SearchStreams ==
    ASSUME StreamInv, LinksInv', HandleSdpCfm
    PROVE  StreamInv'
  <1> DEFINE a == Head(queue).addr
             l == LinkOf(a)
  <1>1. queue \in Seq(Message) /\ LinksInv /\ air \in [Phone -> {"none", "asked", "accepted", "up"}]
    BY DEF StreamInv, Typed
  <1>2. queue # <<>> /\ Head(queue).id = "SDP_CFM" /\ Head(queue).id \notin StreamIds
    BY DEF HandleSdpCfm, Receives, StreamIds
  <1>3. Tail(queue) \in Seq(Message) /\ Head(queue) \in Message
    BY <1>1, <1>2, HeadTailProperties
  <1>4. a \in Phone
    BY <1>2, <1>3, PhoneNamed
  <1>5. CASE links' = links /\ air' = air /\ queue' = Tail(queue)
    <2>1. Only(<<>>, Sent) /\ queue' = Tail(queue) \o <<>>
      BY <1>3, <1>5, OnlyEmpty, Extended
    <2> QED
      BY <1>2, <1>5, <2>1, StreamsQuiet
  <1>6. CASE l # 0 /\ links[l].state = "searching"
    <2>1. l \in 1..NumLinks /\ links[l].addr = a /\ PhoneState(links, a) = "searching"
      BY <1>1, <1>4, <1>6, PhoneOfLink
    <2>2. CASE links' = Reset(links, l) /\ air' = air /\ queue' = Tail(queue) \o Failed(l)
      <3>1. Only(Failed(l), Sent)
        BY <1>1, <1>4, <2>1, FailureSent, OnlyWider DEF Sent
      <3>2. {"idle", "searching"} \subseteq NoStream
        BY DEF NoStream
      <3>3. \A b \in Phone : \/ PhoneState(links', b) = PhoneState(links, b)
                             \/ {PhoneState(links, b), PhoneState(links', b)} \subseteq NoStream
        BY <1>1, <2>1, <2>2, <3>2, StatesReset
      <3> QED
        BY <1>2, <2>2, <3>1, <3>3, StreamsQuiet
    <2>3. CASE /\ links' = [links EXCEPT ![l].state = "outgoing"]
               /\ air' = [air EXCEPT ![a] = "asked"] /\ queue' = Tail(queue)
      <3>1. "outgoing" \in State /\ LinksOf(NumLinks, links)
        BY <1>1 DEF State, Active, LinksInv
      <3>2. \A b \in Phone : PhoneState(links', b) = IF b = a THEN "outgoing"
                                                    ELSE PhoneState(links, b)
        BY ZenonT(40), <1>1, <1>6, <2>1, <2>3, <3>1, StatesMove
      <3>3. \A b \in Phone : StreamOf(b, PhoneState(links, b), air[b], Tail(queue))
        BY <1>1, <1>2, StreamPassed DEF StreamInv, Streams
      <3>4. Heard(Tail(queue), a) = {}
        BY <1>4, <2>1, <3>3
        DEF StreamOf, Agreed, Answered, Ended, AnsweredEnded, Opening, Opened
      <3>5. StreamOf(a, "outgoing", "asked", Tail(queue))
        BY <3>4 DEF StreamOf, Agreed, Opening
      <3>6. \A b \in Phone : StreamOf(b, PhoneState(links', b), air'[b], Tail(queue))
        BY <1>1, <2>3, <3>2, <3>3, <3>5
      <3>7. air' \in [Phone -> {"none", "asked", "accepted", "up"}]
        BY <1>1, <2>3
      <3>8. Only(<<>>, Sent) /\ queue' = Tail(queue) \o <<>>
        BY <1>3, <2>3, OnlyEmpty, Extended
      <3> QED
        BY <1>3, <3>6, <3>7, <3>8, StreamsAfter
    <2> QED
      BY <1>6, <2>2, <2>3 DEF HandleSdpCfm, Done, DoneAndSend, m
  <1> QED
    BY <1>5, <1>6 DEF HandleSdpCfm, Done, m

\* The answer of BlueStack connects the link or gives it up.
LEMMA AnswerStreams ==
    ASSUME StreamInv, LinksInv', HandleRfcConnectCfm
    PROVE  StreamInv'
  <1>1. queue \in Seq(Message) /\ LinksInv /\ air \in [Phone -> {"none", "asked", "accepted", "up"}]
    BY DEF StreamInv, Typed
  <1>2. queue # <<>> /\ air' = air
    BY DEF HandleRfcConnectCfm, Receives, stack
  <1>3. Tail(queue) \in Seq(Message) /\ Head(queue) \in Message
    BY <1>1, <1>2, HeadTailProperties
  <1>4. PICK a \in Phone, ok \in BOOLEAN :
          /\ Head(queue) = Answer("RFC_CONNECT_CFM", a, ok)
          /\ IF LinkOf(a) = 0 THEN queue' = Tail(queue) /\ links' = links
             ELSE IF ok THEN links' = [links EXCEPT ![LinkOf(a)].state = "connected"]
                             /\ queue' = Tail(queue)
             ELSE links' = Reset(links, LinkOf(a)) /\ queue' = Tail(queue) \o Failed(LinkOf(a))
    BY DEF HandleRfcConnectCfm, Done, DoneAndSend, m
  <1>5. Head(queue).id = "RFC_CONNECT_CFM" /\ Head(queue).addr = a /\ Head(queue).ok = ok
    BY <1>4 DEF Answer
  <1>6. /\ PhoneState(links, a) \in Opening
        /\ ok => StreamOf(a, "connected", air[a], Tail(queue))
        /\ ~ok => StreamOf(a, "idle", air[a], Tail(queue))
    BY <1>1, <1>2, <1>5, StreamAnswerHeard DEF StreamInv, Streams
  <1>7. \A b \in Phone : b # a => StreamOf(b, PhoneState(links, b), air[b], Tail(queue))
    BY <1>1, <1>2, <1>5, StreamPassed DEF StreamInv, Streams
  <1> DEFINE l == LinkOf(a)
  <1>8. /\ l \in 1..NumLinks /\ l # 0 /\ links[l].addr = a /\ links[l].state # "idle"
    BY <1>1, <1>6, PhoneOfLink DEF Opening
  <1> HIDE DEF l
  <1>9. CASE ok
    <2>1. links' = [links EXCEPT ![l].state = "connected"] /\ queue' = Tail(queue)
      BY <1>4, <1>8, <1>9 DEF l
    <2>2. "connected" \in State /\ LinksOf(NumLinks, links)
      BY <1>1 DEF State, Active, LinksInv
    <2>3. \A b \in Phone : PhoneState(links', b) = IF b = a THEN "connected"
                                                  ELSE PhoneState(links, b)
      BY <1>1, <1>8, <2>1, <2>2, StatesMove
    <2>4. \A b \in Phone : StreamOf(b, PhoneState(links', b), air'[b], Tail(queue))
      BY <1>2, <1>6, <1>7, <1>9, <2>3
    <2>5. Only(<<>>, Sent) /\ queue' = Tail(queue) \o <<>>
      BY <1>3, <2>1, OnlyEmpty, Extended
    <2> QED
      BY <1>1, <1>2, <1>3, <2>4, <2>5, StreamsAfter
  <1>10. CASE ~ok
    <2>1. links' = Reset(links, l) /\ queue' = Tail(queue) \o Failed(l)
      BY <1>4, <1>8, <1>10 DEF l
    <2>2. \A b \in Phone : PhoneState(links', b) = IF b = a THEN "idle" ELSE PhoneState(links, b)
      BY <1>1, <1>8, <2>1, StatesReset
    <2>3. \A b \in Phone : StreamOf(b, PhoneState(links', b), air'[b], Tail(queue))
      BY <1>2, <1>6, <1>7, <1>10, <2>2
    <2>4. Only(Failed(l), Sent)
      BY <1>1, <1>8, FailureSent, OnlyWider DEF Sent
    <2> QED
      BY <1>1, <1>2, <1>3, <2>1, <2>3, <2>4, StreamsAfter
  <1> QED
    BY <1>9, <1>10

\* The end of a stream finds its link and gives it up.
LEMMA EndStreams ==
    ASSUME StreamInv, LinksInv', HandleRfcDisconnect
    PROVE  StreamInv'
  <1> DEFINE a == Head(queue).addr
             l == LinkOf(a)
  <1>1. queue \in Seq(Message) /\ LinksInv /\ air \in [Phone -> {"none", "asked", "accepted", "up"}]
    BY DEF StreamInv, Typed
  <1>2. /\ queue # <<>> /\ air' = air /\ Head(queue).id = "RFC_DISCONNECT"
        /\ links' = Reset(links, l)
    BY DEF HandleRfcDisconnect, Receives, stack, m
  <1>3. Tail(queue) \in Seq(Message) /\ Head(queue) \in Message
    BY <1>1, <1>2, HeadTailProperties
  <1>4. a \in Phone /\ Head(queue).status \in Status
    BY <1>2, <1>3 DEF Message, User
  <1>5. PhoneState(links, a) \in Opened /\ StreamOf(a, "idle", air[a], Tail(queue))
    BY <1>1, <1>2, <1>4, StreamEndHeard DEF StreamInv, Streams
  <1>6. \A b \in Phone : b # a => StreamOf(b, PhoneState(links, b), air[b], Tail(queue))
    BY <1>1, <1>2, StreamPassed DEF StreamInv, Streams
  <1>7. l \in 1..NumLinks /\ links[l].addr = a
    BY <1>1, <1>4, <1>5, PhoneOfLink DEF Opened
  <1>8. \A b \in Phone : PhoneState(links', b) = IF b = a THEN "idle" ELSE PhoneState(links, b)
    BY <1>1, <1>2, <1>7, StatesReset
  <1>9. \A b \in Phone : StreamOf(b, PhoneState(links', b), air'[b], Tail(queue))
    BY <1>2, <1>5, <1>6, <1>8
  <1> DEFINE x == DisconnectInd(Head(queue).status, links[l].priority, a)
  <1>10. Only(Failed(l), Sent)
    BY <1>1, <1>4, <1>7, FailureSent, OnlyWider DEF Sent
  <1>11. Only(<<x>>, Sent)
    <2>1. links[l].priority \in 0..2
      BY <1>1, <1>7 DEF LinksInv, LinksOf, LinkRecord
    <2>2. x \in Message /\ x.id = "SLC_DISCONNECT_IND"
      BY <1>4, <2>1, ConnectMessages
    <2> QED
      BY <2>2, OnlyOne DEF Sent
  <1>12. queue' = Tail(queue) \o Failed(l) \/ queue' = Tail(queue) \o <<x>>
    BY DEF HandleRfcDisconnect, DoneAndSend, m
  <1> QED
    BY <1>1, <1>2, <1>3, <1>9, <1>10, <1>11, <1>12, StreamsAfter

\* The last answer of the AT exchange completes a connected link.
LEMMA CompleteStreams ==
    ASSUME StreamInv, LinksInv', HandleAtComplete
    PROVE  StreamInv'
  <1> DEFINE a == Head(queue).addr
             l == LinkOf(a)
  <1>1. queue \in Seq(Message) /\ LinksInv
    BY DEF StreamInv, Typed
  <1>2. /\ queue # <<>> /\ air' = air /\ Head(queue).id = "AT_COMPLETE"
        /\ Head(queue).id \notin StreamIds
    BY DEF HandleAtComplete, Receives, stack, StreamIds
  <1>3. Tail(queue) \in Seq(Message) /\ Head(queue) \in Message
    BY <1>1, <1>2, HeadTailProperties
  <1>4. a \in Phone
    BY <1>2, <1>3, PhoneNamed
  <1>5. CASE links' = links /\ queue' = Tail(queue)
    <2>1. Only(<<>>, Sent) /\ queue' = Tail(queue) \o <<>>
      BY <1>3, <1>5, OnlyEmpty, Extended
    <2> QED
      BY <1>2, <1>5, <2>1, StreamsQuiet
  <1> DEFINE x == ConnectCfm(TRUE, links[l].priority, a)
  <1>6. CASE /\ l # 0 /\ links[l].state = "connected"
             /\ links' = [links EXCEPT ![l].state = "complete"]
             /\ queue' = Tail(queue) \o <<x>>
    <2>1. l \in 1..NumLinks /\ links[l].addr = a /\ PhoneState(links, a) = "connected"
      BY <1>1, <1>4, <1>6, PhoneOfLink
    <2>2. x \in Message /\ x.id = "SLC_CONNECT_CFM"
      <3>1. links[l].priority \in 0..2
        BY <1>1, <2>1 DEF LinksInv, LinksOf, LinkRecord
      <3> QED
        BY <1>4, <3>1, ConnectMessages
    <2>3. Only(<<x>>, Sent)
      BY <2>2, OnlyOne DEF Sent
    <2>4. "complete" \in State /\ LinksOf(NumLinks, links) /\ {"connected", "complete"} \subseteq Opened
      BY <1>1 DEF State, LinksInv, Opened
    <2>5. \A b \in Phone : PhoneState(links', b) = IF b = a THEN "complete"
                                                  ELSE PhoneState(links, b)
      BY <1>1, <1>6, <2>1, <2>4, StatesMove
    <2> HIDE DEF x
    <2> QED
      BY <1>2, <1>6, <2>1, <2>3, <2>4, <2>5, StreamsQuiet
  <1> QED
    BY <1>5, <1>6 DEF HandleAtComplete, Done, DoneAndSend, m

\* A call accepted opens a stream, which the phone did not have.
LEMMA AcceptStreams ==
    ASSUME StreamInv, LinksInv', NEW a \in Phone, NEW rest \in Seq(Message),
           \A b \in Phone : StreamOf(b, PhoneState(links, b), air[b], rest),
           PhoneState(links, a) \in NoStream,
           \A b \in Phone : PhoneState(links', b) = IF b = a THEN "incoming"
                                                   ELSE PhoneState(links, b),
           air' = [air EXCEPT ![a] = "accepted"],
           NEW s, Only(s, Sent), queue' = rest \o s
    PROVE  StreamInv'
  <1>1. air \in [Phone -> {"none", "asked", "accepted", "up"}]
    BY DEF StreamInv, Typed
  <1>2. air' \in [Phone -> {"none", "asked", "accepted", "up"}] /\ air'[a] = "accepted"
        /\ \A b \in Phone : b # a => air'[b] = air[b]
    BY <1>1
  <1>3. Heard(rest, a) = {}
    <2>1. StreamOf(a, PhoneState(links, a), air[a], rest)
      OBVIOUS
    <2> QED
      BY <2>1 DEF StreamOf, Agreed, Answered, Ended, AnsweredEnded, NoStream, Opening, Opened
  <1>4. StreamOf(a, "incoming", "accepted", rest)
    BY <1>3 DEF StreamOf, Agreed, Opening
  <1>5. \A b \in Phone : StreamOf(b, PhoneState(links', b), air'[b], rest)
    BY <1>2, <1>4
  <1> QED
    BY <1>2, <1>5, StreamsAfter

\* The states of all phones when the link that is idle, or that a search gives up,
\* takes the call of phone a.
LEMMA StatesAccept ==
    ASSUME LinksInv, NEW a \in Phone, NEW l \in 1..NumLinks
    PROVE  /\ /\ links[l].state = "idle" /\ \A k \in 1..NumLinks : links[k].addr # a
              /\ links' = Setup(links, l, a, "incoming")
              => \A b \in Phone : PhoneState(links', b) =
                     IF b = a THEN "incoming" ELSE PhoneState(links, b)
           /\ /\ links[l].addr = a
              /\ links' = Setup(Reset(links, l), l, a, "incoming")
              => \A b \in Phone : PhoneState(links', b) =
                     IF b = a THEN "incoming" ELSE PhoneState(links, b)
  <1>1. LinksOf(NumLinks, links) /\ NumLinks \in {1, 2} /\ "incoming" \in Active
    BY OneOrTwo DEF LinksInv, Active
  <1>2. ASSUME links[l].state = "idle", \A k \in 1..NumLinks : links[k].addr # a,
               NEW b \in Phone
        PROVE  PhoneState(Setup(links, l, a, "incoming"), b) =
                   IF b = a THEN "incoming" ELSE PhoneState(links, b)
    BY <1>1, <1>2, StateSetup
  <1>3. ASSUME links[l].addr = a, NEW b \in Phone
        PROVE  PhoneState(Setup(Reset(links, l), l, a, "incoming"), b) =
                   IF b = a THEN "incoming" ELSE PhoneState(links, b)
    <2> DEFINE rs == Reset(links, l)
    <2>1. /\ LinksOf(NumLinks, rs) /\ rs[l].state = "idle" /\ rs[l].addr = NULL
          /\ \A k \in 1..NumLinks : k # l => rs[k].addr = links[k].addr
      BY <1>1, ResetKeeps
    <2>2. \A k \in 1..NumLinks : k # l => links[k].addr # a
      BY <1>1, <1>3, PhoneAssumption DEF LinksOf
    <2>3. \A k \in 1..NumLinks : rs[k].addr # a
      BY <2>1, <2>2, PhoneAssumption
    <2>4. PhoneState(rs, b) = IF b = a THEN "idle" ELSE PhoneState(links, b)
      BY <1>1, <1>3, StateReset
    <2> HIDE DEF rs
    <2>5. PhoneState(Setup(rs, l, a, "incoming"), b) =
              IF b = a THEN "incoming" ELSE PhoneState(rs, b)
      BY <1>1, <2>1, <2>3, StateSetup
    <2>6. PhoneState(Setup(rs, l, a, "incoming"), b) =
              IF b = a THEN "incoming" ELSE PhoneState(links, b)
      BY <2>4, <2>5
    <2> QED
      BY <2>6 DEF rs
  <1> QED
    BY <1>2, <1>3, Zenon

\* A call is refused, waits, or opens a stream.
LEMMA CallStreams ==
    ASSUME StreamInv, LinksInv', NEW a \in Phone, NEW rest \in Seq(Message),
           \/ rest = queue
           \/ queue # <<>> /\ Head(queue).id \notin StreamIds /\ rest = Tail(queue),
           ConnectIndFrom(a, rest)
    PROVE  StreamInv'
  <1> DEFINE l == LinkOf(a)
             told == <<Plain("SLC_CONNECT_IND")>>
  <1>1. queue \in Seq(Message) /\ LinksInv
    BY DEF StreamInv, Typed
  <1>2. \A b \in Phone : StreamOf(b, PhoneState(links, b), air[b], rest)
    BY <1>1, StreamPassed DEF StreamInv, Streams
  <1>3. Only(told, Sent)
    BY OtherMessages, OnlyOne DEF Sent
  <1>4. CASE links' = links /\ air' = air /\ queue' = rest
    <2>1. Only(<<>>, Sent) /\ queue' = rest \o <<>>
      BY <1>4, OnlyEmpty, Extended
    <2> QED
      BY <1>4, <2>1, StreamsQuiet
  <1>5. CASE /\ l = 0 /\ IdleOne # 0
             /\ links' = Setup(links, IdleOne, a, "incoming")
             /\ air' = [air EXCEPT ![a] = "accepted"]
             /\ queue' = (rest \o <<>>) \o told
    <2>1. IdleOne \in 1..NumLinks /\ links[IdleOne].state = "idle"
      BY <1>1, <1>5, IdleOneIdle DEF LinksInv
    <2>2. \A k \in 1..NumLinks : links[k].addr # a
      BY <1>1, <1>5, LinkOfPhone DEF LinksInv
    <2>3. \A b \in Phone : PhoneState(links', b) =
              IF b = a THEN "incoming" ELSE PhoneState(links, b)
      BY <1>1, <1>5, <2>1, <2>2, StatesAccept
    <2>4. PhoneState(links, a) \in NoStream
      BY <1>1, <1>5, PhoneOfLink DEF NoStream
    <2>5. queue' = rest \o told
      BY <1>5, Extended
    <2> QED
      BY <1>2, <1>3, <1>5, <2>3, <2>4, <2>5, AcceptStreams
  <1>6. CASE /\ l # 0 /\ links[l].state = "searching"
             /\ links' = Setup(Reset(links, l), l, a, "incoming")
             /\ air' = [air EXCEPT ![a] = "accepted"]
             /\ queue' = (rest \o Failed(l)) \o told
    <2>1. l \in 1..NumLinks /\ links[l].addr = a /\ PhoneState(links, a) = "searching"
      BY <1>1, <1>6, PhoneOfLink
    <2>2. \A b \in Phone : PhoneState(links', b) =
              IF b = a THEN "incoming" ELSE PhoneState(links, b)
      BY <1>1, <1>6, <2>1, StatesAccept
    <2>3. PhoneState(links, a) \in NoStream
      BY <2>1 DEF NoStream
    <2>4. Only(Failed(l), Sent)
      BY <1>1, <2>1, FailureSent, OnlyWider DEF Sent
    <2>5. Only(Failed(l) \o told, Sent) /\ queue' = rest \o (Failed(l) \o told)
      BY <1>3, <1>6, <2>4, OnlyConcat, Extended DEF Only
    <2> QED
      BY <1>2, <1>6, <2>2, <2>3, <2>5, AcceptStreams
  <1> QED
    BY <1>4, <1>5, <1>6 DEF ConnectIndFrom

\* A call heard, at once or again.
LEMMA CallsStreams ==
    ASSUME StreamInv, LinksInv',
           HandleRfcConnectInd \/ \E a \in Phone : RfcConnectIndAgain(a)
    PROVE  StreamInv'
  <1>1. queue \in Seq(Message)
    BY DEF StreamInv, Typed
  <1>2. CASE HandleRfcConnectInd
    <2>1. queue # <<>> /\ Head(queue).id \notin StreamIds
      BY <1>2 DEF HandleRfcConnectInd, Receives, StreamIds
    <2>2. Tail(queue) \in Seq(Message)
      BY <1>1, <2>1, Extended
    <2>3. PICK a \in Phone : ConnectIndFrom(a, Tail(queue))
      BY <1>2 DEF HandleRfcConnectInd
    <2> QED
      BY <2>1, <2>2, <2>3, CallStreams
  <1>3. CASE \E a \in Phone : RfcConnectIndAgain(a)
    BY <1>1, <1>3, CallStreams DEF RfcConnectIndAgain
  <1> QED
    BY <1>2, <1>3

\* BlueStack tells of a stream what it has become; whatever else happens outside
\* is not about streams.
LEMMA OutsideStreams ==
    ASSUME StreamInv, LinksInv', links' = links,
           \/ \E a \in Phone : PhoneCalls(a) \/ PhoneCompletesAt(a) \/ StackCloses(a)
           \/ \E a \in Phone, ok \in BOOLEAN : StackFinds(a, ok) \/ StackConnects(a, ok)
           \/ \E a \in Phone, status \in Status : PhoneEnds(a, status)
           \/ \E id \in User : UserPresses(id)
    PROVE  StreamInv'
  <1>1. queue \in Seq(Message) /\ air \in [Phone -> {"none", "asked", "accepted", "up"}]
        /\ \A b \in Phone : StreamOf(b, PhoneState(links, b), air[b], queue)
    BY DEF StreamInv, Typed, Streams
  <1>2. ASSUME NEW x \in Message, x.id \in Sent, queue' = Append(queue, x), air' = air
        PROVE  StreamInv'
    <2>1. Only(<<x>>, Sent) /\ queue' = queue \o <<x>>
      BY <1>1, <1>2, OnlyOne, Extended
    <2> QED
      BY <1>2, <2>1, StreamsQuiet
  <1>3. ASSUME NEW x \in Message, x.id \in StreamIds, x.addr \in Phone,
               queue' = Append(queue, x), NEW at \in {"none", "up"},
               air' = [air EXCEPT ![x.addr] = at],
               \/ /\ x.id = "RFC_CONNECT_CFM" /\ air[x.addr] \in {"asked", "accepted"}
                  /\ at = IF x.ok THEN "up" ELSE "none"
               \/ x.id = "RFC_DISCONNECT" /\ air[x.addr] = "up" /\ at = "none"
        PROVE  StreamInv'
    <2> DEFINE a == x.addr
    <2>1. queue' \in Seq(Message) /\ air' \in [Phone -> {"none", "asked", "accepted", "up"}]
          /\ air'[a] = at /\ \A b \in Phone : b # a => air'[b] = air[b]
      BY <1>1, <1>3, AppendProperties
    <2>2. StreamOf(a, PhoneState(links, a), at, queue')
      BY <1>1, <1>3, StreamTold
    <2>3. \A b \in Phone : b # a => StreamOf(b, PhoneState(links, b), air[b], queue')
      BY <1>1, <1>3, StreamTold
    <2>4. \A b \in Phone : StreamOf(b, PhoneState(links', b), air'[b], queue')
      BY <2>1, <2>2, <2>3
    <2> QED
      BY <2>1, <2>4 DEF StreamInv, Typed, Streams
  <1>4. ASSUME NEW a \in Phone, NEW status \in Status, Ends(a, status) PROVE StreamInv'
    <2> DEFINE x == [id |-> "RFC_DISCONNECT", addr |-> a, status |-> status]
    <2>1. x \in Message
      BY OtherMessages
    <2>2. x.id = "RFC_DISCONNECT" /\ x.addr = a /\ x.id \in StreamIds
      BY DEF StreamIds
    <2>3. queue' = Append(queue, x) /\ air[a] = "up" /\ air' = [air EXCEPT ![a] = "none"]
      BY <1>4 DEF Ends
    <2> HIDE DEF x
    <2> QED
      BY <1>3, <2>1, <2>2, <2>3
  <1>5. ASSUME NEW a \in Phone, NEW ok \in BOOLEAN, StackConnects(a, ok) PROVE StreamInv'
    <2> DEFINE x == Answer("RFC_CONNECT_CFM", a, ok)
    <2>1. x \in Message /\ x.id = "RFC_CONNECT_CFM" /\ x.addr = a /\ x.ok = ok
      BY OtherMessages
    <2>2. x.id \in StreamIds
      BY <2>1 DEF StreamIds
    <2>3. queue' = Append(queue, x) /\ air[a] \in {"asked", "accepted"}
          /\ air' = [air EXCEPT ![a] = IF ok THEN "up" ELSE "none"]
      BY <1>5 DEF StackConnects
    <2> HIDE DEF x
    <2> QED
      BY <1>3, <2>1, <2>2, <2>3
  <1>6. ASSUME NEW a \in Phone, NEW ok \in BOOLEAN, StackFinds(a, ok) PROVE StreamInv'
    <2>1. Answer("SDP_CFM", a, ok) \in Message /\ Answer("SDP_CFM", a, ok).id \in Sent
      BY OtherMessages DEF Sent
    <2> QED
      BY <1>2, <1>6, <2>1 DEF StackFinds
  <1>7. ASSUME NEW a \in Phone, PhoneCalls(a) PROVE StreamInv'
    <2>1. OfPhone("RFC_CONNECT_IND", a) \in Message /\ OfPhone("RFC_CONNECT_IND", a).id \in Sent
      BY OtherMessages DEF Sent
    <2> QED
      BY <1>2, <1>7, <2>1 DEF PhoneCalls
  <1>8. ASSUME NEW a \in Phone, PhoneCompletesAt(a) PROVE StreamInv'
    <2>1. OfPhone("AT_COMPLETE", a) \in Message /\ OfPhone("AT_COMPLETE", a).id \in Sent
      BY OtherMessages DEF Sent
    <2> QED
      BY <1>2, <1>8, <2>1 DEF PhoneCompletesAt, stack
  <1>9. ASSUME NEW id \in User, UserPresses(id) PROVE StreamInv'
    <2>1. Plain(id) \in Message /\ Plain(id).id \in Sent
      BY OtherMessages DEF Sent, User
    <2> QED
      BY <1>2, <1>9, <2>1 DEF UserPresses, stack
  <1> QED
    BY <1>4, <1>5, <1>6, <1>7, <1>8, <1>9 DEF StackCloses, PhoneEnds, Status

\* The messages to continue the search can be counted.
LEMMA ContinuesCounted ==
    ASSUME continues \in Nat, Next
    PROVE  continues' \in Nat
  <1>1. ASSUME NEW id, NEW pending \in Nat, NEW rest, AttemptConnection(id, pending, rest)
        PROVE  continues' \in Nat
    BY <1>1 DEF AttemptConnection
  <1>2. CASE HandleEstablish
    <2>1. continues' = continues \/ \E id : AttemptConnection(id, continues, Tail(queue))
      BY <1>2 DEF HandleEstablish, slc
    <2> QED
      BY <1>1, <2>1
  <1>3. CASE Continue
    <2>1. continues - 1 \in Nat
      BY <1>3 DEF Continue
    <2>2. continues' = continues - 1 \/ \E id : AttemptConnection(id, continues - 1, queue)
      BY <1>3 DEF Continue, ContinueSearch
    <2> QED
      BY <1>1, <2>1, <2>2
  <1>4. CASE HandlePowerOn \/ HandlePowerOff \/ HandleEnterPairing
             \/ HandleConnectSuccess \/ HandleConnectFail \/ HandleConnectInd
    <2>1. HandleConnectSuccess => ContinueIfOwn
      BY DEF HandleConnectSuccess
    <2>2. HandleConnectFail => ContinueIfOwn \/ continues' = continues
      BY DEF HandleConnectFail
    <2>3. HandlePowerOn \/ HandlePowerOff => continues' = 0
      BY DEF HandlePowerOn, HandlePowerOff
    <2>4. HandleEnterPairing \/ HandleConnectInd => continues' \in {0, continues}
      BY DEF HandleEnterPairing, HandleConnectInd
    <2> QED
      BY <1>4, <2>1, <2>2, <2>3, <2>4 DEF ContinueIfOwn
  <1>5. CASE PairingEnds \/ ConnectableTimeout \/ HandleConnectCfmInLimbo
             \/ HandleDisconnectInd \/ HandleDisconnectReq \/ HandleSdpCfm
             \/ HandleRfcConnectCfm \/ HandleRfcConnectInd \/ HandleAtComplete
             \/ HandleRfcDisconnect \/ \E a \in Phone : RfcConnectIndAgain(a)
    BY <1>5 DEF PairingEnds, ConnectableTimeout, HandleConnectCfmInLimbo,
       HandleDisconnectInd, HandleDisconnectReq, HandleSdpCfm, HandleRfcConnectCfm,
       HandleRfcConnectInd, HandleAtComplete, HandleRfcDisconnect, RfcConnectIndAgain, slc
  <1>6. CASE \/ \E a \in Phone : PhoneCalls(a) \/ PhoneCompletesAt(a) \/ StackCloses(a)
             \/ \E a \in Phone, ok \in BOOLEAN : StackFinds(a, ok) \/ StackConnects(a, ok)
             \/ \E a \in Phone, status \in Status : PhoneEnds(a, status)
             \/ \E id \in User : UserPresses(id)
    BY <1>6 DEF PhoneCalls, PhoneCompletesAt, StackCloses, StackFinds, StackConnects,
       PhoneEnds, UserPresses, Ends, slc
  <1> QED
    BY <1>2, <1>3, <1>4, <1>5, <1>6 DEF Next

EndInv == StreamInv /\ continues \in Nat

\* At power up there are no streams and nothing is queued.
LEMMA InitStreams == Init => EndInv
  <1> SUFFICES ASSUME Init PROVE EndInv
    OBVIOUS
  <1>1. LinksInv /\ continues \in Nat
    BY InitLinks DEF Init
  <1>2. Typed
    BY DEF Init, Typed
  <1>3. \A a \in Phone : Heard(queue, a) = {} /\ air[a] = "none"
    BY DEF Init, Heard
  <1>4. \A a \in Phone : PhoneState(links, a) = "idle"
    <2>1. \A l \in 1..NumLinks : links[l].state = "idle"
      BY DEF Init, IdleLink
    <2>2. \A l \in 1..NumLinks : links[l].addr = NULL
      BY <1>1, <2>1 DEF LinksInv, LinksOf
    <2> QED
      BY <1>1, <2>2, OneOrTwo, PhoneStateIs, PhoneAssumption DEF LinksInv
  <1> QED
    BY <1>1, <1>2, <1>3, <1>4 DEF EndInv, StreamInv, Streams, StreamOf, Agreed, NoStream

\* Every step keeps the stream, what is queued about it and the link together.
LEMMA NextStreams == EndInv /\ [Next]_vars => EndInv'
  <1> SUFFICES ASSUME EndInv, [Next]_vars PROVE EndInv'
    OBVIOUS
  <1>1. StreamInv /\ LinksInv /\ continues \in Nat
    BY DEF EndInv, StreamInv
  <1>2. LinksInv'
    BY <1>1, LinksKept
  <1>3. CASE UNCHANGED vars
    <2>1. links' = links /\ air' = air /\ queue' = queue /\ continues' = continues
      BY <1>3 DEF vars, lib, stack, slc
    <2>2. Typed' /\ Streams'
      BY <1>1, <2>1 DEF StreamInv, Typed, Streams
    <2> QED
      BY <1>1, <1>2, <2>1, <2>2 DEF EndInv, StreamInv
  <1>4. CASE Next
    <2>1. continues' \in Nat
      BY <1>1, <1>4, ContinuesCounted
    <2>2. CASE \/ \E a \in Phone : PhoneCalls(a) \/ PhoneCompletesAt(a) \/ StackCloses(a)
               \/ \E a \in Phone, ok \in BOOLEAN : StackFinds(a, ok) \/ StackConnects(a, ok)
               \/ \E a \in Phone, status \in Status : PhoneEnds(a, status)
               \/ \E id \in User : UserPresses(id)
      <3>1. links' = links
        BY <2>2 DEF PhoneCalls, PhoneCompletesAt, StackCloses, StackFinds, StackConnects,
           PhoneEnds, UserPresses, Ends, lib
      <3> QED
        BY <1>1, <1>2, <2>1, <2>2, <3>1, OutsideStreams DEF EndInv
    <2> QED
      BY <1>1, <1>2, <1>4, <2>1, <2>2, ApplicationStreams, DisconnectStreams, SearchStreams,
         AnswerStreams, EndStreams, CompleteStreams, CallsStreams DEF EndInv, Next
  <1> QED
    BY <1>3, <1>4

\* The end of a stream that is queued is that of a link with a stream.
LEMMA InvFound == EndInv => LinkFound
  <1> SUFFICES ASSUME EndInv, NEW k \in DOMAIN queue, queue[k].id = "RFC_DISCONNECT"
               PROVE  LinkOf(queue[k].addr) # 0
                      /\ links[LinkOf(queue[k].addr)].state \notin {"idle", "searching"}
    BY DEF LinkFound
  <1> DEFINE a == queue[k].addr
  <1>1. queue \in Seq(Message) /\ LinksInv /\ k \in 1..Len(queue)
    BY DEF EndInv, StreamInv, Typed
  <1>2. a \in Phone
    <2>1. queue[k] \in Message
      BY <1>1
    <2> QED
      BY <2>1, PhoneNamed DEF StreamIds
  <1>3. StreamOf(a, PhoneState(links, a), air[a], queue)
    BY <1>2 DEF EndInv, StreamInv, Streams
  <1>4. k \in Heard(queue, a)
    BY <1>1 DEF Heard, StreamIds
  <1>5. PhoneState(links, a) \in Opening \cup Opened
    BY <1>3, <1>4 DEF StreamOf, Agreed, Answered, Ended, AnsweredEnded
  <1>6. PhoneState(links, a) \notin {"idle", "searching"}
    BY <1>5 DEF Opening, Opened
  <1> QED
    BY <1>1, <1>2, <1>6, PhoneOfLink

\* The end of a stream finds the link it belongs to, so hfpHandleRfcommDisconnect never
\* panics: BlueStack's stream with a phone, what is queued about it and the state of
\* the phone's link agree at every step, whichever searches, calls and
\* disconnections cross.
THEOREM EndFindsLink == Spec => []LinkFound
  <1>1. Spec => []EndInv
    BY InitStreams, NextStreams, PTL DEF Spec
  <1> QED
    BY <1>1, InvFound, PTL

-----------------------------------------------------------------------------
(* The search goes on                                                      *)

\* Where in the queue q the application hears of a call the library has accepted,
\* and of an attempt that is over.
Inds(q) == {i \in 1..Len(q) : q[i].id = "SLC_CONNECT_IND"}
Cfms(q) == {i \in 1..Len(q) : q[i].id = "SLC_CONNECT_CFM"}

\* The attempts the library has under way, numbered below zero to tell them from
\* places in the queue.
Attempts(ls) == {0 - l : l \in {k \in DOMAIN ls : ls[k].state \in Active}}

\* What the application is still to hear the result of.
Awaited(q, A) == Cfms(q) \cup A

\* Each call accepted has a result of its own to come, that comes after it.
Matching(q, A, f) ==
    /\ f \in [Inds(q) -> Awaited(q, A)]
    /\ \A i, j \in Inds(q) : i # j => f[i] # f[j]
    /\ \A i \in Inds(q) : f[i] \in A \/ i < f[i]

\* The results to come that are not of such a call.
Spares(q, A, f) == {t \in Awaited(q, A) : \A i \in Inds(q) : f[i] # t}

\* S has n elements at least, n being up to two.
AtLeast(n, S) == (n >= 1 => S # {}) /\ (n = 2 => \E s, t \in S : s # t)

\* n results are to come besides those of the calls.
Owed(q, A, n) == \E f : Matching(q, A, f) /\ AtLeast(n, Spares(q, A, f))

\* A is a set of attempts, numbered so.
Below(A) == \A t \in A : t \in Int /\ t < 0

\* A set has as many elements as one whose elements are told apart in it.
LEMMA AtLeastAsMany ==
    ASSUME NEW n \in 0..2, NEW S, NEW T, NEW g, AtLeast(n, S),
           \A s \in S : g[s] \in T, \A s, t \in S : s # t => g[s] # g[t]
    PROVE  AtLeast(n, T)
  <1>1. n >= 1 => T # {}
    BY DEF AtLeast
  <1>2. ASSUME n = 2 PROVE \E s, t \in T : s # t
    <2>1. PICK s \in S, t \in S : s # t
      BY <1>2 DEF AtLeast
    <2>2. g[s] \in T /\ g[t] \in T /\ g[s] # g[t]
      BY <2>1
    <2> QED
      BY <2>2
  <1> QED
    BY <1>1, <1>2 DEF AtLeast

\* Fewer are owed if more are.
LEMMA OwedFewer ==
    ASSUME NEW q, NEW A, NEW n \in 0..2, NEW k \in 0..n, Owed(q, A, n)
    PROVE  Owed(q, A, k)
  <1>1. PICK f : Matching(q, A, f) /\ AtLeast(n, Spares(q, A, f))
    BY DEF Owed
  <1>2. AtLeast(k, Spares(q, A, f))
    BY <1>1 DEF AtLeast
  <1> QED
    BY <1>1, <1>2 DEF Owed

\* One that is owed is queued or under way.
LEMMA OwedIsThere ==
    ASSUME NEW q, NEW A, Owed(q, A, 1)
    PROVE  Cfms(q) # {} \/ A # {}
  BY DEF Owed, AtLeast, Spares, Awaited

\* The places of a queue extended by messages that are neither.
LEMMA PlacesExtended ==
    ASSUME NEW q \in Seq(Message), NEW s, NEW ids, Only(s, ids),
           "SLC_CONNECT_IND" \notin ids, "SLC_CONNECT_CFM" \notin ids
    PROVE  Inds(q \o s) = Inds(q) /\ Cfms(q \o s) = Cfms(q)
  <1>1. /\ Len(q) \in Nat /\ Len(s) \in Nat /\ Len(q \o s) = Len(q) + Len(s)
        /\ \A i \in 1..(Len(q) + Len(s)) :
              (q \o s)[i] = IF i <= Len(q) THEN q[i] ELSE s[i - Len(q)]
    BY ConcatProperties, LenProperties DEF Only
  <1>2. /\ \A i \in 1..Len(q) : i \in 1..Len(q \o s) /\ (q \o s)[i] = q[i]
        /\ \A i \in 1..Len(q \o s) : i \notin 1..Len(q) => (q \o s)[i].id \in ids
    BY <1>1 DEF Only
  <1> QED
    BY <1>2 DEF Inds, Cfms

LEMMA OwedExtended ==
    ASSUME NEW q \in Seq(Message), NEW s, NEW ids, Only(s, ids),
           "SLC_CONNECT_IND" \notin ids, "SLC_CONNECT_CFM" \notin ids,
           NEW A, NEW n, Owed(q, A, n)
    PROVE  Owed(q \o s, A, n)
  BY PlacesExtended DEF Owed, Matching, Spares, Awaited

\* The places of a queue extended by one message.
LEMMA PlacesAppended ==
    ASSUME NEW q \in Seq(Message), NEW x \in Message
    PROVE  /\ Len(q) \in Nat
           /\ Inds(q) \subseteq 1..Len(q) /\ Cfms(q) \subseteq 1..Len(q)
           /\ Inds(Append(q, x)) =
                 Inds(q) \cup (IF x.id = "SLC_CONNECT_IND" THEN {Len(q) + 1} ELSE {})
           /\ Cfms(Append(q, x)) =
                 Cfms(q) \cup (IF x.id = "SLC_CONNECT_CFM" THEN {Len(q) + 1} ELSE {})
  <1>1. /\ Len(q) \in Nat /\ Len(Append(q, x)) = Len(q) + 1
        /\ \A i \in 1..Len(q) : Append(q, x)[i] = q[i]
        /\ Append(q, x)[Len(q) + 1] = x
    BY AppendProperties, LenProperties
  <1>2. 1..(Len(q) + 1) = 1..Len(q) \cup {Len(q) + 1}
    BY <1>1
  <1> QED
    BY <1>1, <1>2 DEF Inds, Cfms

\* A result sent of an attempt that has no link is one more to come.
LEMMA OwedRefused ==
    ASSUME NEW q \in Seq(Message), NEW A, Below(A), Owed(q, A, 0),
           NEW x \in Message, x.id = "SLC_CONNECT_CFM"
    PROVE  Owed(Append(q, x), A, 1)
  <1> DEFINE r == Append(q, x)
             k == Len(q) + 1
  <1>1. PICK f : Matching(q, A, f)
    BY DEF Owed
  <1>2. /\ Len(q) \in Nat /\ Inds(r) = Inds(q) /\ Cfms(r) = Cfms(q) \cup {k}
        /\ Inds(q) \subseteq 1..Len(q) /\ Cfms(q) \subseteq 1..Len(q)
    BY PlacesAppended
  <1> HIDE DEF r
  <1>3. k \notin Awaited(q, A)
    BY <1>2 DEF Awaited, Below
  <1>4. Awaited(q, A) \subseteq Awaited(r, A) /\ k \in Awaited(r, A)
    BY <1>2 DEF Awaited
  <1>5. f \in [Inds(r) -> Awaited(r, A)]
    BY <1>1, <1>2, <1>4 DEF Matching
  <1>6. Matching(r, A, f)
    BY <1>1, <1>2, <1>5 DEF Matching
  <1>7. k \in Spares(r, A, f)
    BY <1>1, <1>2, <1>3, <1>4 DEF Spares, Matching
  <1>8. AtLeast(1, Spares(r, A, f))
    BY <1>7 DEF AtLeast
  <1> QED
    BY <1>6, <1>8 DEF Owed, r

\* So is an attempt started.
LEMMA OwedStarted ==
    ASSUME NEW q \in Seq(Message), NEW A, Owed(q, A, 0), NEW l, l \notin A,
           l \notin Cfms(q)
    PROVE  Owed(q, A \cup {l}, 1)
  <1> DEFINE B == A \cup {l}
  <1>1. PICK f : Matching(q, A, f)
    BY DEF Owed
  <1>2. Awaited(q, A) \subseteq Awaited(q, B) /\ l \in Awaited(q, B) /\ l \notin Awaited(q, A)
    BY DEF Awaited
  <1>3. f \in [Inds(q) -> Awaited(q, B)]
    BY <1>1, <1>2 DEF Matching
  <1>4. Matching(q, B, f)
    BY <1>1, <1>3 DEF Matching
  <1>5. l \in Spares(q, B, f)
    BY <1>1, <1>2 DEF Spares, Matching
  <1>6. AtLeast(1, Spares(q, B, f))
    BY <1>5 DEF AtLeast
  <1> QED
    BY <1>4, <1>6 DEF Owed

\* An attempt over is as good as its result.
LEMMA OwedReported ==
    ASSUME NEW q \in Seq(Message), NEW A, Below(A), NEW n \in 0..2, Owed(q, A, n),
           NEW x \in Message, x.id = "SLC_CONNECT_CFM", NEW l \in A
    PROVE  Owed(Append(q, x), A \ {l}, n)
  <1> DEFINE r == Append(q, x)
             B == A \ {l}
             k == Len(q) + 1
             g == [t \in Awaited(q, A) |-> IF t = l THEN k ELSE t]
  <1>1. PICK f : Matching(q, A, f) /\ AtLeast(n, Spares(q, A, f))
    BY DEF Owed
  <1>2. /\ Len(q) \in Nat /\ Inds(r) = Inds(q) /\ Cfms(r) = Cfms(q) \cup {k}
        /\ Inds(q) \subseteq 1..Len(q) /\ Cfms(q) \subseteq 1..Len(q)
    BY PlacesAppended
  <1> HIDE DEF r
  <1>3. k \notin Awaited(q, A) /\ l \notin Cfms(q) /\ l \in Awaited(q, A)
    BY <1>2 DEF Awaited, Below
  <1>4. \A t \in Awaited(q, A) : g[t] \in Awaited(r, B)
    BY <1>2, <1>3 DEF Awaited
  <1>5. \A s, t \in Awaited(q, A) : s # t => g[s] # g[t]
    BY <1>3
  <1>6. \A t \in Awaited(q, A) : t # l => g[t] = t
    OBVIOUS
  <1>7. g[l] = k
    BY <1>3
  <1> HIDE DEF g
  <1> DEFINE h == [i \in Inds(q) |-> g[f[i]]]
  <1>8. \A i \in Inds(q) : f[i] \in Awaited(q, A) /\ h[i] = g[f[i]]
    BY <1>1 DEF Matching
  <1>9. h \in [Inds(r) -> Awaited(r, B)]
    BY <1>2, <1>4, <1>8
  <1>10. \A i, j \in Inds(q) : i # j => h[i] # h[j]
    BY <1>1, <1>5, <1>8 DEF Matching
  <1>11. ASSUME NEW i \in Inds(q) PROVE h[i] \in B \/ i < h[i]
    <2>1. CASE f[i] = l
      BY <1>2, <1>7, <1>8, <2>1
    <2>2. CASE f[i] # l
      BY <1>1, <1>6, <1>8, <2>2 DEF Matching
    <2> QED
      BY <2>1, <2>2
  <1>12. Matching(r, B, h)
    BY <1>2, <1>9, <1>10, <1>11 DEF Matching
  <1>13. ASSUME NEW t \in Spares(q, A, f) PROVE g[t] \in Spares(r, B, h)
    BY <1>2, <1>4, <1>5, <1>8 DEF Spares
  <1>14. \A s, t \in Spares(q, A, f) : s # t => g[s] # g[t]
    BY <1>5 DEF Spares
  <1>15. AtLeast(n, Spares(r, B, h))
    <2> HIDE DEF h
    <2> QED
      BY <1>1, <1>13, <1>14, AtLeastAsMany
  <1> QED
    BY <1>12, <1>15 DEF Owed, r

\* A call accepted is an attempt under way and the message that tells of it.
LEMMA OwedAccepted ==
    ASSUME NEW q \in Seq(Message), NEW A, NEW n \in 0..2, Owed(q, A, n),
           NEW x \in Message, x.id = "SLC_CONNECT_IND", NEW l, l \notin A, l \notin Cfms(q)
    PROVE  Owed(Append(q, x), A \cup {l}, n)
  <1> DEFINE r == Append(q, x)
             B == A \cup {l}
             k == Len(q) + 1
  <1>1. PICK f : Matching(q, A, f) /\ AtLeast(n, Spares(q, A, f))
    BY DEF Owed
  <1>2. /\ Len(q) \in Nat /\ Inds(r) = Inds(q) \cup {k} /\ Cfms(r) = Cfms(q)
        /\ Inds(q) \subseteq 1..Len(q) /\ Cfms(q) \subseteq 1..Len(q)
    BY PlacesAppended
  <1> HIDE DEF r
  <1>3. /\ Awaited(q, A) \subseteq Awaited(r, B) /\ l \in Awaited(r, B) /\ l \notin Awaited(q, A)
        /\ k \notin Inds(q)
    BY <1>2 DEF Awaited
  <1> DEFINE h == [i \in Inds(r) |-> IF i = k THEN l ELSE f[i]]
  <1>4. \A i \in Inds(q) : f[i] \in Awaited(q, A) /\ h[i] = f[i]
    BY <1>1, <1>2, <1>3 DEF Matching
  <1>5. h[k] = l
    BY <1>2
  <1>6. h \in [Inds(r) -> Awaited(r, B)]
    BY <1>2, <1>3, <1>4
  <1> HIDE DEF h
  <1>7. Matching(r, B, h)
    <2>1. \A i, j \in Inds(r) : i # j => h[i] # h[j]
      BY <1>1, <1>2, <1>3, <1>4, <1>5 DEF Matching
    <2>2. \A i \in Inds(r) : h[i] \in B \/ i < h[i]
      BY <1>1, <1>2, <1>4, <1>5 DEF Matching
    <2> QED
      BY <1>6, <2>1, <2>2 DEF Matching
  <1>8. Spares(q, A, f) \subseteq Spares(r, B, h)
    BY <1>2, <1>3, <1>4, <1>5 DEF Spares
  <1>9. AtLeast(n, Spares(r, B, h))
    BY <1>1, <1>8 DEF AtLeast
  <1> QED
    BY <1>7, <1>9 DEF Owed, r

\* The places of a queue whose first message is taken.
LEMMA PlacesTaken ==
    ASSUME NEW q \in Seq(Message), q # <<>>
    PROVE  /\ \A i \in Inds(Tail(q)) : i \in Nat \ {0} /\ i + 1 \in Inds(q)
           /\ \A i \in Inds(q) : i \in Nat \ {0} /\ (i # 1 => i - 1 \in Inds(Tail(q)))
           /\ \A i \in Cfms(q) : i \in Nat \ {0} /\ (i # 1 => i - 1 \in Cfms(Tail(q)))
           /\ 1 \in Inds(q) <=> Head(q).id = "SLC_CONNECT_IND"
           /\ 1 \in Cfms(q) <=> Head(q).id = "SLC_CONNECT_CFM"
  <1>1. /\ Len(q) \in Nat \ {0} /\ Head(q) = q[1] /\ Len(Tail(q)) = Len(q) - 1
        /\ \A i \in 1..Len(Tail(q)) : Tail(q)[i] = q[i + 1]
    BY HeadTailProperties, EmptySeq
  <1> QED
    BY <1>1 DEF Inds, Cfms

\* A message taken: a result leaves one fewer to come, a call one more to spare.
LEMMA OwedTaken ==
    ASSUME NEW q \in Seq(Message), q # <<>>, NEW A, Below(A), NEW n \in 0..2, Owed(q, A, n)
    PROVE  /\ Head(q).id # "SLC_CONNECT_CFM" => Owed(Tail(q), A, n)
           /\ Head(q).id = "SLC_CONNECT_CFM" => Owed(Tail(q), A, IF n = 0 THEN 0 ELSE n - 1)
           /\ Head(q).id = "SLC_CONNECT_IND" => Owed(Tail(q), A, IF n = 2 THEN 2 ELSE n + 1)
  <1> DEFINE r == Tail(q)
             g == [t \in Awaited(q, A) |-> IF t \in A THEN t ELSE t - 1]
  <1>1. PICK f : Matching(q, A, f) /\ AtLeast(n, Spares(q, A, f))
    BY DEF Owed
  <1>2. /\ \A i \in Inds(r) : i \in Nat \ {0} /\ i + 1 \in Inds(q)
        /\ \A i \in Inds(q) : i \in Nat \ {0} /\ (i # 1 => i - 1 \in Inds(r))
        /\ \A i \in Cfms(q) : i \in Nat \ {0} /\ (i # 1 => i - 1 \in Cfms(r))
        /\ 1 \in Inds(q) <=> Head(q).id = "SLC_CONNECT_IND"
        /\ 1 \in Cfms(q) <=> Head(q).id = "SLC_CONNECT_CFM"
    BY PlacesTaken
  <1> HIDE DEF r
  <1>3. \A t \in Awaited(q, A) : t \in Int /\ g[t] = IF t \in A THEN t ELSE t - 1
    BY <1>2 DEF Awaited, Below
  <1>4. \A t \in Awaited(q, A) : t # 1 => g[t] \in Awaited(r, A)
    BY <1>2, <1>3 DEF Awaited
  <1>5. \A s, t \in Awaited(q, A) : s # t => g[s] # g[t]
    <2>1. \A t \in Awaited(q, A) : IF t \in A THEN t < 0 ELSE t >= 1
      BY <1>2 DEF Awaited, Below
    <2> HIDE DEF g
    <2> QED
      BY <1>3, <2>1
  <1> HIDE DEF g
  <1>6. \A i \in Inds(q) : f[i] \in Awaited(q, A) /\ f[i] # 1
    <2>1. 1 \notin A
      BY DEF Below
    <2> QED
      BY <1>1, <1>2, <2>1 DEF Matching
  <1> DEFINE h == [i \in Inds(r) |-> g[f[i + 1]]]
  <1>7. \A i \in Inds(r) : h[i] = g[f[i + 1]] /\ i + 1 \in Inds(q)
    BY <1>2
  <1>8. h \in [Inds(r) -> Awaited(r, A)]
    BY <1>4, <1>6, <1>7
  <1> HIDE DEF h
  <1>9. Matching(r, A, h)
    <2>1. ASSUME NEW i \in Inds(r), NEW j \in Inds(r), i # j
          PROVE  h[i] # h[j]
      <3>1. i + 1 \in Inds(q) /\ j + 1 \in Inds(q) /\ i + 1 # j + 1
        BY <1>2, <2>1
      <3>2. f[i + 1] # f[j + 1]
        BY <1>1, <3>1 DEF Matching
      <3> QED
        BY <1>5, <1>6, <1>7, <3>1, <3>2
    <2>2. ASSUME NEW i \in Inds(r) PROVE h[i] \in A \/ i < h[i]
      <3> DEFINE t == f[i + 1]
      <3>1. i \in Nat /\ i + 1 \in Inds(q) /\ t \in Awaited(q, A) /\ (t \in A \/ i + 1 < t)
        BY <1>1, <1>2, <1>6 DEF Matching
      <3>2. h[i] = IF t \in A THEN t ELSE t - 1
        BY <1>3, <1>7, <3>1
      <3>3. t \in Int
        BY <1>3, <3>1
      <3> HIDE DEF t
      <3> QED
        BY <3>1, <3>2, <3>3
    <2> QED
      BY <1>8, <2>1, <2>2 DEF Matching
  <1>10. ASSUME NEW t \in Awaited(q, A), t # 1, \A i \in Inds(q) : i # 1 => f[i] # t
         PROVE  g[t] \in Spares(r, A, h)
    <2>1. g[t] \in Awaited(r, A)
      BY <1>4, <1>10
    <2>2. ASSUME NEW i \in Inds(r) PROVE h[i] # g[t]
      <3>1. i + 1 \in Inds(q) /\ i + 1 # 1
        BY <1>2
      <3> QED
        BY <1>5, <1>6, <1>7, <1>10, <3>1
    <2> QED
      BY <2>1, <2>2 DEF Spares
  <1> DEFINE S == Spares(q, A, f)
             T == Spares(r, A, h)
  <1>11. \A t \in S : t \in Awaited(q, A) /\ (t # 1 => g[t] \in T)
    BY <1>10 DEF Spares
  <1>12. \A s, t \in S : s # t => g[s] # g[t]
    BY <1>5 DEF Spares
  <1>13. AtLeast(n, S)
    BY <1>1
  <1>14. Head(q).id = "SLC_CONNECT_IND" =>
           /\ f[1] \in Awaited(q, A) \ S /\ g[f[1]] \in T
           /\ \A t \in S : g[t] # g[f[1]]
    <2> SUFFICES ASSUME Head(q).id = "SLC_CONNECT_IND"
                 PROVE  /\ f[1] \in Awaited(q, A) \ S /\ g[f[1]] \in T
                        /\ \A t \in S : g[t] # g[f[1]]
      OBVIOUS
    <2>1. 1 \in Inds(q) /\ f[1] \in Awaited(q, A) /\ f[1] # 1
      BY <1>2, <1>6
    <2>2. \A i \in Inds(q) : i # 1 => f[i] # f[1]
      BY <1>1, <2>1 DEF Matching
    <2>3. f[1] \notin S
      BY <2>1 DEF Spares
    <2>4. g[f[1]] \in T
      BY <1>10, <2>1, <2>2
    <2> QED
      BY <1>5, <1>11, <2>1, <2>3, <2>4
  <1>15. 1 \in S => Head(q).id = "SLC_CONNECT_CFM"
    BY <1>2 DEF Spares, Awaited, Below
  <1> HIDE DEF S, T
  <1>16. Head(q).id # "SLC_CONNECT_CFM" => AtLeast(n, T)
    <2> SUFFICES ASSUME Head(q).id # "SLC_CONNECT_CFM" PROVE AtLeast(n, T)
      OBVIOUS
    <2>1. \A t \in S : g[t] \in T
      BY <1>11, <1>15
    <2> QED
      BY <1>12, <1>13, <2>1, AtLeastAsMany
  <1>17. AtLeast(IF n = 0 THEN 0 ELSE n - 1, T)
    <2>1. CASE n = 2
      <3>1. PICK s \in S, t \in S : s # t
        BY <1>13, <2>1 DEF AtLeast
      <3>2. g[s] \in T \/ g[t] \in T
        BY <1>11, <3>1
      <3> QED
        BY <2>1, <3>2 DEF AtLeast
    <2>2. CASE n # 2
      BY <2>2 DEF AtLeast
    <2> QED
      BY <2>1, <2>2
  <1>18. Head(q).id = "SLC_CONNECT_IND" => AtLeast(IF n = 2 THEN 2 ELSE n + 1, T)
    <2> SUFFICES ASSUME Head(q).id = "SLC_CONNECT_IND"
                 PROVE  AtLeast(IF n = 2 THEN 2 ELSE n + 1, T)
      OBVIOUS
    <2>1. g[f[1]] \in T /\ \A t \in S : g[t] # g[f[1]]
      BY <1>14
    <2>2. CASE n = 0
      BY <2>1, <2>2 DEF AtLeast
    <2>3. CASE n = 1 \/ n = 2
      <3>1. PICK t \in S : TRUE
        BY <1>13, <2>3 DEF AtLeast
      <3>2. g[t] \in T /\ g[t] # g[f[1]]
        BY <1>11, <1>15, <2>1
      <3> QED
        BY <2>1, <2>3, <3>2 DEF AtLeast
    <2> QED
      BY <2>2, <2>3
  <1> QED
    BY <1>9, <1>16, <1>17, <1>18 DEF Owed, T, r

-----------------------------------------------------------------------------
\* The attempts are numbered below zero, each link having a number of its own.
LEMMA AttemptsNumbered ==
    ASSUME NEW n \in {1, 2}, NEW ls, LinksOf(n, ls)
    PROVE  /\ Below(Attempts(ls))
           /\ \A l \in 1..n : 0 - l \in Attempts(ls) <=> ls[l].state \in Active
           /\ \A q \in Seq(Message), l \in 1..n : 0 - l \notin Cfms(q)
  <1>1. DOMAIN ls = 1..n /\ \A l \in 1..n : l \in Nat \ {0}
    BY DEF LinksOf
  <1>2. Below(Attempts(ls))
    BY <1>1 DEF Below, Attempts
  <1>3. \A k, l \in 1..n : 0 - k = 0 - l => k = l
    OBVIOUS
  <1>4. \A l \in 1..n : 0 - l \in Attempts(ls) <=> ls[l].state \in Active
    BY <1>1, <1>3 DEF Attempts
  <1>5. ASSUME NEW q \in Seq(Message), NEW l \in 1..n PROVE 0 - l \notin Cfms(q)
    <2>1. Len(q) \in Nat
      BY LenProperties
    <2> QED
      BY <2>1 DEF Cfms
  <1> QED
    BY <1>2, <1>4, <1>5

\* A link set up adds an attempt,
LEMMA AttemptsSetup ==
    ASSUME NEW n \in {1, 2}, NEW ls, LinksOf(n, ls), NEW l \in 1..n,
           ls[l].state = "idle", NEW a, NEW s \in Active
    PROVE  Attempts(Setup(ls, l, a, s)) = Attempts(ls) \cup {0 - l} /\ 0 - l \notin Attempts(ls)
  <1> DEFINE rs == Setup(ls, l, a, s)
  <1>1. DOMAIN ls = 1..n /\ DOMAIN rs = 1..n
    BY DEF LinksOf, Setup
  <1>2. \A k \in 1..n : rs[k].state = IF k = l THEN s ELSE ls[k].state
    BY <1>1 DEF Setup
  <1>3. 0 - l \notin Attempts(ls)
    BY AttemptsNumbered DEF Active
  <1> HIDE DEF rs
  <1>4. {k \in 1..n : rs[k].state \in Active} = {k \in 1..n : ls[k].state \in Active} \cup {l}
    BY <1>2
  <1>5. Attempts(rs) = Attempts(ls) \cup {0 - l}
    BY <1>1, <1>4 DEF Attempts
  <1> QED
    BY <1>3, <1>5 DEF rs

\* one given up takes its own away,
LEMMA AttemptsReset ==
    ASSUME NEW n \in {1, 2}, NEW ls, LinksOf(n, ls), NEW l \in 1..n
    PROVE  Attempts(Reset(ls, l)) = Attempts(ls) \ {0 - l}
  <1> DEFINE rs == Reset(ls, l)
  <1>1. /\ DOMAIN ls = 1..n /\ DOMAIN rs = 1..n
        /\ rs[l].state = "idle" /\ \A k \in 1..n : k # l => rs[k].state = ls[k].state
    <2>1. DOMAIN ls = 1..n
      BY DEF LinksOf
    <2>2. DOMAIN rs = DOMAIN ls
      BY DEF Reset
    <2> QED
      BY <2>1, <2>2, ResetKeeps
  <1> HIDE DEF rs
  <1>2. {k \in 1..n : rs[k].state \in Active} = {k \in 1..n : ls[k].state \in Active} \ {l}
    BY <1>1 DEF Active
  <1>3. \A k \in 1..n : 0 - k = 0 - l => k = l
    OBVIOUS
  <1>4. Attempts(rs) = Attempts(ls) \ {0 - l}
    BY <1>1, <1>2, <1>3 DEF Attempts
  <1> QED
    BY <1>4 DEF rs

\* and one that moves on keeps it until it is complete.
LEMMA AttemptsMove ==
    ASSUME NEW n \in {1, 2}, NEW ls, LinksOf(n, ls), NEW l \in 1..n, NEW s
    PROVE  /\ s \in Active /\ ls[l].state \in Active
                 => Attempts([ls EXCEPT ![l].state = s]) = Attempts(ls)
           /\ s \notin Active
                 => Attempts([ls EXCEPT ![l].state = s]) = Attempts(ls) \ {0 - l}
  <1> DEFINE rs == [ls EXCEPT ![l].state = s]
  <1>1. DOMAIN ls = 1..n /\ DOMAIN rs = 1..n /\ ls[l] \in LinkRecord
    BY DEF LinksOf
  <1>2. \A k \in 1..n : rs[k].state = IF k = l THEN s ELSE ls[k].state
    BY <1>1 DEF LinkRecord
  <1> HIDE DEF rs
  <1>3. ASSUME s \in Active, ls[l].state \in Active PROVE Attempts(rs) = Attempts(ls)
    <2>1. {k \in 1..n : rs[k].state \in Active} = {k \in 1..n : ls[k].state \in Active}
      BY <1>2, <1>3
    <2> QED
      BY <1>1, <2>1 DEF Attempts
  <1>4. ASSUME s \notin Active PROVE Attempts(rs) = Attempts(ls) \ {0 - l}
    <2>1. {k \in 1..n : rs[k].state \in Active} = {k \in 1..n : ls[k].state \in Active} \ {l}
      BY <1>2, <1>4
    <2>2. \A k \in 1..n : 0 - k = 0 - l => k = l
      OBVIOUS
    <2> QED
      BY <1>1, <2>1, <2>2 DEF Attempts
  <1> QED
    BY <1>3, <1>4 DEF rs

\* What a step may send that is neither a result nor of the user's.
Neither == {"DISCONNECT_REQ", "SLC_DISCONNECT_IND", "SDP_CFM", "RFC_CONNECT_CFM",
            "RFC_CONNECT_IND", "AT_COMPLETE", "RFC_DISCONNECT", "ENTER_PAIRING"}

\* n results are to come, in this state.
ToCome(n) == Owed(queue, Attempts(links), n)

\* A step keeps what is to come.
KeepsToCome == \A n \in 0..2 : ToCome(n) => ToCome(n)'

\* The messages left when the next one is neither a result nor a call accepted.
LEMMA Passed ==
    ASSUME LinksInv, queue \in Seq(Message), queue # <<>>,
           Head(queue).id \notin {"SLC_CONNECT_CFM", "SLC_CONNECT_IND"},
           NEW n \in 0..2, ToCome(n)
    PROVE  Tail(queue) \in Seq(Message) /\ Owed(Tail(queue), Attempts(links), n)
  <1>1. Below(Attempts(links))
    BY OneOrTwo, AttemptsNumbered DEF LinksInv
  <1> QED
    BY <1>1, Extended, OwedTaken DEF ToCome

\* The report of a failure is a result, and the last message.
LEMMA FailureAppended ==
    ASSUME LinksInv, NEW l \in 1..NumLinks, links[l].addr \in Phone, NEW q \in Seq(Message)
    PROVE  \E x \in Message : x.id = "SLC_CONNECT_CFM" /\ q \o Failed(l) = Append(q, x)
                              /\ Append(q, x) \in Seq(Message)
  <1> DEFINE x == ConnectCfm(FALSE, links[l].priority, links[l].addr)
  <1>1. links[l].priority \in 0..2
    BY DEF LinksInv, LinksOf, LinkRecord
  <1>2. x \in Message /\ x.id = "SLC_CONNECT_CFM"
    BY <1>1, ConnectMessages
  <1>3. Failed(l) = <<x>>
    BY DEF Failed
  <1> HIDE DEF x
  <1>4. q \o Failed(l) = Append(q, x) /\ Append(q, x) \in Seq(Message)
    BY <1>2, <1>3, Extended, AppendProperties
  <1> QED
    BY <1>2, <1>4

\* A link of which a phone is known and that is given up is reported.
LEMMA ResetReported ==
    ASSUME LinksInv, NEW l \in 1..NumLinks, links[l].state \in Active,
           NEW q \in Seq(Message), NEW n \in 0..2, Owed(q, Attempts(links), n)
    PROVE  Owed(q \o Failed(l), Attempts(Reset(links, l)), n)
  <1>1. /\ Below(Attempts(links)) /\ 0 - l \in Attempts(links)
        /\ Attempts(Reset(links, l)) = Attempts(links) \ {0 - l}
    BY OneOrTwo, AttemptsNumbered, AttemptsReset DEF LinksInv
  <1>2. links[l].addr \in Phone
    BY DEF LinksInv, LinksOf, LinkRecord, Active
  <1>3. PICK x \in Message : x.id = "SLC_CONNECT_CFM" /\ q \o Failed(l) = Append(q, x)
    BY <1>2, FailureAppended
  <1> QED
    BY <1>1, <1>3, OwedReported

\* A link given up that was complete counted for no attempt.
LEMMA ResetUncounted ==
    ASSUME LinksInv, NEW l \in 1..NumLinks, links[l].state \notin Active
    PROVE  Attempts(Reset(links, l)) = Attempts(links)
  <1>1. 0 - l \notin Attempts(links)
    BY OneOrTwo, AttemptsNumbered DEF LinksInv
  <1>2. Attempts(Reset(links, l)) = Attempts(links) \ {0 - l}
    BY OneOrTwo, AttemptsReset DEF LinksInv
  <1> QED
    BY <1>1, <1>2

\* A disconnection that is heard of is no result.
LEMMA DisconnectionAppended ==
    ASSUME NEW status \in Status \cup {"no_slc"}, NEW p \in 0..2, NEW a \in Phone \cup {NULL},
           NEW q \in Seq(Message), NEW A, NEW n, Owed(q, A, n)
    PROVE  Owed(q \o <<DisconnectInd(status, p, a)>>, A, n)
  <1> DEFINE x == DisconnectInd(status, p, a)
  <1>1. x \in Message /\ x.id = "SLC_DISCONNECT_IND"
    BY ConnectMessages
  <1> HIDE DEF x
  <1>2. Only(<<x>>, {"SLC_DISCONNECT_IND"})
    BY <1>1, OnlyOne
  <1>3. Owed(q \o <<x>>, A, n)
    BY <1>2, OwedExtended
  <1> QED
    BY <1>3 DEF x

\* A disconnect request gives up a search, or is left to BlueStack.
LEMMA DisconnectOwes ==
    ASSUME LinksInv, queue \in Seq(Message), HandleDisconnectReq
    PROVE  KeepsToCome
  <1> SUFFICES ASSUME NEW n \in 0..2, ToCome(n) PROVE Owed(queue', Attempts(links'), n)
    BY DEF KeepsToCome, ToCome
  <1>1. queue # <<>> /\ Head(queue).id \notin {"SLC_CONNECT_CFM", "SLC_CONNECT_IND"}
    BY DEF HandleDisconnectReq, Receives
  <1>2. Tail(queue) \in Seq(Message) /\ Owed(Tail(queue), Attempts(links), n)
    BY <1>1, Passed
  <1>3. DOMAIN links = 1..NumLinks
    BY DEF LinksInv, LinksOf
  <1>4. PICK l \in DOMAIN links \cup {0} :
          \/ links' = links /\ queue' = Tail(queue)
          \/ links' = links /\ queue' = Tail(queue) \o <<DisconnectInd("no_slc", 0, NULL)>>
          \/ /\ l # 0 /\ links[l].state = "searching"
             /\ links' = Reset(links, l) /\ queue' = Tail(queue) \o Failed(l)
    BY DEF HandleDisconnectReq, Done, DoneAndSend
  <1>5. Owed(Tail(queue) \o <<DisconnectInd("no_slc", 0, NULL)>>, Attempts(links), n)
    <2>1. 0 \in 0..2 /\ "no_slc" \in Status \cup {"no_slc"} /\ NULL \in Phone \cup {NULL}
      OBVIOUS
    <2> QED
      BY <1>2, <2>1, DisconnectionAppended
  <1>6. ASSUME l # 0, links[l].state = "searching"
        PROVE  Owed(Tail(queue) \o Failed(l), Attempts(Reset(links, l)), n)
    BY <1>2, <1>3, <1>6, ResetReported DEF Active
  <1> QED
    BY <1>2, <1>4, <1>5, <1>6

\* The result of a search starts a stream or gives the attempt up.
LEMMA SearchOwes ==
    ASSUME LinksInv, queue \in Seq(Message), HandleSdpCfm
    PROVE  KeepsToCome
  <1> SUFFICES ASSUME NEW n \in 0..2, ToCome(n) PROVE Owed(queue', Attempts(links'), n)
    BY DEF KeepsToCome, ToCome
  <1> DEFINE l == LinkOf(Head(queue).addr)
  <1>1. queue # <<>> /\ Head(queue).id = "SDP_CFM"
    BY DEF HandleSdpCfm, Receives
  <1>2. Tail(queue) \in Seq(Message) /\ Owed(Tail(queue), Attempts(links), n)
    BY <1>1, Passed
  <1>3. \/ links' = links /\ queue' = Tail(queue)
        \/ /\ l # 0 /\ links[l].state = "searching"
           /\ \/ links' = [links EXCEPT ![l].state = "outgoing"] /\ queue' = Tail(queue)
              \/ links' = Reset(links, l) /\ queue' = Tail(queue) \o Failed(l)
    BY DEF HandleSdpCfm, Done, DoneAndSend, m
  <1>4. l # 0 => l \in 1..NumLinks
    BY LinkOfPhone DEF LinksInv
  <1> HIDE DEF l
  <1>5. ASSUME l # 0, links[l].state = "searching"
        PROVE  /\ Attempts([links EXCEPT ![l].state = "outgoing"]) = Attempts(links)
               /\ Owed(Tail(queue) \o Failed(l), Attempts(Reset(links, l)), n)
    <2>1. l \in 1..NumLinks /\ links[l].state \in Active /\ "outgoing" \in Active
      BY <1>4, <1>5 DEF Active
    <2>2. Attempts([links EXCEPT ![l].state = "outgoing"]) = Attempts(links)
      BY <2>1, OneOrTwo, AttemptsMove DEF LinksInv
    <2> QED
      BY <1>2, <2>1, <2>2, ResetReported
  <1> QED
    BY <1>2, <1>3, <1>5

\* BlueStack's answer is about an attempt, which goes on or is given up.
LEMMA AnswerOwes ==
    ASSUME StreamInv, HandleRfcConnectCfm
    PROVE  KeepsToCome
  <1> SUFFICES ASSUME NEW n \in 0..2, ToCome(n) PROVE Owed(queue', Attempts(links'), n)
    BY DEF KeepsToCome, ToCome
  <1>1. queue \in Seq(Message) /\ LinksInv
    BY DEF StreamInv, Typed
  <1>2. queue # <<>> /\ Head(queue).id = "RFC_CONNECT_CFM"
    BY DEF HandleRfcConnectCfm, Receives
  <1>3. Tail(queue) \in Seq(Message) /\ Owed(Tail(queue), Attempts(links), n)
    BY <1>1, <1>2, Passed
  <1>4. PICK a \in Phone, ok \in BOOLEAN :
          /\ Head(queue) = Answer("RFC_CONNECT_CFM", a, ok)
          /\ IF LinkOf(a) = 0 THEN queue' = Tail(queue) /\ links' = links
             ELSE IF ok THEN links' = [links EXCEPT ![LinkOf(a)].state = "connected"]
                             /\ queue' = Tail(queue)
             ELSE links' = Reset(links, LinkOf(a)) /\ queue' = Tail(queue) \o Failed(LinkOf(a))
    BY DEF HandleRfcConnectCfm, Done, DoneAndSend, m
  <1> DEFINE l == LinkOf(a)
  <1>5. PhoneState(links, a) \in Opening
    <2>1. Head(queue).addr = a
      BY <1>4 DEF Answer
    <2>2. StreamOf(a, PhoneState(links, a), air[a], queue)
      BY DEF StreamInv, Streams
    <2> QED
      BY <1>1, <1>2, <2>1, <2>2, StreamAnswerHeard
  <1>6. l \in 1..NumLinks /\ l # 0 /\ links[l].state \in Active /\ "connected" \in Active
    BY <1>1, <1>5, PhoneOfLink DEF Opening, Active
  <1>7. Attempts([links EXCEPT ![l].state = "connected"]) = Attempts(links)
    BY <1>1, <1>6, OneOrTwo, AttemptsMove DEF LinksInv
  <1>8. Owed(Tail(queue) \o Failed(l), Attempts(Reset(links, l)), n)
    BY <1>1, <1>3, <1>6, ResetReported
  <1> QED
    BY <1>3, <1>4, <1>6, <1>7, <1>8

\* The end of a stream is the result of the attempt, if it was one.
LEMMA EndOwes ==
    ASSUME StreamInv, HandleRfcDisconnect
    PROVE  KeepsToCome
  <1> SUFFICES ASSUME NEW n \in 0..2, ToCome(n) PROVE Owed(queue', Attempts(links'), n)
    BY DEF KeepsToCome, ToCome
  <1> DEFINE a == Head(queue).addr
             l == LinkOf(a)
             status == Head(queue).status
  <1>1. queue \in Seq(Message) /\ LinksInv
    BY DEF StreamInv, Typed
  <1>2. queue # <<>> /\ Head(queue).id = "RFC_DISCONNECT" /\ l # 0
    BY DEF HandleRfcDisconnect, Receives, m
  <1>3. Tail(queue) \in Seq(Message) /\ Owed(Tail(queue), Attempts(links), n)
    BY <1>1, <1>2, Passed
  <1>4. /\ links' = Reset(links, l)
        /\ IF links[l].state # "complete" THEN queue' = Tail(queue) \o Failed(l)
           ELSE queue' = Tail(queue) \o <<DisconnectInd(status, links[l].priority, a)>>
    BY DEF HandleRfcDisconnect, DoneAndSend, m
  <1>5. a \in Phone /\ status \in Status
    <2>1. Head(queue) \in Message
      BY <1>1, <1>2, HeadTailProperties
    <2> QED
      BY <1>2, <2>1 DEF Message, User
  <1> HIDE DEF a, status
  <1>6. l \in 1..NumLinks /\ links[l].state # "idle" /\ links[l] \in LinkRecord
    BY <1>1, <1>2, <1>5, PhoneOfLink DEF LinksInv, LinksOf
  <1> HIDE DEF l
  <1>7. CASE links[l].state # "complete"
    <2>1. links[l].state \in Active
      BY <1>6, <1>7 DEF LinkRecord, State
    <2> QED
      BY <1>1, <1>3, <1>4, <1>6, <1>7, <2>1, ResetReported
  <1>8. CASE links[l].state = "complete"
    <2>1. Attempts(Reset(links, l)) = Attempts(links)
      BY <1>1, <1>6, <1>8, ResetUncounted DEF Active
    <2>2. links[l].priority \in 0..2
      BY <1>6 DEF LinkRecord
    <2>3. Owed(Tail(queue) \o <<DisconnectInd(status, links[l].priority, a)>>, Attempts(links), n)
      BY <1>3, <1>5, <2>2, DisconnectionAppended
    <2> QED
      BY <1>4, <1>8, <2>1, <2>3
  <1> QED
    BY <1>7, <1>8

\* An attempt that is complete has its result sent.
LEMMA CompleteOwes ==
    ASSUME LinksInv, queue \in Seq(Message), HandleAtComplete
    PROVE  KeepsToCome
  <1> SUFFICES ASSUME NEW n \in 0..2, ToCome(n) PROVE Owed(queue', Attempts(links'), n)
    BY DEF KeepsToCome, ToCome
  <1> DEFINE a == Head(queue).addr
             l == LinkOf(a)
             x == ConnectCfm(TRUE, links[l].priority, a)
  <1>1. queue # <<>> /\ Head(queue).id = "AT_COMPLETE"
    BY DEF HandleAtComplete, Receives
  <1>2. Tail(queue) \in Seq(Message) /\ Owed(Tail(queue), Attempts(links), n)
    BY <1>1, Passed
  <1>3. a \in Phone
    <2>1. Head(queue) \in Message
      BY <1>1, HeadTailProperties
    <2> QED
      BY <1>1, <2>1, PhoneNamed
  <1>4. \/ links' = links /\ queue' = Tail(queue)
        \/ /\ l # 0 /\ links[l].state = "connected"
           /\ links' = [links EXCEPT ![l].state = "complete"] /\ queue' = Tail(queue) \o <<x>>
    BY DEF HandleAtComplete, Done, DoneAndSend, m
  <1>5. ASSUME l # 0, links[l].state = "connected"
        PROVE  Owed(Tail(queue) \o <<x>>, Attempts([links EXCEPT ![l].state = "complete"]), n)
    <2>1. l \in 1..NumLinks /\ links[l].priority \in 0..2
      BY <1>3, <1>5, PhoneOfLink DEF LinksInv, LinksOf, LinkRecord
    <2>2. x \in Message /\ x.id = "SLC_CONNECT_CFM"
      BY <1>3, <2>1, ConnectMessages
    <2> HIDE DEF x
    <2>3. Below(Attempts(links)) /\ 0 - l \in Attempts(links)
      BY <1>5, <2>1, OneOrTwo, AttemptsNumbered DEF LinksInv, Active
    <2>4. Attempts([links EXCEPT ![l].state = "complete"]) = Attempts(links) \ {0 - l}
      <3>1. "complete" \notin Active
        BY DEF Active
      <3> QED
        BY <2>1, <3>1, OneOrTwo, AttemptsMove DEF LinksInv
    <2>5. Owed(Append(Tail(queue), x), Attempts(links) \ {0 - l}, n)
      BY <1>2, <2>2, <2>3, OwedReported
    <2>6. Append(Tail(queue), x) = Tail(queue) \o <<x>>
      BY <1>2, <2>2, Extended
    <2> QED
      BY <2>4, <2>5, <2>6
  <1> QED
    BY <1>2, <1>4, <1>5

\* A call accepted is an attempt under way, of which a message tells.
LEMMA AcceptedOwes ==
    ASSUME NEW n \in {1, 2}, NEW ls, LinksOf(n, ls), NEW l \in 1..n, ls[l].state = "idle",
           NEW a, NEW q \in Seq(Message), NEW k \in 0..2, Owed(q, Attempts(ls), k)
    PROVE  Owed(q \o <<Plain("SLC_CONNECT_IND")>>, Attempts(Setup(ls, l, a, "incoming")), k)
  <1> DEFINE x == Plain("SLC_CONNECT_IND")
  <1>1. x \in Message /\ x.id = "SLC_CONNECT_IND"
    BY OtherMessages
  <1> HIDE DEF x
  <1>2. "incoming" \in Active
    BY DEF Active
  <1>3. /\ Attempts(Setup(ls, l, a, "incoming")) = Attempts(ls) \cup {0 - l}
        /\ 0 - l \notin Attempts(ls) /\ 0 - l \notin Cfms(q)
    BY <1>2, AttemptsSetup, AttemptsNumbered
  <1>4. Owed(Append(q, x), Attempts(ls) \cup {0 - l}, k)
    BY <1>1, <1>3, OwedAccepted
  <1>5. Append(q, x) = q \o <<x>>
    BY <1>1, Extended
  <1> QED
    BY <1>3, <1>4, <1>5 DEF x

\* A call refused or that waits changes nothing to come; one accepted has its
\* result to come, and a search it crosses is reported.
LEMMA CallOwes ==
    ASSUME LinksInv, NEW a \in Phone, NEW rest \in Seq(Message), ConnectIndFrom(a, rest),
           NEW n \in 0..2, Owed(rest, Attempts(links), n)
    PROVE  Owed(queue', Attempts(links'), n)
  <1> DEFINE l == LinkOf(a)
             told == <<Plain("SLC_CONNECT_IND")>>
  <1>1. CASE links' = links /\ queue' = rest
    BY <1>1
  <1>2. CASE /\ l = 0 /\ IdleOne # 0 /\ links' = Setup(links, IdleOne, a, "incoming")
             /\ queue' = (rest \o <<>>) \o told
    <2>1. IdleOne \in 1..NumLinks /\ links[IdleOne].state = "idle"
      BY <1>2, IdleOneIdle DEF LinksInv
    <2>2. rest \o <<>> = rest
      BY Extended
    <2> QED
      BY <1>2, <2>1, <2>2, OneOrTwo, AcceptedOwes DEF LinksInv
  <1>3. CASE /\ l # 0 /\ links[l].state = "searching"
             /\ links' = Setup(Reset(links, l), l, a, "incoming")
             /\ queue' = (rest \o Failed(l)) \o told
    <2>1. l \in 1..NumLinks /\ links[l].addr = a
      BY <1>3, PhoneOfLink
    <2>2. Owed(rest \o Failed(l), Attempts(Reset(links, l)), n)
      BY <1>3, <2>1, ResetReported DEF Active
    <2>3. rest \o Failed(l) \in Seq(Message)
      <3>1. Failed(l) \in Seq(Message)
        BY <2>1, FailureSent DEF Only
      <3> QED
        BY <3>1, ConcatProperties
    <2>4. LinksOf(NumLinks, Reset(links, l)) /\ Reset(links, l)[l].state = "idle"
      BY <2>1, OneOrTwo, ResetKeeps DEF LinksInv
    <2> HIDE DEF l
    <2> QED
      BY <1>3, <2>1, <2>2, <2>3, <2>4, OneOrTwo, AcceptedOwes
  <1> QED
    BY <1>1, <1>2, <1>3 DEF ConnectIndFrom

\* A call heard, at once or again.
LEMMA CallsOwe ==
    ASSUME LinksInv, queue \in Seq(Message),
           HandleRfcConnectInd \/ \E a \in Phone : RfcConnectIndAgain(a)
    PROVE  KeepsToCome
  <1> SUFFICES ASSUME NEW n \in 0..2, ToCome(n) PROVE Owed(queue', Attempts(links'), n)
    BY DEF KeepsToCome, ToCome
  <1>1. CASE HandleRfcConnectInd
    <2>1. queue # <<>> /\ Head(queue).id = "RFC_CONNECT_IND"
      BY <1>1 DEF HandleRfcConnectInd, Receives
    <2>2. Tail(queue) \in Seq(Message) /\ Owed(Tail(queue), Attempts(links), n)
      BY <2>1, Passed
    <2>3. PICK a \in Phone : ConnectIndFrom(a, Tail(queue))
      BY <1>1 DEF HandleRfcConnectInd
    <2> QED
      BY <2>2, <2>3, CallOwes
  <1>2. CASE \E a \in Phone : RfcConnectIndAgain(a)
    BY <1>2, CallOwes DEF RfcConnectIndAgain, ToCome
  <1> QED
    BY <1>1, <1>2

\* What comes from outside is no result, and a call only if a phone calls.
LEMMA OutsideSends ==
    ASSUME queue \in Seq(Message),
           \/ \E a \in Phone : PhoneCalls(a) \/ PhoneCompletesAt(a) \/ StackCloses(a)
           \/ \E a \in Phone, ok \in BOOLEAN : StackFinds(a, ok) \/ StackConnects(a, ok)
           \/ \E a \in Phone, status \in Status : PhoneEnds(a, status)
    PROVE  /\ UNCHANGED <<conf, slc, app, links>>
           /\ \E x \in Message :
                 /\ x.id \in Neither /\ queue' = Append(queue, x)
                 /\ \/ x.id # "RFC_CONNECT_IND" /\ held' = held /\ offered' = offered
                    \/ \E a \in Phone : PhoneCalls(a) /\ x = OfPhone("RFC_CONNECT_IND", a)
  <1> DEFINE Quietly == UNCHANGED <<conf, slc, app, links>> /\ held' = held /\ offered' = offered
             Other == \E x \in Message : x.id \in Neither \ {"RFC_CONNECT_IND"}
                                         /\ queue' = Append(queue, x)
  <1>1. ASSUME NEW a \in Phone, NEW status \in Status, Ends(a, status)
        PROVE  Quietly /\ Other
    <2> DEFINE x == [id |-> "RFC_DISCONNECT", addr |-> a, status |-> status]
    <2>1. x \in Message /\ x.id \in Neither \ {"RFC_CONNECT_IND"}
      BY OtherMessages DEF Neither
    <2>2. queue' = Append(queue, x) /\ Quietly
      BY <1>1 DEF Ends, lib
    <2> HIDE DEF x
    <2> QED
      BY <2>1, <2>2
  <1>2. ASSUME NEW a \in Phone, NEW ok \in BOOLEAN, StackConnects(a, ok) \/ StackFinds(a, ok)
        PROVE  Quietly /\ Other
    <2>1. \A id \in {"SDP_CFM", "RFC_CONNECT_CFM"} :
            Answer(id, a, ok) \in Message
            /\ Answer(id, a, ok).id \in Neither \ {"RFC_CONNECT_IND"}
      BY OtherMessages DEF Neither
    <2>2. /\ Quietly
          /\ \E id \in {"SDP_CFM", "RFC_CONNECT_CFM"} : queue' = Append(queue, Answer(id, a, ok))
      BY <1>2 DEF StackConnects, StackFinds, lib
    <2> QED
      BY <2>1, <2>2
  <1>3. ASSUME NEW a \in Phone, PhoneCompletesAt(a)
        PROVE  Quietly /\ Other
    <2>1. OfPhone("AT_COMPLETE", a) \in Message
          /\ OfPhone("AT_COMPLETE", a).id \in Neither \ {"RFC_CONNECT_IND"}
      BY OtherMessages DEF Neither
    <2>2. Quietly /\ queue' = Append(queue, OfPhone("AT_COMPLETE", a))
      BY <1>3 DEF PhoneCompletesAt, lib, stack
    <2> QED
      BY <2>1, <2>2
  <1>4. ASSUME NEW a \in Phone, PhoneCalls(a)
        PROVE  UNCHANGED <<conf, slc, app, links>> /\ queue' = Append(queue, OfPhone("RFC_CONNECT_IND", a))
               /\ OfPhone("RFC_CONNECT_IND", a) \in Message
               /\ OfPhone("RFC_CONNECT_IND", a).id \in Neither
    <2>1. OfPhone("RFC_CONNECT_IND", a) \in Message /\ OfPhone("RFC_CONNECT_IND", a).id \in Neither
      BY OtherMessages DEF Neither
    <2> QED
      BY <1>4, <2>1 DEF PhoneCalls, lib
  <1>5. CASE \E a \in Phone : PhoneCalls(a)
    BY <1>4, <1>5
  <1>6. CASE ~\E a \in Phone : PhoneCalls(a)
    <2>1. Quietly /\ Other
      BY <1>1, <1>2, <1>3, <1>6 DEF StackCloses, PhoneEnds, Status
    <2> QED
      BY <2>1
  <1> QED
    BY <1>5, <1>6

\* What the library tells the application.
Reports == {"SLC_CONNECT_IND", "SLC_CONNECT_CFM", "SLC_DISCONNECT_IND"}

\* Its handlers send nothing else.
LEMMA LibrarySends ==
    ASSUME StreamInv,
           \/ HandleDisconnectReq \/ HandleSdpCfm \/ HandleRfcConnectCfm
           \/ HandleRfcConnectInd \/ (\E a \in Phone : RfcConnectIndAgain(a))
           \/ HandleAtComplete \/ HandleRfcDisconnect
    PROVE  /\ UNCHANGED <<conf, slc, app>>
           /\ \E s : /\ queue' = queue \o s \/ (queue # <<>> /\ queue' = Tail(queue) \o s)
                     /\ Only(s, Reports)
  <1> DEFINE ids == Reports
             Sends(q) == \E s : Only(s, ids) /\ queue' = q \o s
  <1>1. queue \in Seq(Message) /\ LinksInv /\ DOMAIN links = 1..NumLinks
        /\ \A k \in 1..NumLinks : links[k] \in LinkRecord
    BY DEF StreamInv, Typed, LinksInv, LinksOf
  <1>2. queue # <<>> => Tail(queue) \in Seq(Message) /\ Head(queue) \in Message
    BY <1>1, Extended, HeadTailProperties
  <1>3. ASSUME NEW q \in Seq(Message), queue' = q PROVE Sends(q)
    BY <1>3, Extended, OnlyEmpty
  <1>4. ASSUME NEW l \in 1..NumLinks, links[l].state # "idle"
        PROVE  Only(Failed(l), ids)
    <2>1. links[l].addr \in Phone
      BY <1>1, <1>4 DEF LinksInv, LinksOf, LinkRecord
    <2>2. {"SLC_CONNECT_CFM"} \subseteq ids
      BY DEF Reports
    <2> HIDE DEF ids
    <2> QED
      BY <1>1, <2>1, <2>2, FailureSent, OnlyWider
  <1>5. \A a \in Phone : LinkOf(a) # 0 =>
            LinkOf(a) \in 1..NumLinks /\ links[LinkOf(a)].state # "idle"
    BY <1>1, PhoneOfLink
  <1>6. CASE HandleDisconnectReq
    <2>1. UNCHANGED <<conf, slc, app>> /\ queue # <<>>
      BY <1>6 DEF HandleDisconnectReq, Receives
    <2> DEFINE x == DisconnectInd("no_slc", 0, NULL)
    <2>2. PICK l \in DOMAIN links \cup {0} :
            \/ queue' = Tail(queue)
            \/ queue' = Tail(queue) \o <<x>>
            \/ l # 0 /\ links[l].state = "searching" /\ queue' = Tail(queue) \o Failed(l)
      BY <1>6 DEF HandleDisconnectReq, Done, DoneAndSend
    <2>3. x \in Message /\ x.id \in ids
      <3>1. 0 \in 0..2 /\ "no_slc" \in Status \cup {"no_slc"} /\ NULL \in Phone \cup {NULL}
        OBVIOUS
      <3>2. x \in Message /\ x.id = "SLC_DISCONNECT_IND"
        BY <3>1, ConnectMessages, Zenon
      <3> QED
        BY <3>2 DEF Reports
    <2> HIDE DEF x
    <2>4. Only(<<x>>, ids)
      BY <2>3, OnlyOne
    <2>5. Sends(Tail(queue))
      BY <1>1, <1>2, <1>3, <1>4, <2>1, <2>2, <2>4
    <2> QED
      BY <2>1, <2>5
  <1>7. CASE HandleSdpCfm
    <2> DEFINE l == LinkOf(Head(queue).addr)
    <2>1. UNCHANGED <<conf, slc, app>> /\ queue # <<>> /\ Head(queue).id = "SDP_CFM"
      BY <1>7 DEF HandleSdpCfm, Receives
    <2>2. \/ queue' = Tail(queue)
          \/ l # 0 /\ queue' = Tail(queue) \o Failed(l)
      BY <1>7 DEF HandleSdpCfm, Done, DoneAndSend, m
    <2>3. Head(queue).addr \in Phone
      BY <1>2, <2>1, PhoneNamed
    <2>4. Sends(Tail(queue))
      BY <1>2, <1>3, <1>4, <1>5, <2>1, <2>2, <2>3
    <2> QED
      BY <2>1, <2>4
  <1>8. CASE HandleRfcConnectCfm
    <2>1. UNCHANGED <<conf, slc, app>> /\ queue # <<>>
      BY <1>8 DEF HandleRfcConnectCfm, Receives
    <2>2. PICK a \in Phone : \/ queue' = Tail(queue)
                             \/ LinkOf(a) # 0 /\ queue' = Tail(queue) \o Failed(LinkOf(a))
      BY <1>8 DEF HandleRfcConnectCfm, Done, DoneAndSend
    <2>3. Sends(Tail(queue))
      BY <1>2, <1>3, <1>4, <1>5, <2>1, <2>2
    <2> QED
      BY <2>1, <2>3
  <1>9. ASSUME NEW a \in Phone, NEW rest \in Seq(Message), ConnectIndFrom(a, rest)
        PROVE  Sends(rest)
    <2> DEFINE told == <<Plain("SLC_CONNECT_IND")>>
    <2>1. Only(told, ids)
      BY OtherMessages, OnlyOne DEF Reports
    <2>2. rest \o <<>> = rest /\ Only(<<>>, ids)
      BY Extended, OnlyEmpty
    <2>3. \/ queue' = rest
          \/ queue' = (rest \o <<>>) \o told
          \/ LinkOf(a) # 0 /\ queue' = (rest \o Failed(LinkOf(a))) \o told
      BY <1>9 DEF ConnectIndFrom
    <2>4. LinkOf(a) # 0 => Only(Failed(LinkOf(a)), ids)
      BY <1>4, <1>5
    <2> HIDE DEF ids, told
    <2>5. LinkOf(a) # 0 => /\ Only(Failed(LinkOf(a)) \o told, ids)
                           /\ (rest \o Failed(LinkOf(a))) \o told = rest \o (Failed(LinkOf(a)) \o told)
      BY <2>1, <2>4, OnlyConcat, Extended DEF Only
    <2> QED
      BY <2>1, <2>2, <2>3, <2>5
  <1>10. CASE HandleRfcConnectInd
    <2>1. UNCHANGED <<conf, slc, app>> /\ queue # <<>>
      BY <1>10 DEF HandleRfcConnectInd, Receives
    <2>2. PICK a \in Phone : ConnectIndFrom(a, Tail(queue))
      BY <1>10 DEF HandleRfcConnectInd
    <2>3. Sends(Tail(queue))
      BY <1>2, <1>9, <2>1, <2>2
    <2> QED
      BY <2>1, <2>3
  <1>11. CASE \E a \in Phone : RfcConnectIndAgain(a)
    <2>1. UNCHANGED <<conf, slc, app>> /\ \E a \in Phone : ConnectIndFrom(a, queue)
      BY <1>11 DEF RfcConnectIndAgain
    <2>2. Sends(queue)
      BY <1>1, <1>9, <2>1
    <2> QED
      BY <2>1, <2>2
  <1>12. CASE HandleAtComplete
    <2> DEFINE a == Head(queue).addr
               l == LinkOf(a)
               x == ConnectCfm(TRUE, links[l].priority, a)
    <2>1. UNCHANGED <<conf, slc, app>> /\ queue # <<>> /\ Head(queue).id = "AT_COMPLETE"
      BY <1>12 DEF HandleAtComplete, Receives
    <2>2. queue' = Tail(queue) \/ (l # 0 /\ queue' = Tail(queue) \o <<x>>)
      BY <1>12 DEF HandleAtComplete, Done, DoneAndSend, m
    <2>3. a \in Phone
      BY <1>2, <2>1, PhoneNamed
    <2>4. l # 0 => x \in Message /\ x.id \in ids
      <3>1. l # 0 => links[l].priority \in 0..2
        BY <1>1, <1>5, <2>3 DEF LinkRecord
      <3>2. l # 0 => x \in Message /\ x.id = "SLC_CONNECT_CFM"
        BY <2>3, <3>1, ConnectMessages
      <3> QED
        BY <3>2 DEF Reports
    <2> HIDE DEF x
    <2>5. l # 0 => Only(<<x>>, ids)
      BY <2>4, OnlyOne
    <2>6. Sends(Tail(queue))
      BY <1>2, <1>3, <2>1, <2>2, <2>5
    <2> QED
      BY <2>1, <2>6
  <1>13. CASE HandleRfcDisconnect
    <2> DEFINE a == Head(queue).addr
               l == LinkOf(a)
               x == DisconnectInd(Head(queue).status, links[l].priority, a)
    <2>1. /\ UNCHANGED <<conf, slc, app>> /\ queue # <<>>
          /\ Head(queue).id = "RFC_DISCONNECT" /\ l # 0
      BY <1>13 DEF HandleRfcDisconnect, Receives, m
    <2>2. queue' = Tail(queue) \o Failed(l) \/ queue' = Tail(queue) \o <<x>>
      BY <1>13 DEF HandleRfcDisconnect, DoneAndSend, m
    <2>3. a \in Phone /\ Head(queue).status \in Status
      BY <1>2, <2>1 DEF Message, User
    <2>4. x \in Message /\ x.id \in ids
      <3>1. links[l].priority \in 0..2
        BY <1>1, <1>5, <2>1, <2>3 DEF LinkRecord
      <3>2. x \in Message /\ x.id = "SLC_DISCONNECT_IND"
        BY <2>3, <3>1, ConnectMessages
      <3> QED
        BY <3>2 DEF Reports
    <2> HIDE DEF x
    <2>5. Only(<<x>>, ids)
      BY <2>4, OnlyOne
    <2>6. Sends(Tail(queue))
      BY <1>4, <1>5, <2>1, <2>2, <2>3, <2>5
    <2> QED
      BY <2>1, <2>6
  <1> QED
    BY <1>6, <1>7, <1>8, <1>10, <1>11, <1>12, <1>13

-----------------------------------------------------------------------------
\* One of the kinds X waits in the queue q.
Has(q, X) == \E k \in 1..Len(q) : q[k].id \in X

\* None of the kinds Y waits behind one of the kinds X.
Never(q, X, Y) == \A j, k \in 1..Len(q) : j < k /\ q[j].id \in X => q[k].id \notin Y

\* The key that turns the headset on, and what is asked of one that is on.
TurnOn == {"POWER_ON"}
WhileOn == {"ESTABLISH", "POWER_OFF"}

\* What waits in a queue extended.
LEMMA HasExtended ==
    ASSUME NEW q \in Seq(Message), NEW s \in Seq(Message), NEW X, NEW Y, ~Has(s, Y)
    PROVE  /\ Has(q \o s, Y) => Has(q, Y)
           /\ Never(q, X, Y) => Never(q \o s, X, Y)
  <1>1. /\ Len(q) \in Nat /\ Len(s) \in Nat /\ Len(q \o s) = Len(q) + Len(s)
        /\ \A i \in 1..(Len(q) + Len(s)) :
              (q \o s)[i] = IF i <= Len(q) THEN q[i] ELSE s[i - Len(q)]
    BY ConcatProperties, LenProperties
  <1>2. /\ \A i \in 1..Len(q) : (q \o s)[i] = q[i]
        /\ \A i \in 1..Len(q \o s) : i \notin 1..Len(q) => (q \o s)[i].id \notin Y
    BY <1>1 DEF Has
  <1>3. \A k \in 1..Len(q) : \A j \in 1..Len(q \o s) : j < k => j \in 1..Len(q)
    BY <1>1
  <1> QED
    BY <1>1, <1>2, <1>3 DEF Has, Never

\* What waits once the first message is taken.
LEMMA HasTaken ==
    ASSUME NEW q \in Seq(Message), q # <<>>, NEW X, NEW Y
    PROVE  /\ Has(Tail(q), X) => Has(q, X)
           /\ Never(q, X, Y) => Never(Tail(q), X, Y)
           /\ Never(q, X, Y) /\ Head(q).id \in X => ~Has(Tail(q), Y)
           /\ Head(q).id \in X => Has(q, X)
  <1>1. /\ Len(q) \in Nat \ {0} /\ Head(q) = q[1] /\ Len(Tail(q)) = Len(q) - 1
        /\ \A i \in 1..Len(Tail(q)) : Tail(q)[i] = q[i + 1]
    BY HeadTailProperties, EmptySeq
  <1>2. /\ \A i \in 1..Len(Tail(q)) : i \in Nat /\ i + 1 \in 1..Len(q) /\ 1 < i + 1
                                      /\ Tail(q)[i] = q[i + 1]
        /\ 1 \in 1..Len(q)
    BY <1>1
  <1>3. \A i, j \in 1..Len(Tail(q)) : i < j => i + 1 < j + 1
    BY <1>2
  <1> HIDE DEF Never
  <1>4. Has(Tail(q), X) => Has(q, X)
    BY <1>2 DEF Has
  <1>5. ASSUME Never(q, X, Y) PROVE Never(Tail(q), X, Y)
    BY <1>2, <1>3, <1>5 DEF Never
  <1>6. ASSUME Never(q, X, Y), Head(q).id \in X PROVE ~Has(Tail(q), Y)
    BY <1>1, <1>2, <1>6 DEF Has, Never
  <1>7. Head(q).id \in X => Has(q, X)
    BY <1>1, <1>2 DEF Has
  <1> QED
    BY <1>4, <1>5, <1>6, <1>7

\* Kinds that do not wait are behind nothing, and nothing is behind them.
LEMMA HasNone ==
    ASSUME NEW q, NEW X, ~Has(q, X), NEW Y
    PROVE  Never(q, X, Y) /\ Never(q, Y, X)
  BY DEF Has, Never

LEMMA OnlyHas ==
    ASSUME NEW s, NEW ids, Only(s, ids), NEW X, ids \cap X = {}
    PROVE  ~Has(s, X)
  BY DEF Only, Has

\* When the headset is on no key that turns it on waits behind what is asked of one
\* that is; when it is off, the other way round: such keys are pressed when it is off.
OnInv ==
    /\ state # "limbo" => Never(queue, WhileOn, TurnOn)
    /\ state = "limbo" => Never(queue, TurnOn, WhileOn)

\* A search that goes on while the headset pauses, or is to be turned on again, has
\* been interrupted.
PauseInv ==
    /\ connection_in_progress /\ Paused => interrupted
    /\ connection_in_progress /\ Has(queue, TurnOn) => interrupted

\* A search not interrupted will continue, or a result is to come that lets it: one
\* that is not of a call, and another if a call has been heard of.
ResultInv ==
    connection_in_progress /\ ~interrupted =>
        continues > 0 \/ ToCome(IF gSlcConnectRemote THEN 2 ELSE 1)

SearchInv == EndInv /\ OnInv /\ PauseInv /\ ToCome(0) /\ ResultInv

\* What the history says of a step.
LEMMA HistoryPauses ==
    ASSUME History
    PROVE  /\ connection_in_progress' /\ Paused' => interrupted'
           /\ connection_in_progress' /\ Paused => interrupted'
           /\ connection_in_progress' /\ interrupted => interrupted'
  BY DEF History

\* A step of a search interrupted.
LEMMA InterruptedKeeps ==
    ASSUME EndInv', OnInv', ToCome(0)', connection_in_progress' => interrupted'
    PROVE  SearchInv'
  BY DEF SearchInv, PauseInv, ResultInv

\* Messages sent that are not the user's keep the order of those.
LEMMA OnKept ==
    ASSUME queue \in Seq(Message), OnInv, state' = "limbo" <=> state = "limbo",
           NEW s, NEW ids, Only(s, ids), ids \cap (TurnOn \cup WhileOn) = {},
           queue' = queue \o s \/ (queue # <<>> /\ queue' = Tail(queue) \o s)
    PROVE  OnInv' /\ (Has(queue, TurnOn)' => Has(queue, TurnOn))
  <1>1. s \in Seq(Message) /\ ~Has(s, TurnOn) /\ ~Has(s, WhileOn)
    BY OnlyHas DEF Only
  <1>2. queue # <<>> => Tail(queue) \in Seq(Message)
    BY Extended
  <1>3. /\ Has(queue', TurnOn) => Has(queue, TurnOn)
        /\ Never(queue, WhileOn, TurnOn) => Never(queue', WhileOn, TurnOn)
        /\ Never(queue, TurnOn, WhileOn) => Never(queue', TurnOn, WhileOn)
    <2>1. CASE queue' = queue \o s
      BY <1>1, <2>1, HasExtended
    <2>2. CASE queue # <<>> /\ queue' = Tail(queue) \o s
      BY <1>1, <1>2, <2>2, HasExtended, HasTaken
    <2> QED
      BY <2>1, <2>2
  <1> QED
    BY <1>3 DEF OnInv

\* A message taken, whatever it is, leaves each call its result.
LEMMA TakenOwes ==
    ASSUME LinksInv, queue \in Seq(Message), queue # <<>>, ToCome(0)
    PROVE  Tail(queue) \in Seq(Message) /\ Owed(Tail(queue), Attempts(links), 0)
  <1>1. Below(Attempts(links))
    BY OneOrTwo, AttemptsNumbered DEF LinksInv
  <1>2. Owed(queue, Attempts(links), 0) /\ Tail(queue) \in Seq(Message) /\ 0 \in 0..2
    BY Extended DEF ToCome
  <1> QED
    BY <1>1, <1>2, OwedTaken

\* A step that leaves the search alone, and what is to come.
LEMMA QuietSearch ==
    ASSUME SearchInv, EndInv', History, KeepsToCome, slc' = slc,
           state' = "limbo" <=> state = "limbo",
           NEW s, NEW ids, Only(s, ids), ids \cap (TurnOn \cup WhileOn) = {},
           queue' = queue \o s \/ (queue # <<>> /\ queue' = Tail(queue) \o s)
    PROVE  SearchInv'
  <1>1. queue \in Seq(Message) /\ OnInv /\ PauseInv /\ ToCome(0) /\ ResultInv
    BY DEF SearchInv, EndInv, StreamInv, Typed
  <1>2. OnInv' /\ (Has(queue, TurnOn)' => Has(queue, TurnOn))
    BY <1>1, OnKept
  <1>3. /\ connection_in_progress' = connection_in_progress /\ continues' = continues
        /\ gSlcConnectRemote' = gSlcConnectRemote
    BY DEF slc
  <1>4. \A n \in 0..2 : ToCome(n) => ToCome(n)'
    BY DEF KeepsToCome
  <1>5. PauseInv'
    BY <1>1, <1>2, <1>3, HistoryPauses DEF PauseInv
  <1>6. ResultInv'
    <2>1. ToCome(1) => ToCome(1)'
      BY <1>4
    <2>2. ToCome(2) => ToCome(2)'
      BY <1>4
    <2> QED
      BY <1>1, <1>3, <2>1, <2>2, HistoryPauses DEF ResultInv
  <1>7. ToCome(0)'
    BY <1>1, <1>4
  <1> QED
    BY <1>2, <1>5, <1>6, <1>7 DEF SearchInv

\* The library's handlers, BlueStack and the phones.
LEMMA LibrarySearch ==
    ASSUME SearchInv, EndInv', History,
           \/ HandleDisconnectReq \/ HandleSdpCfm \/ HandleRfcConnectCfm
           \/ HandleRfcConnectInd \/ (\E a \in Phone : RfcConnectIndAgain(a))
           \/ HandleAtComplete \/ HandleRfcDisconnect
    PROVE  SearchInv'
  <1>1. StreamInv /\ LinksInv /\ queue \in Seq(Message)
    BY DEF SearchInv, EndInv, StreamInv, Typed
  <1>2. KeepsToCome
    BY <1>1, DisconnectOwes, SearchOwes, AnswerOwes, CallsOwe, CompleteOwes, EndOwes
  <1> DEFINE ids == Reports
  <1>3. PICK s : /\ queue' = queue \o s \/ (queue # <<>> /\ queue' = Tail(queue) \o s)
                 /\ Only(s, ids)
    BY <1>1, LibrarySends
  <1>4. slc' = slc /\ state' = state
    <2>1. UNCHANGED <<conf, slc, app>>
      BY <1>1, LibrarySends
    <2> QED
      BY <2>1 DEF app
  <1>5. ids \cap (TurnOn \cup WhileOn) = {}
    BY DEF Reports, TurnOn, WhileOn
  <1> HIDE DEF ids
  <1> QED
    BY <1>2, <1>3, <1>4, <1>5, QuietSearch

LEMMA OutsideSearch ==
    ASSUME SearchInv, EndInv', History,
           \/ \E a \in Phone : PhoneCalls(a) \/ PhoneCompletesAt(a) \/ StackCloses(a)
           \/ \E a \in Phone, ok \in BOOLEAN : StackFinds(a, ok) \/ StackConnects(a, ok)
           \/ \E a \in Phone, status \in Status : PhoneEnds(a, status)
    PROVE  SearchInv'
  <1>1. queue \in Seq(Message)
    BY DEF SearchInv, EndInv, StreamInv, Typed
  <1>2. UNCHANGED <<conf, slc, app, links>>
    BY <1>1, OutsideSends
  <1>3. PICK s : Only(s, Neither) /\ queue' = queue \o s
    <2>1. PICK x \in Message : x.id \in Neither /\ queue' = Append(queue, x)
      BY <1>1, OutsideSends
    <2> QED
      BY <1>1, <2>1, OnlyOne, Extended
  <1>4. slc' = slc /\ state' = state /\ links' = links
    BY <1>2 DEF app
  <1>5. Neither \cap (TurnOn \cup WhileOn) = {}
    BY DEF Neither, TurnOn, WhileOn
  <1>6. KeepsToCome
    <2>1. "SLC_CONNECT_IND" \notin Neither /\ "SLC_CONNECT_CFM" \notin Neither
      BY DEF Neither
    <2>2. \A n \in 0..2 : Owed(queue, Attempts(links), n) => Owed(queue', Attempts(links), n)
      BY <1>1, <1>3, <2>1, OwedExtended
    <2> QED
      BY <1>4, <2>2 DEF KeepsToCome, ToCome
  <1> QED
    BY <1>3, <1>4, <1>5, <1>6, QuietSearch

\* The user turns the headset on only when it is off, and so the search pauses.
LEMMA UserSearch ==
    ASSUME SearchInv, EndInv', History, NEW id \in User, UserPresses(id)
    PROVE  SearchInv'
  <1> DEFINE x == Plain(id)
             s == <<x>>
  <1>1. queue \in Seq(Message) /\ OnInv /\ PauseInv /\ ToCome(0) /\ ResultInv
    BY DEF SearchInv, EndInv, StreamInv, Typed
  <1>2. x \in Message /\ x.id = id
    BY OtherMessages
  <1>3. /\ UNCHANGED <<slc, app, links>> /\ queue' = Append(queue, x)
        /\ id = "POWER_ON" <=> state = "limbo"
    BY DEF UserPresses, lib
  <1> HIDE DEF x
  <1>4. queue' = queue \o s /\ Only(s, {id}) /\ s \in Seq(Message)
    BY <1>1, <1>2, <1>3, OnlyOne, Extended
  <1>5. /\ connection_in_progress' = connection_in_progress /\ continues' = continues
        /\ gSlcConnectRemote' = gSlcConnectRemote /\ state' = state /\ links' = links
    BY <1>3 DEF slc, app
  <1>6. \A n \in 0..2 : Owed(queue, Attempts(links), n) => Owed(queue', Attempts(links), n)
    <2>1. "SLC_CONNECT_IND" \notin {id} /\ "SLC_CONNECT_CFM" \notin {id}
      BY DEF User
    <2> QED
      BY <1>1, <1>4, <2>1, OwedExtended
  <1> HIDE DEF s
  <1>7. \A n \in 0..2 : ToCome(n) => ToCome(n)'
    BY <1>5, <1>6 DEF ToCome
  <1>8. CASE id = "POWER_ON"
    <2>1. state = "limbo" /\ Paused
      BY <1>3, <1>8 DEF Paused
    <2>2. ~Has(s, WhileOn)
      <3>1. {id} \cap WhileOn = {}
        BY <1>8 DEF WhileOn
      <3> QED
        BY <1>4, <3>1, OnlyHas
    <2>3. Never(queue', TurnOn, WhileOn)
      BY <1>1, <1>4, <2>1, <2>2, HasExtended DEF OnInv
    <2>4. OnInv'
      BY <1>5, <2>1, <2>3 DEF OnInv
    <2> QED
      BY <1>1, <1>7, <2>1, <2>4, HistoryPauses, InterruptedKeeps
  <1>9. CASE id # "POWER_ON"
    <2>1. state # "limbo"
      BY <1>3, <1>9
    <2>2. ~Has(s, TurnOn)
      <3>1. {id} \cap TurnOn = {}
        BY <1>9 DEF TurnOn
      <3> QED
        BY <1>4, <3>1, OnlyHas
    <2>3. Never(queue', WhileOn, TurnOn) /\ (Has(queue', TurnOn) => Has(queue, TurnOn))
      BY <1>1, <1>4, <2>1, <2>2, HasExtended DEF OnInv
    <2>4. OnInv'
      BY <1>5, <2>1, <2>3 DEF OnInv
    <2>5. PauseInv'
      BY <1>1, <1>5, <2>3, HistoryPauses DEF PauseInv
    <2>6. ResultInv'
      <3>1. (ToCome(1) => ToCome(1)') /\ (ToCome(2) => ToCome(2)')
        BY <1>7
      <3> QED
        BY <1>1, <1>5, <3>1, HistoryPauses DEF ResultInv
    <2> QED
      BY <1>1, <1>7, <2>4, <2>5, <2>6 DEF SearchInv
  <1> QED
    BY <1>8, <1>9

\* A request starts an attempt, or is refused with its result.
LEMMA RequestOwes ==
    ASSUME LinksInv, NEW a \in Phone, NEW rest \in Seq(Message),
           HfpSlcConnectRequest(a, rest), Owed(rest, Attempts(links), 0)
    PROVE  Owed(queue', Attempts(links'), 1)
  <1>1. CASE LinkOf(a) # 0 \/ IdleOne = 0
    <2> DEFINE x == ConnectCfm(FALSE, 0, a)
    <2>1. x \in Message /\ x.id = "SLC_CONNECT_CFM"
      <3>1. 0 \in 0..2
        OBVIOUS
      <3> QED
        BY <3>1, ConnectMessages, Zenon
    <2>2. queue' = Append(rest, x) /\ links' = links
      BY <1>1 DEF HfpSlcConnectRequest
    <2> HIDE DEF x
    <2>3. Below(Attempts(links))
      BY OneOrTwo, AttemptsNumbered DEF LinksInv
    <2> QED
      BY <2>1, <2>2, <2>3, OwedRefused
  <1>2. CASE LinkOf(a) = 0 /\ IdleOne # 0
    <2> DEFINE l == IdleOne
    <2>1. links' = Setup(links, l, a, "searching") /\ queue' = rest
      BY <1>2 DEF HfpSlcConnectRequest
    <2>2. l \in 1..NumLinks /\ links[l].state = "idle"
      BY <1>2, IdleOneIdle DEF LinksInv
    <2> HIDE DEF l
    <2>3. "searching" \in Active
      BY DEF Active
    <2>4. Attempts(links') = Attempts(links) \cup {0 - l} /\ 0 - l \notin Attempts(links)
      BY <2>1, <2>2, <2>3, OneOrTwo, AttemptsSetup DEF LinksInv
    <2>5. 0 - l \notin Cfms(rest)
      BY <2>2, OneOrTwo, AttemptsNumbered DEF LinksInv
    <2> QED
      BY <2>1, <2>4, <2>5, OwedStarted
  <1> QED
    BY <1>1, <1>2

\* An attempt of the search has its result to come, or sends for the next entry.
LEMMA AttemptOwes ==
    ASSUME LinksInv, NEW id, NEW pending \in Nat, NEW rest \in Seq(Message),
           AttemptConnection(id, pending, rest), Owed(rest, Attempts(links), 0)
    PROVE  /\ Owed(queue', Attempts(links'), 0)
           /\ continues' > 0 \/ Owed(queue', Attempts(links'), 1)
  <1>1. conf.Profiled \subseteq Phone
    BY ConfigurationAssumption DEF LinksInv
  <1>2. CASE id < Len(pdl) /\ pdl[id + 1] \in conf.Profiled
    <2>1. Owed(queue', Attempts(links'), 1)
      BY <1>1, <1>2, RequestOwes DEF AttemptConnection
    <2>2. 0 \in 0..1 /\ 1 \in 0..2
      OBVIOUS
    <2>3. Owed(queue', Attempts(links'), 0)
      BY <2>1, <2>2, OwedFewer
    <2> QED
      BY <2>1, <2>3
  <1>3. CASE ~(id < Len(pdl) /\ pdl[id + 1] \in conf.Profiled)
    <2>1. queue' = rest /\ links' = links /\ continues' > 0
      BY <1>3 DEF AttemptConnection
    <2> QED
      BY <2>1
  <1> QED
    BY <1>2, <1>3

\* The keys and the results heard in limbo: the search pauses, or has been interrupted.
LEMMA PowerSearch ==
    ASSUME SearchInv, EndInv', History,
           HandlePowerOn \/ HandlePowerOff \/ HandleEnterPairing \/ HandleConnectCfmInLimbo
    PROVE  SearchInv'
  <1>1. queue \in Seq(Message) /\ LinksInv /\ OnInv /\ PauseInv /\ ToCome(0)
    BY DEF SearchInv, EndInv, StreamInv, Typed
  <1>2. /\ queue # <<>> /\ connection_in_progress' = connection_in_progress
        /\ Head(queue).id \in {"POWER_ON", "POWER_OFF", "ENTER_PAIRING", "SLC_CONNECT_CFM"}
    BY DEF HandlePowerOn, HandlePowerOff, HandleEnterPairing, HandleConnectCfmInLimbo,
       Receives, slc
  <1>3. links' = links
    BY DEF HandlePowerOn, HandlePowerOff, HandleEnterPairing, HandleConnectCfmInLimbo, lib
  <1>4. Tail(queue) \in Seq(Message) /\ Owed(Tail(queue), Attempts(links), 0)
    BY <1>1, <1>2, TakenOwes
  <1>5. Only(<<>>, {"DISCONNECT_REQ"}) /\ Tail(queue) \o <<>> = Tail(queue)
    BY <1>4, OnlyEmpty, Extended
  <1>6. CASE HandlePowerOff \/ HandleEnterPairing \/ HandleConnectCfmInLimbo
    <2>1. \/ queue' = Tail(queue) \/ queue' = Tail(queue) \o <<>>
          \/ queue' = Tail(queue) \o DisconnectAllSlc
          \/ queue' = Tail(queue) \o IfConnected(DisconnectAllSlc)
      BY <1>6 DEF HandlePowerOff, HandleEnterPairing, HandleConnectCfmInLimbo, Done, DoneAndSend
    <2>2. PICK s : Only(s, {"DISCONNECT_REQ"}) /\ queue' = Tail(queue) \o s
      BY <1>1, <1>5, <2>1, DisconnectsSent
    <2>3. Owed(queue', Attempts(links), 0)
      <3>1. "SLC_CONNECT_IND" \notin {"DISCONNECT_REQ"} /\ "SLC_CONNECT_CFM" \notin {"DISCONNECT_REQ"}
        OBVIOUS
      <3> QED
        BY <1>4, <2>2, <3>1, OwedExtended
    <2>4. ToCome(0)'
      BY <1>3, <2>3 DEF ToCome
    <2>5. connection_in_progress' => interrupted'
      <3>1. Paused \/ Paused'
        BY <1>6 DEF HandlePowerOff, HandleEnterPairing, HandleConnectCfmInLimbo, Paused
      <3> QED
        BY <3>1, HistoryPauses
    <2>6. CASE state' = "limbo" <=> state = "limbo"
      <3>1. {"DISCONNECT_REQ"} \cap (TurnOn \cup WhileOn) = {}
        BY DEF TurnOn, WhileOn
      <3>2. OnInv'
        BY <1>1, <1>2, <2>2, <2>6, <3>1, OnKept
      <3> QED
        BY <2>4, <2>5, <3>2, InterruptedKeeps
    <2>7. CASE ~(state' = "limbo" <=> state = "limbo")
      <3>1. HandlePowerOff /\ state # "limbo" /\ state' = "limbo"
        BY <1>6, <2>7 DEF HandlePowerOff, HandleEnterPairing, HandleConnectCfmInLimbo, app
      <3>2. ~Has(Tail(queue), TurnOn)
        <4>1. Head(queue).id \in WhileOn
          BY <3>1 DEF HandlePowerOff, Receives, WhileOn
        <4> QED
          BY <1>1, <1>2, <3>1, <4>1, HasTaken DEF OnInv
      <3>3. s \in Seq(Message) /\ ~Has(s, TurnOn)
        <4>1. {"DISCONNECT_REQ"} \cap TurnOn = {}
          BY DEF TurnOn
        <4>2. ~Has(s, TurnOn)
          BY <2>2, <4>1, OnlyHas
        <4> QED
          BY <2>2, <4>2 DEF Only
      <3>4. ~Has(queue', TurnOn)
        BY <1>4, <2>2, <3>2, <3>3, HasExtended
      <3>5. OnInv'
        BY <3>1, <3>4, HasNone DEF OnInv
      <3> QED
        BY <2>4, <2>5, <3>5, InterruptedKeeps
    <2> QED
      BY <2>6, <2>7
  <1>7. CASE HandlePowerOn
    <2> DEFINE both == {"DISCONNECT_REQ", "ESTABLISH"}
    <2>1. PICK s : /\ Only(s, both)
                   /\ queue' = Tail(queue) \o s
      <3> DEFINE t == IF conf.AutoReconnectPowerOn THEN <<Plain("ESTABLISH")>> ELSE <<>>
      <3>1. Only(IfConnected(DisconnectAllSlc), both)
        <4>1. {"DISCONNECT_REQ"} \subseteq both
          OBVIOUS
        <4> HIDE DEF both
        <4> QED
          BY <1>1, <4>1, DisconnectsSent, OnlyWider
      <3>2. Only(<<Plain("ESTABLISH")>>, both)
        BY OtherMessages, OnlyOne DEF User
      <3>3. Only(t, both)
        BY <3>2, OnlyEmpty
      <3>4. queue' = Tail(queue) \o (IfConnected(DisconnectAllSlc) \o t)
        BY <1>7 DEF HandlePowerOn, DoneAndSend
      <3> QED
        BY <3>1, <3>3, <3>4, OnlyConcat
    <2>2. ToCome(0)'
      <3>1. "SLC_CONNECT_IND" \notin both /\ "SLC_CONNECT_CFM" \notin both
        OBVIOUS
      <3>2. Owed(queue', Attempts(links), 0)
        BY <1>4, <2>1, <3>1, OwedExtended
      <3> QED
        BY <1>3, <3>2 DEF ToCome
    <2>3. Head(queue).id \in TurnOn /\ state' = "connectable"
      BY <1>7 DEF HandlePowerOn, Receives, TurnOn, EnterConnectable
    <2>4. connection_in_progress' => interrupted'
      <3>1. Has(queue, TurnOn)
        BY <1>1, <1>2, <2>3, HasTaken
      <3> QED
        BY <1>1, <1>2, <3>1, HistoryPauses DEF PauseInv
    <2>5. Never(Tail(queue), WhileOn, TurnOn)
      <3>1. CASE state = "limbo"
        <4>1. ~Has(Tail(queue), WhileOn)
          BY <1>1, <1>2, <2>3, <3>1, HasTaken DEF OnInv
        <4> QED
          BY <4>1, HasNone
      <3>2. CASE state # "limbo"
        BY <1>1, <1>2, <3>2, HasTaken DEF OnInv
      <3> QED
        BY <3>1, <3>2
    <2>6. Never(queue', WhileOn, TurnOn)
      <3>1. s \in Seq(Message) /\ ~Has(s, TurnOn)
        <4>1. both \cap TurnOn = {}
          BY DEF TurnOn
        <4> HIDE DEF both
        <4> QED
          BY <2>1, <4>1, OnlyHas DEF Only
      <3> QED
        BY <1>4, <2>1, <2>5, <3>1, HasExtended
    <2>7. OnInv'
      BY <2>3, <2>6 DEF OnInv
    <2> QED
      BY <2>2, <2>4, <2>7, InterruptedKeeps
  <1> QED
    BY <1>6, <1>7

\* The pairing mode ends, the timer, and a connection that ends leave the search alone.
LEMMA TimeSearch ==
    ASSUME SearchInv, EndInv', History,
           PairingEnds \/ ConnectableTimeout \/ HandleDisconnectInd
    PROVE  SearchInv'
  <1>1. queue \in Seq(Message) /\ LinksInv
    BY DEF SearchInv, EndInv, StreamInv, Typed
  <1>2. links' = links /\ slc' = slc
    BY DEF PairingEnds, ConnectableTimeout, HandleDisconnectInd, lib
  <1>3. state' = "limbo" <=> state = "limbo"
    BY DEF PairingEnds, ConnectableTimeout, HandleDisconnectInd, EnterConnectable, IsConnected
  <1>4. \/ queue' = queue
        \/ /\ queue # <<>> /\ queue' = Tail(queue)
           /\ Head(queue).id \notin {"SLC_CONNECT_CFM", "SLC_CONNECT_IND"}
    BY DEF PairingEnds, ConnectableTimeout, HandleDisconnectInd, Receives, Done
  <1>5. KeepsToCome
    <2>1. ASSUME NEW n \in 0..2, ToCome(n) PROVE Owed(queue', Attempts(links), n)
      BY <1>1, <1>4, <2>1, Passed DEF ToCome
    <2> QED
      BY <1>2, <2>1 DEF KeepsToCome, ToCome
  <1>6. /\ Only(<<>>, {})
        /\ queue' = queue \o <<>> \/ (queue # <<>> /\ queue' = Tail(queue) \o <<>>)
    BY <1>1, <1>4, Extended, OnlyEmpty
  <1> QED
    BY <1>2, <1>3, <1>5, <1>6, QuietSearch

\* A call heard of: its result is to come, and the one that lets the search go on too.
LEMMA HeardSearch ==
    ASSUME SearchInv, EndInv', History, HandleConnectInd
    PROVE  SearchInv'
  <1>1. queue \in Seq(Message) /\ LinksInv /\ OnInv /\ PauseInv /\ ToCome(0) /\ ResultInv
    BY DEF SearchInv, EndInv, StreamInv, Typed
  <1>2. /\ queue # <<>> /\ Head(queue).id = "SLC_CONNECT_IND" /\ queue' = Tail(queue)
        /\ links' = links /\ state' = state /\ continues' = continues
        /\ connection_in_progress' = connection_in_progress
        /\ gSlcConnectRemote' = (gSlcConnectRemote \/ state # "limbo")
    BY DEF HandleConnectInd, Receives, Done, app, lib
  <1>3. Below(Attempts(links))
    BY <1>1, OneOrTwo, AttemptsNumbered DEF LinksInv
  <1>4. \A n \in 0..2 : Owed(queue, Attempts(links), n) =>
            Owed(Tail(queue), Attempts(links), IF n = 2 THEN 2 ELSE n + 1)
    BY <1>1, <1>2, <1>3, OwedTaken
  <1>5. ToCome(0)'
    <2>1. Owed(Tail(queue), Attempts(links), 0)
      BY <1>1, <1>2, TakenOwes
    <2> QED
      BY <1>2, <2>1 DEF ToCome
  <1>6. (ToCome(1) => ToCome(2)') /\ (ToCome(2) => ToCome(2)')
    <2>1. 1 \in 0..2 /\ 2 \in 0..2
      OBVIOUS
    <2>2. /\ Owed(queue, Attempts(links), 1) => Owed(Tail(queue), Attempts(links), 2)
          /\ Owed(queue, Attempts(links), 2) => Owed(Tail(queue), Attempts(links), 2)
      BY <1>4, <2>1
    <2> QED
      BY <1>2, <2>2 DEF ToCome
  <1>7. OnInv' /\ (Has(queue, TurnOn)' => Has(queue, TurnOn))
    <2>1. Only(<<>>, {}) /\ queue' = Tail(queue) \o <<>>
      BY <1>1, <1>2, Extended, OnlyEmpty
    <2> QED
      BY <1>1, <1>2, <2>1, OnKept
  <1>8. PauseInv'
    BY <1>1, <1>2, <1>7, HistoryPauses DEF PauseInv
  <1>9. ResultInv'
    <2> SUFFICES ASSUME connection_in_progress', ~interrupted', ~(continues' > 0)
                 PROVE  ToCome(IF gSlcConnectRemote THEN 2 ELSE 1)'
      BY DEF ResultInv
    <2>1. connection_in_progress /\ ~interrupted /\ ~Paused /\ ~(continues > 0)
      BY <1>2, HistoryPauses
    <2>2. ToCome(IF gSlcConnectRemote THEN 2 ELSE 1)
      BY <1>1, <2>1 DEF ResultInv
    <2>3. ToCome(2)'
      BY <1>6, <2>2
    <2>4. gSlcConnectRemote'
      BY <1>2, <2>1 DEF Paused
    <2> QED
      BY <2>3, <2>4
  <1> QED
    BY <1>5, <1>7, <1>8, <1>9 DEF SearchInv

\* A result heard: of a call, and one more is to come, or of the search's own attempt,
\* which continues.
LEMMA ResultSearch ==
    ASSUME SearchInv, EndInv', History, HandleConnectSuccess \/ HandleConnectFail
    PROVE  SearchInv'
  <1>1. queue \in Seq(Message) /\ LinksInv /\ OnInv /\ PauseInv /\ ToCome(0) /\ ResultInv
        /\ continues \in Nat
    BY DEF SearchInv, EndInv, StreamInv, Typed
  <1>2. /\ queue # <<>> /\ Head(queue).id = "SLC_CONNECT_CFM" /\ queue' = Tail(queue)
        /\ links' = links /\ state # "limbo" /\ state' # "limbo"
        /\ connection_in_progress' = connection_in_progress
        /\ gSlcConnectRemote' = FALSE
    BY DEF HandleConnectSuccess, HandleConnectFail, Receives, Done, EnterConnected, lib
  <1>3. Below(Attempts(links))
    BY <1>1, OneOrTwo, AttemptsNumbered DEF LinksInv
  <1>4. ToCome(0)'
    <2>1. Owed(Tail(queue), Attempts(links), 0)
      BY <1>1, <1>2, TakenOwes
    <2> QED
      BY <1>2, <2>1 DEF ToCome
  <1>5. ToCome(2) => ToCome(1)'
    <2>1. 2 \in 0..2
      OBVIOUS
    <2>2. Owed(queue, Attempts(links), 2) => Owed(Tail(queue), Attempts(links), 2 - 1)
      BY <1>1, <1>2, <1>3, <2>1, OwedTaken
    <2>3. 2 - 1 = 1
      OBVIOUS
    <2> QED
      BY <1>2, <2>2, <2>3 DEF ToCome
  <1>6. OnInv' /\ (Has(queue, TurnOn)' => Has(queue, TurnOn))
    <2>1. Only(<<>>, {}) /\ queue' = Tail(queue) \o <<>>
      BY <1>1, <1>2, Extended, OnlyEmpty
    <2> QED
      BY <1>1, <1>2, <2>1, OnKept
  <1>7. PauseInv'
    BY <1>1, <1>2, <1>6, HistoryPauses DEF PauseInv
  <1>8. Paused \/ continues' = IF gSlcConnectRemote THEN continues ELSE continues + 1
    BY DEF HandleConnectSuccess, HandleConnectFail, ContinueIfOwn, Paused
  <1>9. ResultInv'
    <2> SUFFICES ASSUME connection_in_progress', ~interrupted', ~(continues' > 0)
                 PROVE  ToCome(1)'
      BY <1>2 DEF ResultInv
    <2>1. connection_in_progress /\ ~interrupted /\ ~Paused
      BY <1>2, HistoryPauses
    <2>2. gSlcConnectRemote /\ ~(continues > 0)
      BY <1>1, <1>8, <2>1
    <2>3. ToCome(2)
      BY <1>1, <2>1, <2>2 DEF ResultInv
    <2> QED
      BY <1>5, <2>3
  <1> QED
    BY <1>4, <1>6, <1>7, <1>9 DEF SearchInv

\* The search starts with an attempt of its own; if the headset is to be turned on
\* again first, it is off.
LEMMA EstablishSearch ==
    ASSUME SearchInv, EndInv', History, HandleEstablish
    PROVE  SearchInv'
  <1>1. queue \in Seq(Message) /\ LinksInv /\ OnInv /\ PauseInv /\ ToCome(0) /\ ResultInv
        /\ continues \in Nat
    BY DEF SearchInv, EndInv, StreamInv, Typed
  <1>2. queue # <<>> /\ Head(queue).id = "ESTABLISH" /\ state' = state
    BY DEF HandleEstablish, Receives, app
  <1>3. Tail(queue) \in Seq(Message) /\ Owed(Tail(queue), Attempts(links), 0)
    BY <1>1, <1>2, TakenOwes
  <1>4. Only(<<>>, {"SLC_CONNECT_CFM"}) /\ Tail(queue) \o <<>> = Tail(queue)
    BY <1>3, OnlyEmpty, Extended
  <1>5. {"SLC_CONNECT_CFM"} \cap (TurnOn \cup WhileOn) = {}
    BY DEF TurnOn, WhileOn
  <1>6. CASE slc' = slc /\ links' = links /\ queue' = Tail(queue)
    <2>1. KeepsToCome
      <3>1. \A n \in 0..2 : ToCome(n) => Owed(Tail(queue), Attempts(links), n)
        BY <1>1, <1>2, Passed
      <3> QED
        BY <1>6, <3>1 DEF KeepsToCome, ToCome
    <2> QED
      BY <1>2, <1>4, <1>5, <1>6, <2>1, QuietSearch
  <1>7. ASSUME NEW s, Only(s, {"SLC_CONNECT_CFM"}), queue' = Tail(queue) \o s,
               Owed(queue', Attempts(links'), 0), gSlcConnectRemote' = FALSE,
               connection_in_progress' =>
                   continues' > 0 \/ Owed(queue', Attempts(links'), 1)
        PROVE  SearchInv'
    <2>1. OnInv'
      BY <1>1, <1>2, <1>5, <1>7, OnKept
    <2>2. PauseInv'
      <3>1. Has(queue', TurnOn) => state = "limbo"
        <4>1. s \in Seq(Message) /\ ~Has(s, TurnOn)
          <5>1. {"SLC_CONNECT_CFM"} \cap TurnOn = {}
            BY DEF TurnOn
          <5>2. ~Has(s, TurnOn)
            BY <1>7, <5>1, OnlyHas
          <5> QED
            BY <1>7, <5>2 DEF Only
        <4>2. Has(queue', TurnOn) => Has(Tail(queue), TurnOn)
          BY <1>3, <1>7, <4>1, HasExtended
        <4>3. Head(queue).id \in WhileOn
          BY <1>2 DEF WhileOn
        <4> QED
          BY <1>1, <1>2, <4>2, <4>3, HasTaken DEF OnInv
      <3>2. state = "limbo" => Paused
        BY DEF Paused
      <3> QED
        BY <3>1, <3>2, HistoryPauses DEF PauseInv
    <2>3. ToCome(0)' /\ ResultInv'
      BY <1>7 DEF ToCome, ResultInv
    <2> QED
      BY <2>1, <2>2, <2>3 DEF SearchInv
  <1>8. CASE gSlcConnectRemote' = FALSE /\ \E id : AttemptConnection(id, continues, Tail(queue))
    <2>1. PICK id : AttemptConnection(id, continues, Tail(queue))
      BY <1>8
    <2>2. \E s : Only(s, {"SLC_CONNECT_CFM"}) /\ queue' = Tail(queue) \o s
      BY <1>1, <1>3, <2>1, AttemptSends
    <2>3. /\ Owed(queue', Attempts(links'), 0)
          /\ continues' > 0 \/ Owed(queue', Attempts(links'), 1)
      BY <1>1, <1>3, <2>1, AttemptOwes
    <2> QED
      BY <1>7, <1>8, <2>2, <2>3
  <1>9. CASE /\ gSlcConnectRemote' = FALSE /\ connection_in_progress' = FALSE
             /\ queue' = Tail(queue) /\ links' = links
    BY <1>3, <1>4, <1>7, <1>9
  <1> QED
    <2> DEFINE id == IF IsListIdAvailable(0, Len(pdl)) THEN 0 ELSE 1
               available == IsListIdAvailable(id, Len(pdl))
    <2>1. \/ slc' = slc /\ links' = links /\ queue' = Tail(queue)
          \/ /\ gSlcConnectRemote' = FALSE /\ connection_in_progress' = available
             /\ IF available THEN AttemptConnection(id, continues, Tail(queue))
                ELSE queue' = Tail(queue) /\ links' = links
      BY DEF HandleEstablish, Done
    <2> HIDE DEF id
    <2>2. available \in BOOLEAN
      BY DEF IsListIdAvailable
    <2> HIDE DEF available
    <2> QED
      BY <1>6, <1>8, <1>9, <2>1, <2>2

\* The search continues with an attempt of its own, or is over.
LEMMA ContinueKeeps ==
    ASSUME SearchInv, EndInv', History, Continue
    PROVE  SearchInv'
  <1>1. queue \in Seq(Message) /\ LinksInv /\ OnInv /\ PauseInv /\ ToCome(0)
        /\ continues \in Nat
    BY DEF SearchInv, EndInv, StreamInv, Typed
  <1>2. state' = state /\ continues - 1 \in Nat
    BY <1>1 DEF Continue, app
  <1>3. Owed(queue, Attempts(links), 0)
    BY <1>1 DEF ToCome
  <1> DEFINE ids == {"SLC_CONNECT_CFM", "ENTER_PAIRING"}
  <1>4. ids \cap (TurnOn \cup WhileOn) = {}
    BY DEF TurnOn, WhileOn
  <1>5. ASSUME NEW s, Only(s, ids), queue' = queue \o s,
               Owed(queue', Attempts(links'), 0),
               connection_in_progress' => connection_in_progress,
               connection_in_progress' /\ ~interrupted' =>
                   /\ ~gSlcConnectRemote'
                   /\ continues' > 0 \/ Owed(queue', Attempts(links'), 1)
        PROVE  SearchInv'
    <2> HIDE DEF ids
    <2>1. OnInv' /\ (Has(queue, TurnOn)' => Has(queue, TurnOn))
      BY <1>1, <1>2, <1>4, <1>5, OnKept
    <2>2. PauseInv'
      BY <1>1, <1>5, <2>1, HistoryPauses DEF PauseInv
    <2>3. ToCome(0)' /\ ResultInv'
      BY <1>5 DEF ToCome, ResultInv
    <2> QED
      BY <2>1, <2>2, <2>3 DEF SearchInv
  <1>6. Only(<<>>, ids) /\ queue \o <<>> = queue
    BY <1>1, OnlyEmpty, Extended
  <1>7. CASE state = "discoverable"
    <2>1. /\ queue' = queue /\ links' = links
          /\ connection_in_progress' = connection_in_progress
      BY <1>7 DEF Continue
    <2>2. connection_in_progress' => interrupted'
      BY <1>7, HistoryPauses DEF Paused
    <2> QED
      BY <1>3, <1>5, <1>6, <2>1, <2>2
  <1>8. CASE state # "discoverable"
    <2>1. PICK can \in CanConnect : ContinueSearch(can)
      BY <1>8 DEF Continue
    <2> DEFINE next == GetNextListID
               goesOn == ~gSlcConnectRemote /\ can /\ state # "limbo"
    <2>2. /\ gSlcConnectRemote' = FALSE
          /\ connection_in_progress' = (connection_in_progress /\ goesOn /\ next.found)
          /\ IF goesOn /\ next.found THEN AttemptConnection(next.id, continues - 1, queue)
             ELSE /\ links' = links
                  /\ queue' \in {queue, Append(queue, Plain("ENTER_PAIRING"))}
      BY <2>1 DEF ContinueSearch
    <2> HIDE DEF next, goesOn
    <2>3. CASE goesOn /\ next.found
      <3>1. AttemptConnection(next.id, continues - 1, queue)
        BY <2>2, <2>3
      <3>2. PICK s : Only(s, {"SLC_CONNECT_CFM"}) /\ queue' = queue \o s
        BY <1>1, <1>2, <3>1, AttemptSends
      <3>3. /\ Owed(queue', Attempts(links'), 0)
            /\ continues' > 0 \/ Owed(queue', Attempts(links'), 1)
        BY <1>1, <1>2, <1>3, <3>1, AttemptOwes
      <3>4. Only(s, ids)
        BY <3>2, OnlyWider
      <3> QED
        BY <1>5, <2>2, <3>2, <3>3, <3>4
    <2>4. CASE ~(goesOn /\ next.found)
      <3> DEFINE x == Plain("ENTER_PAIRING")
      <3>1. x \in Message /\ x.id = "ENTER_PAIRING"
        BY OtherMessages DEF User
      <3> HIDE DEF x
      <3>2. Only(<<x>>, {"ENTER_PAIRING"}) /\ Append(queue, x) = queue \o <<x>>
        BY <1>1, <3>1, OnlyOne, Extended
      <3>3. Only(<<x>>, ids) /\ Owed(queue \o <<x>>, Attempts(links), 0)
        <4>1. "SLC_CONNECT_IND" \notin {"ENTER_PAIRING"} /\ "SLC_CONNECT_CFM" \notin {"ENTER_PAIRING"}
          OBVIOUS
        <4> QED
          BY <1>1, <1>3, <3>2, <4>1, OnlyWider, OwedExtended
      <3>4. ~connection_in_progress' /\ links' = links
            /\ queue' \in {queue, Append(queue, x)}
        BY <2>2, <2>4 DEF x
      <3>5. CASE queue' = queue
        BY <1>3, <1>5, <1>6, <3>4, <3>5
      <3>6. CASE queue' = queue \o <<x>>
        BY <1>5, <3>3, <3>4, <3>6
      <3> QED
        BY <3>2, <3>4, <3>5, <3>6
    <2> QED
      BY <2>3, <2>4
  <1> QED
    BY <1>7, <1>8

\* At power up nothing is to come and no search is under way.
LEMMA InitSearch == Init => SearchInv
  <1> SUFFICES ASSUME Init PROVE SearchInv
    OBVIOUS
  <1>1. EndInv /\ queue = <<>> /\ ~connection_in_progress
    BY InitStreams DEF Init
  <1>2. \A X : ~Has(queue, X)
    BY <1>1 DEF Has
  <1>3. OnInv /\ PauseInv /\ ResultInv
    BY <1>1, <1>2, HasNone DEF OnInv, PauseInv, ResultInv
  <1>4. ToCome(0)
    <2>1. Inds(queue) = {} /\ Cfms(queue) = {}
      BY <1>1 DEF Inds, Cfms
    <2> DEFINE f == [i \in Inds(queue) |-> i]
    <2>2. Matching(queue, Attempts(links), f)
      BY <2>1 DEF Matching
    <2>3. AtLeast(0, Spares(queue, Attempts(links), f))
      BY DEF AtLeast
    <2> HIDE DEF f
    <2> QED
      BY <2>2, <2>3 DEF ToCome, Owed
  <1> QED
    BY <1>1, <1>3, <1>4 DEF SearchInv

\* Every step keeps a search going, or ends or interrupts it.
LEMMA NextSearch == SearchInv /\ [Next]_vars => SearchInv'
  <1> SUFFICES ASSUME SearchInv, [Next]_vars PROVE SearchInv'
    OBVIOUS
  <1>1. EndInv'
    BY NextStreams DEF SearchInv
  <1>2. CASE Next
    <2>1. History
      BY <1>2 DEF Next
    <2>2. CASE \E id \in User : UserPresses(id)
      BY <1>1, <2>1, <2>2, UserSearch
    <2> QED
      BY <1>1, <1>2, <2>1, <2>2, LibrarySearch, OutsideSearch, PowerSearch, TimeSearch,
         HeardSearch, ResultSearch, EstablishSearch, ContinueKeeps DEF Next
  <1>3. CASE UNCHANGED vars
    <2>1. /\ queue' = queue /\ links' = links /\ state' = state /\ conf' = conf
          /\ continues' = continues /\ gSlcConnectRemote' = gSlcConnectRemote
          /\ connection_in_progress' = connection_in_progress /\ interrupted' = interrupted
      BY <1>3 DEF vars, slc, app, lib
    <2>2. OnInv' /\ PauseInv'
      BY <2>1 DEF SearchInv, OnInv, PauseInv, Paused, IsConnected
    <2>3. ToCome(0)' /\ ResultInv'
      BY <2>1 DEF SearchInv, ResultInv, ToCome
    <2> QED
      BY <1>1, <2>2, <2>3 DEF SearchInv
  <1> QED
    BY <1>2, <1>3

\* A result to come is queued, or of an attempt under way.
LEMMA InvGoesOn == SearchInv => SearchGoesOn
  <1> SUFFICES ASSUME SearchInv, connection_in_progress, ~interrupted, ~(continues > 0)
               PROVE  \/ Queued({"SLC_CONNECT_CFM", "ESTABLISH"})
                      \/ \E l \in DOMAIN links : links[l].state \in Active
    BY DEF SearchGoesOn
  <1>1. ToCome(IF gSlcConnectRemote THEN 2 ELSE 1) /\ queue \in Seq(Message)
    BY DEF SearchInv, ResultInv, EndInv, StreamInv, Typed
  <1>2. ToCome(1)
    <2>1. 2 \in 0..2 /\ 1 \in 0..2
      OBVIOUS
    <2>2. ToCome(2) => ToCome(1)
      BY <2>1, OwedFewer DEF ToCome
    <2> QED
      BY <1>1, <2>2
  <1>3. Cfms(queue) # {} \/ Attempts(links) # {}
    BY <1>2, OwedIsThere DEF ToCome
  <1>4. Cfms(queue) # {} => Queued({"SLC_CONNECT_CFM", "ESTABLISH"})
    BY <1>1 DEF Cfms, Queued
  <1>5. Attempts(links) # {} => \E l \in DOMAIN links : links[l].state \in Active
    BY DEF Attempts
  <1> QED
    BY <1>3, <1>4, <1>5

\* A search that is neither paused nor over has a next step to come, however calls,
\* crossings, failures and disconnections mix: each call the application hears of
\* takes one result that is not the search's, and never more than its own.
THEOREM AlwaysGoesOn == Spec => []SearchGoesOn
  <1>1. Spec => []SearchInv
    BY InitSearch, NextSearch, PTL DEF Spec
  <1> QED
    BY <1>1, InvGoesOn, PTL

-----------------------------------------------------------------------------
(* What each variable may be                                               *)

Slot == [connected : BOOLEAN, listed : BOOLEAN]

AppInv ==
    /\ state \in {"limbo", "connectable", "discoverable", "connected"}
    /\ pdl \in Seq(Phone) /\ Len(pdl) = Len(conf.Paired)
    /\ profile_data \in [1..2 -> Slot]
    /\ {page_scan_enabled, timer, unheard} \subseteq BOOLEAN

SlcInv ==
    /\ gListID \in 0..(ListIds - 1) /\ gPdlSize \in {0, Len(pdl)}
    /\ gSlcConnectRemote \in BOOLEAN /\ connection_in_progress \in BOOLEAN
    /\ attempts \in Nat

StackInv == search \in [Phone -> Nat] /\ closing \subseteq Phone

\* Where calls wait in the queue q.
CallsIn(q) == {k \in 1..Len(q) : q[k].id = "RFC_CONNECT_IND"}

\* Each call that waits is of one of the phones in S, and no two are of one.
CallsOf(q, S) ==
    /\ \A k \in CallsIn(q) : q[k].addr \in S
    /\ \A j, k \in CallsIn(q) : j # k => q[j].addr # q[k].addr

\* A phone that has asked and has no response is queued once or held, not both.
CallInv ==
    /\ held \subseteq offered /\ offered \subseteq Phone
    /\ CallsOf(queue, offered \ held)

TypeInv == EndInv /\ AppInv /\ SlcInv /\ StackInv /\ CallInv

\* A slot the application has changed is still one.
LEMMA SlotsChange ==
    ASSUME NEW data \in [1..2 -> Slot], NEW p, NEW slot \in Slot
    PROVE  [data EXCEPT ![p] = slot] \in [1..2 -> Slot]
  OBVIOUS

LEMMA SlotChanges ==
    ASSUME NEW slot \in Slot
    PROVE  /\ [slot EXCEPT !.connected = TRUE] \in Slot
           /\ [slot EXCEPT !.listed = TRUE] \in Slot
           /\ [slot EXCEPT !.listed = FALSE] \in Slot
  BY DEF Slot

LEMMA FieldsChange ==
    ASSUME NEW data \in [1..2 -> Slot], NEW p
    PROVE  /\ [data EXCEPT ![p].connected = TRUE] \in [1..2 -> Slot]
           /\ [data EXCEPT ![p].listed = TRUE] \in [1..2 -> Slot]
           /\ [data EXCEPT ![p].listed = FALSE] \in [1..2 -> Slot]
  BY DEF Slot

\* The devices in another order are as many, and phones.
LEMMA MostRecentKeeps ==
    ASSUME NEW devices \in Seq(Phone), NEW a \in Phone
    PROVE  MostRecent(devices, a) \in Seq(Phone) /\ Len(MostRecent(devices, a)) = Len(devices)
  <1> DEFINE place == CHOOSE k \in DOMAIN devices : devices[k] = a
             value(k) == IF k = 1 THEN a ELSE IF k <= place THEN devices[k - 1] ELSE devices[k]
             new == [k \in DOMAIN devices |-> value(k)]
  <1>1. MostRecent(devices, a) = new
    BY DEF MostRecent
  <1>2. DOMAIN devices = 1..Len(devices) /\ Len(devices) \in Nat
    OBVIOUS
  <1>3. ASSUME NEW k \in 1..Len(devices) PROVE value(k) \in Phone
    <2>1. CASE k = 1
      BY <2>1
    <2>2. CASE k # 1
      <3>1. k - 1 \in 1..Len(devices)
        BY <1>2, <2>2
      <3>2. devices[k - 1] \in Phone /\ devices[k] \in Phone
        BY <1>2, <3>1
      <3> QED
        BY <2>2, <3>2
    <2> QED
      BY <2>1, <2>2
  <1> HIDE DEF value
  <1>4. new \in [1..Len(devices) -> Phone]
    BY <1>2, <1>3
  <1> HIDE DEF new
  <1>5. new \in Seq(Phone) /\ Len(new) = Len(devices)
    BY <1>2, <1>4
  <1> QED
    BY <1>1, <1>5

LEMMA PriorityKeeps ==
    ASSUME pdl \in Seq(Phone), NEW data, NEW a \in Phone
    PROVE  SetPriority(data, a) \in Seq(Phone) /\ Len(SetPriority(data, a)) = Len(pdl)
  <1>1. /\ MostRecent(pdl, a) \in Seq(Phone)
        /\ Len(MostRecent(pdl, a)) = Len(pdl)
    BY MostRecentKeeps
  <1>2. CASE pdl # <<>>
    <2>1. pdl[1] \in Phone
      BY <1>2
    <2>2. /\ MostRecent(MostRecent(pdl, a), pdl[1]) \in Seq(Phone)
          /\ Len(MostRecent(MostRecent(pdl, a), pdl[1])) = Len(pdl)
      BY <1>1, <2>1, MostRecentKeeps
    <2> QED
      BY <1>1, <2>2 DEF SetPriority
  <1>3. CASE pdl = <<>>
    <2> DEFINE devices == MostRecent(pdl, a)
    <2>1. devices = <<>>
      BY <1>1, <1>3, EmptySeq
    <2>2. MostRecent(<<>>, pdl[1]) = <<>>
      <3>1. DOMAIN <<>> = {}
        OBVIOUS
      <3> QED
        BY <3>1 DEF MostRecent
    <2> QED
      BY <1>1, <1>3, <2>1, <2>2 DEF SetPriority
  <1> QED
    BY <1>2, <1>3

\* The configuration never changes.
LEMMA ConfKept == ASSUME LinksInv, Next PROVE conf' = conf
  BY ApplicationKeeps, LibraryKeeps, OutsideKeeps DEF Next, Keeps

\* The steps that leave the application's own state alone.
LEMMA OthersKeepApp ==
    ASSUME StreamInv,
           \/ HandleEstablish \/ Continue
           \/ HandleDisconnectReq \/ HandleSdpCfm \/ HandleRfcConnectCfm
           \/ HandleRfcConnectInd \/ (\E a \in Phone : RfcConnectIndAgain(a))
           \/ HandleAtComplete \/ HandleRfcDisconnect
           \/ (\E a \in Phone : PhoneCalls(a) \/ PhoneCompletesAt(a) \/ StackCloses(a))
           \/ (\E a \in Phone, ok \in BOOLEAN : StackFinds(a, ok) \/ StackConnects(a, ok))
           \/ (\E a \in Phone, status \in Status : PhoneEnds(a, status))
           \/ (\E id \in User : UserPresses(id))
    PROVE  UNCHANGED app
  <1>1. queue \in Seq(Message)
    BY DEF StreamInv, Typed
  <1>2. CASE HandleEstablish \/ Continue
    BY <1>2 DEF HandleEstablish, Continue
  <1>3. CASE \E id \in User : UserPresses(id)
    BY <1>3 DEF UserPresses
  <1> QED
    BY <1>1, <1>2, <1>3, LibrarySends, OutsideSends

\* Every step leaves the application's own state of its type.
LEMMA AppTyped ==
    ASSUME EndInv, AppInv, Next
    PROVE  AppInv'
  <1>1. queue \in Seq(Message) /\ LinksInv /\ StreamInv
    BY DEF EndInv, StreamInv, Typed
  <1>2. conf' = conf
    BY <1>1, ConfKept
  <1>3. unheard' \in BOOLEAN
    BY DEF Next, History
  <1>4. CASE UNCHANGED app
    BY <1>2, <1>3, <1>4 DEF AppInv, app, scan
  <1>5. CASE HandlePowerOn \/ HandlePowerOff \/ HandleEnterPairing \/ PairingEnds
             \/ ConnectableTimeout
    <2>1. pdl' = pdl /\ profile_data' = profile_data
      BY <1>5 DEF HandlePowerOn, HandlePowerOff, HandleEnterPairing, PairingEnds,
         ConnectableTimeout
    <2>2. /\ state' \in {state, "limbo", "connectable", "discoverable"}
          /\ page_scan_enabled' \in {page_scan_enabled, TRUE, FALSE}
          /\ timer' \in {timer, TRUE, FALSE}
      BY <1>5 DEF HandlePowerOn, HandlePowerOff, HandleEnterPairing, PairingEnds,
         ConnectableTimeout, EnterConnectable, Connectable
    <2> QED
      BY <1>2, <1>3, <2>1, <2>2 DEF AppInv
  <1>6. CASE HandleConnectInd \/ HandleConnectCfmInLimbo
    BY <1>4, <1>6 DEF HandleConnectInd, HandleConnectCfmInLimbo
  <1>7. CASE HandleConnectFail
    <2>1. pdl' = pdl /\ profile_data' = profile_data /\ state' = state
      BY <1>7 DEF HandleConnectFail
    <2>2. /\ page_scan_enabled' \in {page_scan_enabled, FALSE}
          /\ timer' \in {timer, FALSE}
      BY <1>7 DEF HandleConnectFail, Connectable, scan
    <2> QED
      BY <1>2, <1>3, <2>1, <2>2 DEF AppInv
  <1>8. CASE HandleConnectSuccess
    <2> DEFINE connected == [profile_data EXCEPT ![m.priority].connected = TRUE]
    <2>1. m.addr \in Phone
      <3>1. m \in Message /\ m.id = "SLC_CONNECT_CFM"
        BY <1>1, <1>8 DEF HandleConnectSuccess, Receives, m
      <3> QED
        BY <3>1, PhoneNamed
    <2>2. /\ pdl' = SetPriority(connected, m.addr)
          /\ profile_data' = [connected EXCEPT ![m.priority].listed = TRUE]
          /\ EnterConnected(connected)
      BY <1>8 DEF HandleConnectSuccess
    <2>3. profile_data \in [1..2 -> Slot]
      BY DEF AppInv
    <2>4. connected \in [1..2 -> Slot]
      BY <2>3, FieldsChange
    <2> HIDE DEF connected
    <2>5. profile_data' \in [1..2 -> Slot]
      BY <2>2, <2>4, FieldsChange
    <2>6. pdl' \in Seq(Phone) /\ Len(pdl') = Len(conf'.Paired)
      BY <1>2, <2>1, <2>2, PriorityKeeps DEF AppInv
    <2>7. /\ state' = "connected"
          /\ page_scan_enabled' \in {page_scan_enabled, TRUE, FALSE}
          /\ timer' \in {timer, TRUE, FALSE}
      BY <2>2 DEF EnterConnected, Connectable, ConnectableForATime, scan
    <2> QED
      BY <1>3, <2>5, <2>6, <2>7 DEF AppInv
  <1>9. CASE HandleDisconnectInd
    <2>1. pdl' = pdl
      BY <1>9 DEF HandleDisconnectInd
    <2>2. profile_data' = profile_data \/ \E lost : profile_data' = Dropped(lost)
      BY <1>9 DEF HandleDisconnectInd
    <2>3. profile_data \in [1..2 -> Slot]
      BY DEF AppInv
    <2>4. ASSUME NEW lost PROVE Dropped(lost) \in [1..2 -> Slot]
      <3> DEFINE slot == [connected |-> profile_data[m.priority].connected
                                        /\ (lost \/ ProfilesConnected(profile_data, m.addr)),
                          listed |-> FALSE]
                 gone == [profile_data EXCEPT ![m.priority] = slot]
      <3>1. slot \in Slot
        BY DEF Slot
      <3> HIDE DEF slot
      <3>2. gone \in [1..2 -> Slot]
        BY <2>3, <3>1, SlotsChange
      <3>3. [profile_data EXCEPT
                ![m.priority] = [connected |-> @.connected
                                     /\ (lost \/ ProfilesConnected(profile_data, m.addr)),
                                 listed |-> FALSE]] = gone
        BY DEF slot
      <3>4. Dropped(lost) \in {gone, [gone EXCEPT ![1] = gone[2], ![2].listed = FALSE]}
        BY <3>3 DEF Dropped
      <3> HIDE DEF gone
      <3>5. [gone EXCEPT ![1] = gone[2], ![2].listed = FALSE] \in [1..2 -> Slot]
        <4>1. gone[2] \in Slot
          BY <3>2
        <4> DEFINE first == [gone EXCEPT ![1] = gone[2]]
        <4>2. first \in [1..2 -> Slot]
          BY <3>2, <4>1
        <4>3. [gone EXCEPT ![1] = gone[2], ![2].listed = FALSE]
                 = [first EXCEPT ![2].listed = FALSE]
          OBVIOUS
        <4> HIDE DEF first
        <4> QED
          BY <4>2, <4>3, FieldsChange
      <3> QED
        BY <3>2, <3>4, <3>5
    <2>5. profile_data' \in [1..2 -> Slot]
      BY <2>2, <2>3, <2>4
    <2>6. state' \in {state, "connectable"}
      BY <1>9 DEF HandleDisconnectInd
    <2>7. page_scan_enabled' \in BOOLEAN /\ timer' \in BOOLEAN
      BY <1>9 DEF HandleDisconnectInd
    <2> QED
      BY <1>2, <1>3, <2>1, <2>5, <2>6, <2>7 DEF AppInv
  <1> QED
    BY <1>1, <1>4, <1>5, <1>6, <1>7, <1>8, <1>9, OthersKeepApp DEF Next

Ids == 0..(ListIds - 1)

LEMMA AfterTyped ==
    ASSUME NEW id \in Ids
    PROVE  After(id) \in Ids
  <1>1. id \in Nat /\ ListIds \in Nat \ {0}
    BY BoundAssumption DEF Ids
  <1>2. (id + 1) % ListIds \in 0..(ListIds - 1)
    BY <1>1
  <1> QED
    BY <1>2 DEF After, Ids

\* The search goes on with the number of an entry, and with the first or second.
LEMMA IdsTyped ==
    ASSUME gListID \in Ids
    PROVE  GetNextListID.id \in Ids /\ 0 \in Ids /\ 1 \in Ids
  <1>1. 0 \in Ids /\ 1 \in Ids
    BY BoundAssumption DEF Ids
  <1>2. After(gListID) \in Ids /\ After(After(gListID)) \in Ids
    BY AfterTyped
  <1>3. NextOfList.id \in {After(gListID), After(After(gListID)), 0, 1}
    BY DEF NextOfList, Outcome
  <1>4. NextOfLast.id \in {After(gListID), After(After(gListID)), gListID}
    BY DEF NextOfLast, Outcome
  <1>5. GetNextListID \in {NextOfList, NextOfLast}
    BY DEF GetNextListID
  <1> QED
    BY <1>1, <1>2, <1>3, <1>4, <1>5

\* Every step leaves the state of the search of its type.
LEMMA SlcTyped ==
    ASSUME EndInv, AppInv, SlcInv, AppInv', Next
    PROVE  SlcInv'
  <1>1. StreamInv /\ LinksInv /\ queue \in Seq(Message)
    BY DEF EndInv, StreamInv, Typed
  <1>2. /\ gListID \in Ids /\ gPdlSize \in {0, Len(pdl)} /\ attempts \in Nat
        /\ gSlcConnectRemote \in BOOLEAN /\ connection_in_progress \in BOOLEAN
    BY DEF SlcInv, Ids
  <1>3. Len(pdl') = Len(pdl)
    <2>1. conf' = conf
      BY <1>1, ConfKept
    <2> QED
      BY <2>1 DEF AppInv
  <1>4. 0 \in Ids /\ 1 \in Ids /\ GetNextListID.id \in Ids
    BY <1>2, IdsTyped
  <1>5. CASE UNCHANGED <<gListID, gPdlSize, gSlcConnectRemote, attempts,
                         connection_in_progress>>
    BY <1>2, <1>3, <1>5 DEF SlcInv, Ids
  <1>6. CASE HandlePowerOff
    <2>1. /\ gListID' = 0
          /\ UNCHANGED <<gPdlSize, gSlcConnectRemote, attempts, connection_in_progress>>
      BY <1>6 DEF HandlePowerOff
    <2> QED
      BY <1>2, <1>3, <1>4, <2>1 DEF SlcInv, Ids
  <1>7. CASE HandleConnectInd \/ HandleConnectSuccess \/ HandleConnectFail
    <2>1. UNCHANGED <<gListID, gPdlSize, connection_in_progress>>
      BY <1>7 DEF HandleConnectInd, HandleConnectSuccess, HandleConnectFail
    <2>2. gSlcConnectRemote' \in BOOLEAN
      BY <1>7 DEF HandleConnectInd, HandleConnectSuccess, HandleConnectFail
    <2>3. attempts' \in {attempts, AttemptsLeft}
      BY <1>7 DEF HandleConnectInd, HandleConnectSuccess, HandleConnectFail
    <2>4. attempts' \in Nat
      BY <1>2, <2>3 DEF AttemptsLeft
    <2> QED
      BY <1>2, <1>3, <2>1, <2>2, <2>4 DEF SlcInv, Ids
  <1>8. CASE HandleEstablish
    <2>1. CASE UNCHANGED slc
      BY <1>5, <2>1 DEF slc
    <2>2. CASE ~UNCHANGED slc
      <3> DEFINE id == IF IsListIdAvailable(0, Len(pdl)) THEN 0 ELSE 1
                 available == IsListIdAvailable(id, Len(pdl))
      <3>1. /\ attempts' = IF conf.action = "LastConnected" THEN conf.ReconnectLastAttempts
                           ELSE conf.ReconnectionAttempts
            /\ gSlcConnectRemote' = FALSE /\ gPdlSize' = Len(pdl)
            /\ connection_in_progress' = available
            /\ IF available THEN AttemptConnection(id, continues, Tail(queue))
               ELSE gListID' = id
        BY <1>8, <2>2 DEF HandleEstablish
      <3>2. conf.ReconnectLastAttempts \in Nat /\ conf.ReconnectionAttempts \in Nat
        BY <1>1, ConfigurationAssumption DEF LinksInv
      <3>3. gListID' = id
        BY <3>1 DEF AttemptConnection
      <3>4. connection_in_progress' \in BOOLEAN
        BY <3>1 DEF IsListIdAvailable
      <3> QED
        BY <1>3, <1>4, <3>1, <3>2, <3>3, <3>4 DEF SlcInv, Ids
    <2> QED
      BY <2>1, <2>2
  <1>9. CASE Continue
    <2>1. CASE state = "discoverable"
      BY <1>5, <1>9, <2>1 DEF Continue
    <2>2. CASE state # "discoverable"
      <3>1. PICK can : ContinueSearch(can)
        BY <1>9, <2>2 DEF Continue
      <3>2. /\ gSlcConnectRemote' = FALSE /\ UNCHANGED <<gPdlSize, attempts>>
            /\ connection_in_progress' \in BOOLEAN
        BY <3>1 DEF ContinueSearch
      <3>3. gListID' \in {gListID, GetNextListID.id}
        BY <3>1 DEF ContinueSearch, AttemptConnection
      <3> QED
        BY <1>2, <1>3, <1>4, <3>2, <3>3 DEF SlcInv, Ids
    <2> QED
      BY <2>1, <2>2
  <1>10. CASE HandlePowerOn \/ HandleEnterPairing \/ PairingEnds \/ ConnectableTimeout
              \/ HandleConnectCfmInLimbo \/ HandleDisconnectInd
    BY <1>5, <1>10 DEF HandlePowerOn, HandleEnterPairing, PairingEnds, ConnectableTimeout,
       HandleConnectCfmInLimbo, HandleDisconnectInd, slc
  <1>11. CASE \E id \in User : UserPresses(id)
    BY <1>5, <1>11 DEF UserPresses, slc
  <1>12. CASE \/ HandleDisconnectReq \/ HandleSdpCfm \/ HandleRfcConnectCfm
              \/ HandleRfcConnectInd \/ (\E a \in Phone : RfcConnectIndAgain(a))
              \/ HandleAtComplete \/ HandleRfcDisconnect
    BY <1>1, <1>5, <1>12, LibrarySends DEF slc
  <1>13. CASE \/ (\E a \in Phone : PhoneCalls(a) \/ PhoneCompletesAt(a) \/ StackCloses(a))
              \/ (\E a \in Phone, ok \in BOOLEAN : StackFinds(a, ok) \/ StackConnects(a, ok))
              \/ (\E a \in Phone, status \in Status : PhoneEnds(a, status))
    BY <1>1, <1>5, <1>13, OutsideSends DEF slc
  <1> QED
    BY <1>6, <1>7, <1>8, <1>9, <1>10, <1>11, <1>12, <1>13 DEF Next

\* What is left of the searches, and of the streams to end.
LEMMA StackTyped ==
    ASSUME EndInv, StackInv, Next
    PROVE  StackInv'
  <1>1. LinksInv /\ queue \in Seq(Message) /\ DOMAIN links = 1..NumLinks
    BY DEF EndInv, StreamInv, Typed, LinksInv, LinksOf
  <1>2. search \in [Phone -> Nat] /\ closing \subseteq Phone
    BY DEF StackInv
  <1>3. CASE search' = search /\ closing' = closing
    BY <1>2, <1>3 DEF StackInv
  <1>4. conf.Profiled \subseteq Phone
    BY <1>1, ConfigurationAssumption DEF LinksInv
  <1>5. ASSUME NEW id, NEW pending, NEW rest, AttemptConnection(id, pending, rest),
               closing' = closing
        PROVE  StackInv'
    <2>1. search' = search \/ \E a \in Phone : search' = [search EXCEPT ![a] = @ + 1]
      BY <1>4, <1>5 DEF AttemptConnection, HfpSlcConnectRequest
    <2> QED
      BY <1>2, <1>5, <2>1 DEF StackInv
  <1>6. CASE HandleEstablish
    <2>1. closing' = closing
      BY <1>6 DEF HandleEstablish
    <2>2. search' = search \/ \E id : AttemptConnection(id, continues, Tail(queue))
      BY <1>6 DEF HandleEstablish
    <2> QED
      BY <1>3, <1>5, <2>1, <2>2
  <1>7. CASE Continue
    <2>1. closing' = closing
      BY <1>7 DEF Continue
    <2>2. search' = search \/ \E id : AttemptConnection(id, continues - 1, queue)
      BY <1>7 DEF Continue, ContinueSearch
    <2> QED
      BY <1>3, <1>5, <2>1, <2>2
  <1>8. CASE HandleDisconnectReq
    <2>1. search' = search
      BY <1>8 DEF HandleDisconnectReq
    <2>2. PICK l \in DOMAIN links \cup {0} :
            \/ closing' = closing
            \/ /\ (IF l = 0 THEN "idle" ELSE links[l].state)
                     \in {"outgoing", "incoming", "connected", "complete"}
               /\ closing' = closing \cup {links[l].addr}
      BY <1>8 DEF HandleDisconnectReq
    <2>3. CASE closing' # closing
      <3>1. l \in 1..NumLinks /\ links[l].state # "idle"
        BY <1>1, <2>2, <2>3
      <3>2. links[l].addr \in Phone
        BY <1>1, <3>1 DEF LinksInv, LinksOf, LinkRecord
      <3> QED
        BY <1>2, <2>1, <2>2, <3>2 DEF StackInv
    <2> QED
      BY <1>3, <2>1, <2>3
  <1>9. CASE \E a \in Phone, ok \in BOOLEAN : StackFinds(a, ok)
    <2>1. PICK a \in Phone : search[a] > 0 /\ search' = [search EXCEPT ![a] = @ - 1]
      BY <1>9 DEF StackFinds
    <2>2. closing' = closing
      BY <1>9 DEF StackFinds
    <2> QED
      BY <1>2, <2>1, <2>2 DEF StackInv
  <1>10. CASE \/ (\E a \in Phone : StackCloses(a))
              \/ (\E a \in Phone, ok \in BOOLEAN : StackConnects(a, ok))
              \/ (\E a \in Phone, status \in Status : PhoneEnds(a, status))
    <2>1. search' = search /\ \E a : closing' = closing \ {a}
      BY <1>10 DEF StackCloses, StackConnects, PhoneEnds, Ends
    <2> QED
      BY <1>2, <2>1 DEF StackInv
  <1>11. CASE HandlePowerOn \/ HandlePowerOff \/ HandleEnterPairing \/ PairingEnds
              \/ ConnectableTimeout \/ HandleConnectInd \/ HandleConnectCfmInLimbo
              \/ HandleConnectSuccess \/ HandleConnectFail \/ HandleDisconnectInd
    BY <1>3, <1>11 DEF HandlePowerOn, HandlePowerOff, HandleEnterPairing, PairingEnds,
       ConnectableTimeout, HandleConnectInd, HandleConnectCfmInLimbo,
       HandleConnectSuccess, HandleConnectFail, HandleDisconnectInd, stack
  <1>12. CASE HandleSdpCfm \/ HandleRfcConnectCfm \/ HandleRfcConnectInd
              \/ (\E a \in Phone : RfcConnectIndAgain(a))
              \/ HandleAtComplete \/ HandleRfcDisconnect
    BY <1>3, <1>12 DEF HandleSdpCfm, HandleRfcConnectCfm, HandleRfcConnectInd,
       RfcConnectIndAgain, HandleAtComplete, HandleRfcDisconnect, stack
  <1>13. CASE \/ \E a \in Phone : PhoneCalls(a) \/ PhoneCompletesAt(a)
              \/ \E id \in User : UserPresses(id)
    BY <1>3, <1>13 DEF PhoneCalls, PhoneCompletesAt, UserPresses, stack
  <1> QED
    BY <1>6, <1>7, <1>8, <1>9, <1>10, <1>11, <1>12, <1>13 DEF Next

\* Calls wait where they did when other messages are sent,
LEMMA CallsExtended ==
    ASSUME NEW q \in Seq(Message), NEW s, NEW ids, Only(s, ids), "RFC_CONNECT_IND" \notin ids,
           NEW S, CallsOf(q, S)
    PROVE  CallsOf(q \o s, S)
  <1>1. /\ Len(q) \in Nat /\ Len(s) \in Nat /\ Len(q \o s) = Len(q) + Len(s)
        /\ \A i \in 1..(Len(q) + Len(s)) :
              (q \o s)[i] = IF i <= Len(q) THEN q[i] ELSE s[i - Len(q)]
    BY ConcatProperties, LenProperties DEF Only
  <1>2. \A i \in CallsIn(q \o s) : i \in CallsIn(q) /\ (q \o s)[i] = q[i]
    BY <1>1 DEF CallsIn, Only
  <1> QED
    BY <1>2 DEF CallsOf

\* one more when a phone calls,
LEMMA CallsAppended ==
    ASSUME NEW q \in Seq(Message), NEW x \in Message, x.id = "RFC_CONNECT_IND",
           NEW S, CallsOf(q, S), x.addr \notin S
    PROVE  CallsOf(Append(q, x), S \cup {x.addr})
  <1>1. /\ Len(q) \in Nat /\ Len(Append(q, x)) = Len(q) + 1
        /\ \A i \in 1..Len(q) : Append(q, x)[i] = q[i]
        /\ Append(q, x)[Len(q) + 1] = x
    BY AppendProperties, LenProperties
  <1>2. \A i \in CallsIn(Append(q, x)) :
          \/ i \in CallsIn(q) /\ Append(q, x)[i] = q[i]
          \/ i = Len(q) + 1 /\ Append(q, x)[i] = x
    BY <1>1 DEF CallsIn
  <1> QED
    BY <1>2 DEF CallsOf

\* and one less when the library hears of it.
LEMMA CallsTaken ==
    ASSUME NEW q \in Seq(Message), q # <<>>, NEW S, CallsOf(q, S)
    PROVE  /\ CallsOf(Tail(q), S)
           /\ Head(q).id = "RFC_CONNECT_IND" =>
                 Head(q).addr \in S /\ CallsOf(Tail(q), S \ {Head(q).addr})
  <1>1. /\ Len(q) \in Nat /\ Len(q) >= 1 /\ Head(q) = q[1]
        /\ Len(Tail(q)) = Len(q) - 1
        /\ \A i \in 1..(Len(q) - 1) : Tail(q)[i] = q[i + 1]
    BY HeadTailProperties, LenProperties, EmptySeq
  <1>2. \A i \in CallsIn(Tail(q)) :
          i + 1 \in CallsIn(q) /\ Tail(q)[i] = q[i + 1] /\ i + 1 # 1 /\ i \in Nat
    BY <1>1 DEF CallsIn
  <1>3. CallsOf(Tail(q), S)
    <2>1. ASSUME NEW i \in CallsIn(Tail(q)), NEW j \in CallsIn(Tail(q)), i # j
          PROVE  Tail(q)[i].addr # Tail(q)[j].addr
      <3>1. i + 1 # j + 1
        BY <1>2, <2>1
      <3> QED
        BY ZenonT(40), <1>2, <3>1 DEF CallsOf
    <2>2. \A i \in CallsIn(Tail(q)) : Tail(q)[i].addr \in S
      BY <1>2 DEF CallsOf
    <2> QED
      BY <2>1, <2>2 DEF CallsOf
  <1>4. CASE Head(q).id = "RFC_CONNECT_IND"
    <2>1. 1 \in CallsIn(q)
      BY <1>1, <1>4 DEF CallsIn
    <2>2. \A i \in CallsIn(Tail(q)) : Tail(q)[i].addr \in S \ {Head(q).addr}
      BY ZenonT(40), <1>1, <1>2, <2>1 DEF CallsOf
    <2> QED
      BY <1>1, <1>3, <2>1, <2>2 DEF CallsOf
  <1> QED
    BY <1>3, <1>4

LEMMA CallsFewer ==
    ASSUME NEW q, NEW S, NEW T, CallsOf(q, S), S \subseteq T
    PROVE  CallsOf(q, T)
  BY DEF CallsOf

\* The calls that wait, when what is sent is no call.
LEMMA CallsQuiet ==
    ASSUME EndInv, CallInv, held' = held, offered' = offered,
           NEW s, NEW ids, Only(s, ids), "RFC_CONNECT_IND" \notin ids,
           queue' = queue \o s \/ (queue # <<>> /\ queue' = Tail(queue) \o s)
    PROVE  CallInv'
  <1>1. queue \in Seq(Message)
    BY DEF EndInv, StreamInv, Typed
  <1>2. queue # <<>> => Tail(queue) \in Seq(Message) /\ CallsOf(Tail(queue), offered \ held)
    BY <1>1, Extended, CallsTaken DEF CallInv
  <1>3. CallsOf(queue', offered \ held)
    BY <1>1, <1>2, CallsExtended DEF CallInv
  <1> QED
    BY <1>3 DEF CallInv

\* A call heard of, and not queued any more, is answered or held.
LEMMA CallsHandled ==
    ASSUME EndInv, NEW a \in Phone, NEW rest \in Seq(Message), ConnectIndFrom(a, rest),
           held \subseteq offered, offered \subseteq Phone, a \in offered,
           CallsOf(rest, (offered \ held) \ {a})
    PROVE  CallInv'
  <1>1. /\ held' \subseteq offered' /\ offered' \subseteq Phone
        /\ offered' \ held' = (offered \ held) \ {a}
    BY DEF ConnectIndFrom
  <1>2. LinksInv
    BY DEF EndInv, StreamInv
  <1>3. \E s : Only(s, Reports) /\ queue' = rest \o s
    <2> DEFINE told == <<Plain("SLC_CONNECT_IND")>>
    <2>1. Only(told, Reports)
      BY OtherMessages, OnlyOne DEF Reports
    <2>2. rest \o <<>> = rest /\ Only(<<>>, Reports)
      BY Extended, OnlyEmpty
    <2>3. \/ queue' = rest
          \/ queue' = (rest \o <<>>) \o told
          \/ LinkOf(a) # 0 /\ queue' = (rest \o Failed(LinkOf(a))) \o told
      BY DEF ConnectIndFrom
    <2>4. LinkOf(a) # 0 => Only(Failed(LinkOf(a)), Reports)
      <3>1. LinkOf(a) # 0 => LinkOf(a) \in 1..NumLinks /\ links[LinkOf(a)].addr = a
        BY <1>2, LinkOfPhone DEF LinksInv
      <3>2. {"SLC_CONNECT_CFM"} \subseteq Reports
        BY DEF Reports
      <3> QED
        BY <1>2, <3>1, <3>2, FailureSent, OnlyWider
    <2> HIDE DEF told
    <2>5. LinkOf(a) # 0 => /\ Only(Failed(LinkOf(a)) \o told, Reports)
                           /\ (rest \o Failed(LinkOf(a))) \o told = rest \o (Failed(LinkOf(a)) \o told)
      BY <2>1, <2>4, OnlyConcat, Extended DEF Only
    <2> QED
      BY <2>1, <2>2, <2>3, <2>5
  <1>4. CallsOf(queue', (offered \ held) \ {a})
    BY <1>3, CallsExtended DEF Reports
  <1> QED
    BY <1>1, <1>4 DEF CallInv

\* Every step leaves the calls so.
LEMMA CallsTyped ==
    ASSUME EndInv, CallInv, Next
    PROVE  CallInv'
  <1>1. StreamInv /\ LinksInv /\ queue \in Seq(Message)
    BY DEF EndInv, StreamInv, Typed
  <1>2. /\ held \subseteq offered /\ offered \subseteq Phone
        /\ CallsOf(queue, offered \ held)
    BY DEF CallInv
  <1>3. CASE HandleRfcConnectInd
    <2>1. PICK a \in Phone : /\ Head(queue) = OfPhone("RFC_CONNECT_IND", a)
                             /\ ConnectIndFrom(a, Tail(queue))
      BY <1>3 DEF HandleRfcConnectInd, m
    <2>2. queue # <<>> /\ Head(queue).id = "RFC_CONNECT_IND" /\ Head(queue).addr = a
      BY <1>3, <2>1, OtherMessages DEF HandleRfcConnectInd, Receives
    <2>3. Tail(queue) \in Seq(Message)
      BY <1>1, <2>2, Extended
    <2>4. a \in offered \ held /\ CallsOf(Tail(queue), (offered \ held) \ {a})
      BY <1>1, <1>2, <2>2, CallsTaken
    <2> QED
      BY <1>2, <2>1, <2>3, <2>4, CallsHandled
  <1>4. CASE \E a \in Phone : RfcConnectIndAgain(a)
    <2>1. PICK a \in Phone : a \in held /\ ConnectIndFrom(a, queue)
      BY <1>4 DEF RfcConnectIndAgain
    <2>2. (offered \ held) \ {a} = offered \ held
      BY <2>1
    <2> QED
      BY <1>1, <1>2, <2>1, <2>2, CallsHandled
  <1>5. CASE \E a \in Phone : PhoneCalls(a)
    <2>1. PICK a \in Phone : PhoneCalls(a)
      BY <1>5
    <2> DEFINE x == OfPhone("RFC_CONNECT_IND", a)
    <2>2. /\ a \notin offered /\ offered' = offered \cup {a} /\ held' = held
          /\ queue' = Append(queue, x)
      BY <2>1 DEF PhoneCalls, lib
    <2>3. x \in Message /\ x.id = "RFC_CONNECT_IND" /\ x.addr = a
      BY OtherMessages
    <2> HIDE DEF x
    <2>4. CallsOf(queue', (offered \ held) \cup {a})
      BY <1>1, <1>2, <2>2, <2>3, CallsAppended
    <2>5. (offered \ held) \cup {a} = offered' \ held'
      BY <1>2, <2>2
    <2> QED
      BY <1>2, <2>2, <2>4, <2>5 DEF CallInv
  <1>6. CASE /\ ~\E a \in Phone : PhoneCalls(a)
             /\ \/ (\E a \in Phone : PhoneCalls(a) \/ PhoneCompletesAt(a) \/ StackCloses(a))
                \/ (\E a \in Phone, ok \in BOOLEAN : StackFinds(a, ok) \/ StackConnects(a, ok))
                \/ (\E a \in Phone, status \in Status : PhoneEnds(a, status))
    <2>1. PICK x \in Message : /\ x.id \in Neither \ {"RFC_CONNECT_IND"}
                               /\ queue' = Append(queue, x)
                               /\ held' = held /\ offered' = offered
      BY <1>1, <1>6, OutsideSends
    <2>2. Only(<<x>>, Neither \ {"RFC_CONNECT_IND"}) /\ queue' = queue \o <<x>>
      BY <1>1, <2>1, OnlyOne, Extended
    <2> QED
      BY <2>1, <2>2, CallsQuiet
  <1>7. CASE \E id \in User : UserPresses(id)
    <2>1. PICK id \in User : UserPresses(id)
      BY <1>7
    <2>2. queue' = Append(queue, Plain(id)) /\ held' = held /\ offered' = offered
      BY <2>1 DEF UserPresses, lib, stack
    <2>3. Plain(id) \in Message /\ Plain(id).id \in User
      BY OtherMessages
    <2>4. Only(<<Plain(id)>>, User) /\ queue' = queue \o <<Plain(id)>>
      BY <1>1, <2>2, <2>3, OnlyOne, Extended
    <2> QED
      BY <2>2, <2>4, CallsQuiet DEF User
  <1>8. CASE \/ HandleDisconnectReq \/ HandleSdpCfm \/ HandleRfcConnectCfm
             \/ HandleAtComplete \/ HandleRfcDisconnect
    <2>1. held' = held /\ offered' = offered
      BY <1>8 DEF HandleDisconnectReq, HandleSdpCfm, HandleRfcConnectCfm, HandleAtComplete,
         HandleRfcDisconnect, stack
    <2> QED
      BY <1>1, <1>8, <2>1, LibrarySends, CallsQuiet DEF Reports
  <1>9. CASE \/ HandlePowerOn \/ HandlePowerOff \/ HandleEnterPairing
             \/ PairingEnds \/ ConnectableTimeout
             \/ HandleConnectInd \/ HandleConnectCfmInLimbo
             \/ HandleConnectSuccess \/ HandleConnectFail \/ HandleDisconnectInd
    <2>1. held' = held /\ offered' = offered
      BY <1>9 DEF HandlePowerOn, HandlePowerOff, HandleEnterPairing, PairingEnds,
         ConnectableTimeout, HandleConnectInd, HandleConnectCfmInLimbo,
         HandleConnectSuccess, HandleConnectFail, HandleDisconnectInd, lib, stack
    <2>2. PICK s : /\ Only(s, {"DISCONNECT_REQ", "ESTABLISH"})
                   /\ queue' = queue \o s \/ (queue # <<>> /\ queue' = Tail(queue) \o s)
      BY <1>1, <1>9, ApplicationSends
    <2>3. "RFC_CONNECT_IND" \notin {"DISCONNECT_REQ", "ESTABLISH"}
      OBVIOUS
    <2> QED
      BY <2>1, <2>2, <2>3, CallsQuiet
  <1>10. ASSUME NEW id, NEW pending \in Nat, NEW rest \in {queue, Tail(queue)},
                rest = queue \/ queue # <<>>,
                AttemptConnection(id, pending, rest), held' = held, offered' = offered
         PROVE  CallInv'
    <2>1. rest \in Seq(Message)
      BY <1>1, <1>10, Extended
    <2>2. PICK s : Only(s, {"SLC_CONNECT_CFM"}) /\ queue' = rest \o s
      BY <1>1, <1>10, <2>1, AttemptSends
    <2>3. "RFC_CONNECT_IND" \notin {"SLC_CONNECT_CFM"}
      OBVIOUS
    <2> QED
      BY <1>10, <2>2, <2>3, CallsQuiet
  <1>11. ASSUME held' = held, offered' = offered,
                queue' = queue \/ (queue # <<>> /\ queue' = Tail(queue))
         PROVE  CallInv'
    <2>1. Only(<<>>, {}) /\ (queue # <<>> => Tail(queue) \in Seq(Message))
      BY <1>1, OnlyEmpty, Extended
    <2>2. queue' = queue \o <<>> \/ (queue # <<>> /\ queue' = Tail(queue) \o <<>>)
      BY <1>1, <1>11, <2>1, Extended
    <2> QED
      BY <1>11, <2>1, <2>2, CallsQuiet
  <1>12. CASE HandleEstablish
    <2>1. held' = held /\ offered' = offered /\ queue # <<>>
      BY <1>12 DEF HandleEstablish, Receives
    <2>2. queue' = Tail(queue) \/ \E id : AttemptConnection(id, continues, Tail(queue))
      BY <1>12 DEF HandleEstablish, Done
    <2>3. continues \in Nat
      BY DEF EndInv
    <2> QED
      BY <1>10, <1>11, <2>1, <2>2, <2>3
  <1>13. CASE Continue
    <2>1. held' = held /\ offered' = offered /\ continues - 1 \in Nat
      BY <1>13 DEF Continue, EndInv
    <2>2. \/ queue' = queue
          \/ queue' = Append(queue, Plain("ENTER_PAIRING"))
          \/ \E id : AttemptConnection(id, continues - 1, queue)
      BY <1>13 DEF Continue, ContinueSearch
    <2>3. CASE queue' = Append(queue, Plain("ENTER_PAIRING"))
      <3>1. Plain("ENTER_PAIRING") \in Message /\ Plain("ENTER_PAIRING").id = "ENTER_PAIRING"
        BY OtherMessages DEF User
      <3>2. /\ Only(<<Plain("ENTER_PAIRING")>>, {"ENTER_PAIRING"})
            /\ queue' = queue \o <<Plain("ENTER_PAIRING")>>
        BY <1>1, <2>3, <3>1, OnlyOne, Extended
      <3>3. "RFC_CONNECT_IND" \notin {"ENTER_PAIRING"}
        OBVIOUS
      <3> QED
        BY <2>1, <3>2, <3>3, CallsQuiet
    <2> QED
      BY <1>10, <1>11, <2>1, <2>2, <2>3
  <1> QED
    BY <1>3, <1>4, <1>5, <1>6, <1>7, <1>8, <1>9, <1>12, <1>13 DEF Next

\* At power up everything is of its type.
LEMMA InitTyped == Init => TypeInv
  <1> SUFFICES ASSUME Init PROVE TypeInv
    OBVIOUS
  <1>1. EndInv /\ conf \in Configuration
    BY InitStreams DEF Init
  <1>2. conf.Paired \in Seq(Phone)
    <2>1. conf.Paired \in SetToSeqs(Phone)
      BY <1>1, ConfigurationAssumption
    <2>2. Cardinality(Phone) \in Nat
      BY PhoneAssumption, FS_CardinalityType
    <2>3. conf.Paired \in [1..Cardinality(Phone) -> Phone]
      BY <2>1 DEF SetToSeqs
    <2> QED
      BY <2>2, <2>3
  <1>3. profile_data \in [1..2 -> Slot]
    <2>1. [connected |-> FALSE, listed |-> FALSE] \in Slot
      BY DEF Slot
    <2> QED
      BY <2>1 DEF Init
  <1>4. AppInv
    BY <1>2, <1>3 DEF Init, AppInv
  <1>5. SlcInv
    <2>1. /\ gListID = 0 /\ gPdlSize = 0 /\ gSlcConnectRemote = FALSE
          /\ attempts = 0 /\ connection_in_progress = FALSE
      BY DEF Init
    <2>2. 0 \in 0..(ListIds - 1)
      BY BoundAssumption
    <2> QED
      BY <2>1, <2>2 DEF SlcInv
  <1>6. StackInv
    BY DEF Init, StackInv
  <1>7. CallInv
    <2>1. CallsIn(queue) = {} /\ held = {} /\ offered = {}
      BY DEF Init, CallsIn
    <2> QED
      BY <2>1 DEF CallInv, CallsOf
  <1> QED
    BY <1>1, <1>4, <1>5, <1>6, <1>7 DEF TypeInv

\* Every step leaves everything of its type.
LEMMA NextTyped == TypeInv /\ [Next]_vars => TypeInv'
  <1> SUFFICES ASSUME TypeInv, [Next]_vars PROVE TypeInv'
    OBVIOUS
  <1>1. EndInv /\ AppInv /\ SlcInv /\ StackInv /\ CallInv
    BY DEF TypeInv
  <1>2. EndInv'
    BY <1>1, NextStreams
  <1>3. CASE Next
    <2>1. AppInv'
      BY <1>1, <1>3, AppTyped
    <2>2. SlcInv'
      BY <1>1, <1>3, <2>1, SlcTyped
    <2>3. StackInv'
      BY <1>1, <1>3, StackTyped
    <2>4. CallInv'
      BY <1>1, <1>3, CallsTyped
    <2> QED
      BY <1>2, <2>1, <2>2, <2>3, <2>4 DEF TypeInv
  <1>4. CASE UNCHANGED vars
    <2>1. /\ conf' = conf /\ state' = state /\ pdl' = pdl /\ profile_data' = profile_data
          /\ page_scan_enabled' = page_scan_enabled /\ timer' = timer /\ unheard' = unheard
          /\ gListID' = gListID /\ gPdlSize' = gPdlSize
          /\ gSlcConnectRemote' = gSlcConnectRemote /\ attempts' = attempts
          /\ connection_in_progress' = connection_in_progress
          /\ search' = search /\ closing' = closing
          /\ held' = held /\ offered' = offered /\ queue' = queue
      BY <1>4 DEF vars, slc, app, scan, lib, stack
    <2>2. AppInv' /\ SlcInv' /\ StackInv'
      BY <1>1, <2>1 DEF AppInv, SlcInv, StackInv
    <2>3. CallInv'
      BY <1>1, <2>1 DEF CallInv
    <2> QED
      BY <1>2, <2>2, <2>3 DEF TypeInv
  <1> QED
    BY <1>3, <1>4

LEMMA InvTyped == TypeInv => TypeOK
  <1> SUFFICES ASSUME TypeInv PROVE TypeOK
    OBVIOUS
  <1>1. EndInv /\ AppInv /\ SlcInv /\ StackInv /\ CallInv
    BY DEF TypeInv
  <1>2. /\ links \in [1..NumLinks -> LinkRecord] /\ queue \in Seq(Message)
        /\ air \in [Phone -> {"none", "asked", "accepted", "up"}] /\ continues \in Nat
    BY <1>1 DEF EndInv, StreamInv, Typed, LinksInv, LinksOf
  <1>3. /\ DOMAIN links = 1..NumLinks
        /\ \A l \in DOMAIN links :
             links[l] \in [state : {"idle", "complete"} \cup Active, addr : Phone \cup {NULL},
                           priority : 0..2, owns_service : BOOLEAN]
    BY <1>2 DEF LinkRecord, State
  <1> QED
    BY <1>1, <1>2, <1>3 DEF TypeOK, AppInv, SlcInv, StackInv, CallInv, Slot

\* Every variable stays what the code takes it for: the attempts left never wrap below
\* zero, the entry looked at is one of those gListID can name, no phone answered is
\* answered again, and a phone the library holds back is one that waits for it.
THEOREM TypeCorrect == Spec => []TypeOK
  <1>1. Spec => []TypeInv
    BY InitTyped, NextTyped, PTL DEF Spec
  <1> QED
    BY <1>1, InvTyped, PTL

-----------------------------------------------------------------------------
(* What the application lists                                              *)

\* A message that tells of a connection made, and one that tells of its end.
Made(x) == x.id = "SLC_CONNECT_CFM" /\ x.ok
Over(x) == x.id = "SLC_DISCONNECT_IND" /\ x.status \in {"success", "link_loss"}

\* The slots listed once the application has heard message x, if they were S.
Shown(x, S) ==
    IF Made(x) THEN S \cup {x.priority}
    ELSE IF Over(x)
    THEN IF x.priority = 1 THEN IF 2 \in S THEN {1} ELSE {} ELSE S \ {x.priority}
    ELSE S

\* If the slots listed are S, those listed after the messages of q are in E,
NoMore(q, S, E) ==
    \E h : /\ S \subseteq h[1] /\ h[Len(q) + 1] \subseteq E
           /\ \A k \in 1..Len(q) : Shown(q[k], h[k]) \subseteq h[k + 1]

\* or E is in them.
NoLess(q, S, E) ==
    \E h : /\ h[1] \subseteq S /\ E \subseteq h[Len(q) + 1]
           /\ \A k \in 1..Len(q) : h[k + 1] \subseteq Shown(q[k], h[k])

\* Messages that tell the application of no connection.
Quietly(x) == ~Made(x) /\ (x.id = "SLC_DISCONNECT_IND" => x.status = "no_slc")
Silent(s) == s \in Seq(Message) /\ \A k \in 1..Len(s) : Quietly(s[k])

\* The queue q becomes r: d messages are taken and those of s sent.
Moved(q, r, s, d) ==
    /\ d \in {0, 1} /\ d <= Len(q)
    /\ Len(q) \in Nat /\ Len(s) \in Nat /\ Len(r) = Len(q) - d + Len(s)
    /\ \A i \in 1..(Len(q) - d) : r[i] = q[i + d]
    /\ \A i \in 1..Len(s) : r[Len(q) - d + i] = s[i]

LEMMA Joined ==
    ASSUME NEW q \in Seq(Message), NEW u \in Seq(Message), NEW r, r = q \o u
    PROVE  /\ r \in Seq(Message)
           /\ Len(q) \in Nat /\ Len(u) \in Nat /\ Len(r) = Len(q) + Len(u)
           /\ \A p \in 1..Len(q) : r[p] = q[p]
           /\ \A p \in 1..Len(u) : r[Len(q) + p] = u[p]
  <1>1. /\ r \in Seq(Message)
        /\ Len(q) \in Nat /\ Len(u) \in Nat /\ Len(r) = Len(q) + Len(u)
        /\ \A i \in 1..(Len(q) + Len(u)) :
              r[i] = IF i <= Len(q) THEN q[i] ELSE u[i - Len(q)]
    BY ConcatProperties, LenProperties
  <1>2. ASSUME NEW p \in 1..Len(u) PROVE r[Len(q) + p] = u[p]
    <2> DEFINE i == Len(q) + p
    <2>1. i \in 1..(Len(q) + Len(u)) /\ ~(i <= Len(q)) /\ i - Len(q) = p
      BY <1>1
    <2> HIDE DEF i
    <2>2. r[i] = u[p]
      BY <1>1, <2>1
    <2> QED
      BY <2>2 DEF i
  <1>3. ASSUME NEW p \in 1..Len(q) PROVE r[p] = q[p]
    BY <1>1
  <1> QED
    BY <1>1, <1>2, <1>3

\* What is sent is in the queue.
LEMMA Amid ==
    ASSUME NEW q \in Seq(Message), NEW D \in Seq(Message), NEW t \in Seq(Message),
           NEW u, u = D \o t, NEW r, r = q \o u
    PROVE  \A p \in 1..Len(D) : \E k \in 1..Len(r) : r[k] = D[p]
  <1>2. /\ u \in Seq(Message) /\ Len(u) = Len(D) + Len(t) /\ Len(D) \in Nat /\ Len(t) \in Nat
        /\ \A p \in 1..Len(D) : u[p] = D[p]
    BY Joined
  <1>4. /\ Len(q) \in Nat /\ Len(r) = Len(q) + Len(u) /\ Len(u) \in Nat
        /\ \A p \in 1..Len(u) : r[Len(q) + p] = u[p]
    BY <1>2, Joined
  <1> TAKE p \in 1..Len(D)
  <1>5. p \in 1..Len(u) /\ Len(q) + p \in 1..Len(r)
    BY <1>2, <1>4
  <1>6. r[Len(q) + p] = D[p]
    BY <1>2, <1>4, <1>5
  <1> QED
    BY <1>5, <1>6

LEMMA MovedOn ==
    ASSUME NEW q \in Seq(Message), NEW s \in Seq(Message), NEW r
    PROVE  /\ r = q \o s => Moved(q, r, s, 0)
           /\ q # <<>> /\ r = Tail(q) \o s => Moved(q, r, s, 1) /\ Head(q) = q[1]
  <1>1. CASE r = q \o s
    BY <1>1, ConcatProperties, LenProperties DEF Moved
  <1>2. CASE q # <<>> /\ r = Tail(q) \o s
    <2>1. /\ Tail(q) \in Seq(Message) /\ Head(q) = q[1]
          /\ Len(q) \in Nat /\ Len(q) >= 1 /\ Len(Tail(q)) = Len(q) - 1
          /\ \A i \in 1..(Len(q) - 1) : Tail(q)[i] = q[i + 1]
      BY <1>2, HeadTailProperties, LenProperties, EmptySeq
    <2>2. /\ Len(s) \in Nat /\ Len(r) = Len(q) - 1 + Len(s)
          /\ \A i \in 1..(Len(q) - 1 + Len(s)) :
                r[i] = IF i <= Len(q) - 1 THEN Tail(q)[i] ELSE s[i - (Len(q) - 1)]
      BY <1>2, <2>1, ConcatProperties, LenProperties
    <2>3. \A i \in 1..Len(s) : r[Len(q) - 1 + i] = s[i]
      <3> TAKE i \in 1..Len(s)
      <3> DEFINE j == Len(q) - 1 + i
      <3>1. j \in 1..(Len(q) - 1 + Len(s)) /\ ~(j <= Len(q) - 1) /\ j - (Len(q) - 1) = i
        BY <2>1, <2>2
      <3> QED
        BY <2>2, <3>1
    <2>4. \A i \in 1..(Len(q) - 1) : r[i] = q[i + 1]
      BY <2>1, <2>2
    <2>5. Moved(q, r, s, 1)
      BY <2>1, <2>2, <2>3, <2>4 DEF Moved
    <2>6. r = q \o s => Moved(q, r, s, 0)
      BY ConcatProperties, LenProperties DEF Moved
    <2> QED
      BY <2>1, <2>5, <2>6
  <1> QED
    BY <1>1, <1>2

\* Where the messages of the queue come from, and where they go.
LEMMA MovedIs ==
    ASSUME NEW q, NEW r, NEW s, NEW d, Moved(q, r, s, d)
    PROVE  /\ \A k \in 1..Len(r) : \/ k + d \in 1..Len(q) /\ r[k] = q[k + d]
                                   \/ \E i \in 1..Len(s) : r[k] = s[i] /\ k = Len(q) - d + i
           /\ \A k \in 1..Len(q) : d < k => k - d \in 1..Len(r) /\ r[k - d] = q[k]
           /\ \A i \in 1..Len(s) : Len(q) - d + i \in 1..Len(r) /\ r[Len(q) - d + i] = s[i]
  <1>1. /\ d \in {0, 1} /\ d <= Len(q)
        /\ Len(q) \in Nat /\ Len(s) \in Nat /\ Len(r) = Len(q) - d + Len(s)
        /\ \A i \in 1..(Len(q) - d) : r[i] = q[i + d]
        /\ \A i \in 1..Len(s) : r[Len(q) - d + i] = s[i]
    BY DEF Moved
  <1>2. ASSUME NEW k \in 1..Len(r)
        PROVE  \/ k + d \in 1..Len(q) /\ r[k] = q[k + d]
               \/ \E i \in 1..Len(s) : r[k] = s[i] /\ k = Len(q) - d + i
    <2>1. CASE k <= Len(q) - d
      BY <1>1, <2>1
    <2>2. CASE ~(k <= Len(q) - d)
      <3> DEFINE i == k - (Len(q) - d)
      <3>1. i \in 1..Len(s) /\ k = Len(q) - d + i
        BY <1>1, <2>2
      <3> HIDE DEF i
      <3> QED
        BY <1>1, <3>1
    <2> QED
      BY <2>1, <2>2
  <1>3. ASSUME NEW k \in 1..Len(q), d < k
        PROVE  k - d \in 1..Len(r) /\ r[k - d] = q[k]
    <2>1. k - d \in 1..(Len(q) - d) /\ (k - d) + d = k
      BY <1>1, <1>3
    <2> QED
      BY <1>1, <2>1
  <1> QED
    BY <1>1, <1>2, <1>3

\* Hearing of more, or of less.
LEMMA ShownMore ==
    ASSUME NEW x, NEW S, NEW T, S \subseteq T
    PROVE  Shown(x, S) \subseteq Shown(x, T)
  BY DEF Shown

LEMMA SilentShows ==
    ASSUME NEW s, Silent(s), NEW k \in 1..Len(s), NEW S
    PROVE  Shown(s[k], S) = S
  BY DEF Silent, Quietly, Shown, Over

\* The courses of a queue that moves on, when what is sent is silent.
LEMMA NoMoreMoved ==
    ASSUME NEW q, NEW r, NEW s, NEW d, Moved(q, r, s, d), Silent(s), NEW S, NEW T, NEW E,
           NoMore(q, S, E), d = 0 => T = S, d = 1 => T \subseteq Shown(q[1], S)
    PROVE  NoMore(r, T, E)
  <1>1. PICK h : /\ S \subseteq h[1] /\ h[Len(q) + 1] \subseteq E
                 /\ \A k \in 1..Len(q) : Shown(q[k], h[k]) \subseteq h[k + 1]
    BY DEF NoMore
  <1> DEFINE n == Len(q) - d
             g == [k \in 1..(Len(r) + 1) |-> IF k <= n THEN h[k + d] ELSE h[Len(q) + 1]]
  <1>2. n \in Nat /\ Len(r) = n + Len(s) /\ Len(s) \in Nat /\ d \in {0, 1} /\ Len(q) = n + d
    BY DEF Moved
  <1>3. \A k \in 1..(n + 1) : g[k] = h[k + d]
    BY <1>2
  <1>4. \A k \in (n + 1)..(Len(r) + 1) : g[k] = h[Len(q) + 1]
    BY <1>2
  <1> HIDE DEF g
  <1>5. T \subseteq g[1]
    <2>1. g[1] = h[1 + d]
      BY <1>2, <1>3
    <2>2. CASE d = 0
      BY <1>1, <2>1, <2>2
    <2>3. CASE d = 1
      <3>1. 1 \in 1..Len(q)
        BY <1>2, <2>3
      <3>2. Shown(q[1], S) \subseteq Shown(q[1], h[1]) /\ Shown(q[1], h[1]) \subseteq h[1 + 1]
        BY <1>1, <3>1, ShownMore
      <3> QED
        BY <2>1, <2>3, <3>2
    <2> QED
      BY <1>2, <2>2, <2>3
  <1>6. g[Len(r) + 1] \subseteq E
    BY <1>1, <1>2, <1>4
  <1>7. ASSUME NEW k \in 1..Len(r) PROVE Shown(r[k], g[k]) \subseteq g[k + 1]
    <2>1. CASE k <= n
      <3>1. k \in 1..n /\ k + 1 \in 1..(n + 1) /\ k + d \in 1..Len(q)
        BY <1>2, <2>1
      <3>2. r[k] = q[k + d]
        BY <3>1 DEF Moved
      <3>3. g[k] = h[k + d] /\ g[k + 1] = h[k + 1 + d] /\ k + 1 + d = (k + d) + 1
        BY <1>2, <1>3, <3>1
      <3> QED
        BY <1>1, <3>1, <3>2, <3>3
    <2>2. CASE ~(k <= n)
      <3>1. k - n \in 1..Len(s) /\ k = n + (k - n)
        BY <1>2, <2>2
      <3>2. r[k] = s[k - n]
        BY <3>1 DEF Moved
      <3>3. g[k] = h[Len(q) + 1] /\ g[k + 1] = h[Len(q) + 1]
        BY <1>2, <1>4, <2>2
      <3> QED
        BY <3>1, <3>2, <3>3, SilentShows
    <2> QED
      BY <1>2, <2>1, <2>2
  <1> QED
    BY <1>5, <1>6, <1>7 DEF NoMore

LEMMA NoLessMoved ==
    ASSUME NEW q, NEW r, NEW s, NEW d, Moved(q, r, s, d), Silent(s), NEW S, NEW T, NEW E,
           NoLess(q, S, E), d = 0 => T = S, d = 1 => Shown(q[1], S) \subseteq T
    PROVE  NoLess(r, T, E)
  <1>1. PICK h : /\ h[1] \subseteq S /\ E \subseteq h[Len(q) + 1]
                 /\ \A k \in 1..Len(q) : h[k + 1] \subseteq Shown(q[k], h[k])
    BY DEF NoLess
  <1> DEFINE n == Len(q) - d
             g == [k \in 1..(Len(r) + 1) |-> IF k <= n THEN h[k + d] ELSE h[Len(q) + 1]]
  <1>2. n \in Nat /\ Len(r) = n + Len(s) /\ Len(s) \in Nat /\ d \in {0, 1} /\ Len(q) = n + d
    BY DEF Moved
  <1>3. \A k \in 1..(n + 1) : g[k] = h[k + d]
    BY <1>2
  <1>4. \A k \in (n + 1)..(Len(r) + 1) : g[k] = h[Len(q) + 1]
    BY <1>2
  <1> HIDE DEF g
  <1>5. g[1] \subseteq T
    <2>1. g[1] = h[1 + d]
      BY <1>2, <1>3
    <2>2. CASE d = 0
      BY <1>1, <2>1, <2>2
    <2>3. CASE d = 1
      <3>1. 1 \in 1..Len(q)
        BY <1>2, <2>3
      <3>2. Shown(q[1], h[1]) \subseteq Shown(q[1], S) /\ h[1 + 1] \subseteq Shown(q[1], h[1])
        BY <1>1, <3>1, ShownMore
      <3> QED
        BY <2>1, <2>3, <3>2
    <2> QED
      BY <1>2, <2>2, <2>3
  <1>6. E \subseteq g[Len(r) + 1]
    BY <1>1, <1>2, <1>4
  <1>7. ASSUME NEW k \in 1..Len(r) PROVE g[k + 1] \subseteq Shown(r[k], g[k])
    <2>1. CASE k <= n
      <3>1. k \in 1..n /\ k + 1 \in 1..(n + 1) /\ k + d \in 1..Len(q)
        BY <1>2, <2>1
      <3>2. r[k] = q[k + d]
        BY <3>1 DEF Moved
      <3>3. g[k] = h[k + d] /\ g[k + 1] = h[k + 1 + d] /\ k + 1 + d = (k + d) + 1
        BY <1>2, <1>3, <3>1
      <3> QED
        BY <1>1, <3>1, <3>2, <3>3
    <2>2. CASE ~(k <= n)
      <3>1. k - n \in 1..Len(s) /\ k = n + (k - n)
        BY <1>2, <2>2
      <3>2. r[k] = s[k - n]
        BY <3>1 DEF Moved
      <3>3. g[k] = h[Len(q) + 1] /\ g[k + 1] = h[Len(q) + 1]
        BY <1>2, <1>4, <2>2
      <3> QED
        BY <3>1, <3>2, <3>3, SilentShows
    <2> QED
      BY <1>2, <2>1, <2>2
  <1> QED
    BY <1>5, <1>6, <1>7 DEF NoLess

LEMMA NoMoreTold ==
    ASSUME NEW q \in Seq(Message), NEW x \in Message, NEW S, NEW E, NoMore(q, S, E),
           NEW F, Shown(x, E) \subseteq F
    PROVE  NoMore(Append(q, x), S, F)
  <1>1. PICK h : /\ S \subseteq h[1] /\ h[Len(q) + 1] \subseteq E
                 /\ \A k \in 1..Len(q) : Shown(q[k], h[k]) \subseteq h[k + 1]
    BY DEF NoMore
  <1> DEFINE n == Len(q)
             r == Append(q, x)
             g == [k \in 1..(n + 2) |-> IF k = n + 2 THEN F ELSE h[k]]
  <1>2. /\ n \in Nat /\ Len(r) = n + 1 /\ \A k \in 1..n : r[k] = q[k]
        /\ r[n + 1] = x
    BY AppendProperties, LenProperties
  <1> HIDE DEF r
  <1>3. (\A k \in 1..(n + 1) : g[k] = h[k]) /\ g[n + 2] = F
    BY <1>2
  <1> HIDE DEF g
  <1>4. \A k \in 1..n : Shown(r[k], g[k]) \subseteq g[k + 1]
    BY <1>1, <1>2, <1>3
  <1>5. Shown(r[n + 1], g[n + 1]) \subseteq g[(n + 1) + 1]
    <2>1. g[n + 1] = h[n + 1] /\ (n + 1) + 1 = n + 2
      BY <1>2, <1>3
    <2>2. Shown(x, h[n + 1]) \subseteq Shown(x, E)
      BY <1>1, ShownMore
    <2> QED
      BY <1>2, <1>3, <2>1, <2>2
  <1>6. \A k \in 1..Len(r) : Shown(r[k], g[k]) \subseteq g[k + 1]
    BY <1>2, <1>4, <1>5
  <1>7. S \subseteq g[1] /\ g[Len(r) + 1] \subseteq F
    BY <1>1, <1>2, <1>3
  <1> QED
    BY <1>6, <1>7 DEF NoMore, r

LEMMA NoLessTold ==
    ASSUME NEW q \in Seq(Message), NEW x \in Message, NEW S, NEW E, NoLess(q, S, E),
           NEW F, F \subseteq Shown(x, E)
    PROVE  NoLess(Append(q, x), S, F)
  <1>1. PICK h : /\ h[1] \subseteq S /\ E \subseteq h[Len(q) + 1]
                 /\ \A k \in 1..Len(q) : h[k + 1] \subseteq Shown(q[k], h[k])
    BY DEF NoLess
  <1> DEFINE n == Len(q)
             r == Append(q, x)
             g == [k \in 1..(n + 2) |-> IF k = n + 2 THEN F ELSE h[k]]
  <1>2. /\ n \in Nat /\ Len(r) = n + 1 /\ \A k \in 1..n : r[k] = q[k]
        /\ r[n + 1] = x
    BY AppendProperties, LenProperties
  <1> HIDE DEF r
  <1>3. (\A k \in 1..(n + 1) : g[k] = h[k]) /\ g[n + 2] = F
    BY <1>2
  <1> HIDE DEF g
  <1>4. \A k \in 1..n : g[k + 1] \subseteq Shown(r[k], g[k])
    BY <1>1, <1>2, <1>3
  <1>5. g[(n + 1) + 1] \subseteq Shown(r[n + 1], g[n + 1])
    <2>1. g[n + 1] = h[n + 1] /\ (n + 1) + 1 = n + 2
      BY <1>2, <1>3
    <2>2. Shown(x, E) \subseteq Shown(x, h[n + 1])
      BY <1>1, ShownMore
    <2> QED
      BY <1>2, <1>3, <2>1, <2>2
  <1>6. \A k \in 1..Len(r) : g[k + 1] \subseteq Shown(r[k], g[k])
    BY <1>2, <1>4, <1>5
  <1>7. g[1] \subseteq S /\ F \subseteq g[Len(r) + 1]
    BY <1>1, <1>2, <1>3
  <1> QED
    BY <1>6, <1>7 DEF NoLess, r

LEMMA NoLessThanNone ==
    ASSUME NEW q \in Seq(Message), NEW S
    PROVE  NoLess(q, S, {})
  <1> DEFINE h == [k \in 1..(Len(q) + 1) |-> {}]
  <1>1. Len(q) \in Nat
    BY LenProperties
  <1>2. \A k \in 1..(Len(q) + 1) : h[k] = {}
    OBVIOUS
  <1> HIDE DEF h
  <1>3. h[1] \subseteq S /\ \A k \in 1..Len(q) : h[k + 1] \subseteq Shown(q[k], h[k])
    BY <1>1, <1>2
  <1> QED
    BY <1>3 DEF NoLess

LEMMA Narrower ==
    ASSUME NEW q, NEW S, NEW E, NEW F
    PROVE  /\ NoMore(q, S, E) /\ E \subseteq F => NoMore(q, S, F)
           /\ NoLess(q, S, E) /\ F \subseteq E => NoLess(q, S, F)
  BY DEF NoMore, NoLess

\* When the queue is over, what is listed is what it came to.
LEMMA NothingTold ==
    ASSUME NEW q \in Seq(Message), \A k \in 1..Len(q) : ~Made(q[k]) /\ ~Over(q[k]),
           NEW S, NEW E
    PROVE  /\ NoMore(q, S, E) => S \subseteq E
           /\ NoLess(q, S, E) => E \subseteq S
  <1>1. Len(q) \in Nat /\ \A k \in 1..Len(q) : \A T : Shown(q[k], T) = T
    BY LenProperties DEF Shown
  <1>2. ASSUME NEW h, \A k \in 1..Len(q) : h[k] \subseteq h[k + 1]
        PROVE  h[1] \subseteq h[Len(q) + 1]
    <2> DEFINE P == {k \in 0..Len(q) : h[1] \subseteq h[k + 1]}
    <2>1. 0 \in P
      BY <1>1
    <2>2. \A n \in 1..Len(q) : n - 1 \in P => n \in P
      <3> TAKE n \in 1..Len(q)
      <3> SUFFICES ASSUME n - 1 \in P PROVE n \in P
        OBVIOUS
      <3>1. n - 1 + 1 = n /\ n \in 0..Len(q)
        BY <1>1
      <3>2. h[1] \subseteq h[n]
        BY <3>1
      <3>3. h[n] \subseteq h[n + 1]
        BY <1>2
      <3> QED
        BY <3>1, <3>2, <3>3
    <2> HIDE DEF P
    <2>3. \A n \in 0..Len(q) : n \in P
      BY <1>1, <2>1, <2>2, UpTo
    <2>4. Len(q) \in P
      BY <1>1, <2>3
    <2> QED
      BY <2>4 DEF P
  <1>3. ASSUME NEW h, \A k \in 1..Len(q) : h[k + 1] \subseteq h[k]
        PROVE  h[Len(q) + 1] \subseteq h[1]
    <2> DEFINE P == {k \in 0..Len(q) : h[k + 1] \subseteq h[1]}
    <2>1. 0 \in P
      BY <1>1
    <2>2. \A n \in 1..Len(q) : n - 1 \in P => n \in P
      <3> TAKE n \in 1..Len(q)
      <3> SUFFICES ASSUME n - 1 \in P PROVE n \in P
        OBVIOUS
      <3>1. n - 1 + 1 = n /\ n \in 0..Len(q)
        BY <1>1
      <3>2. h[n] \subseteq h[1]
        BY <3>1
      <3>3. h[n + 1] \subseteq h[n]
        BY <1>3
      <3> QED
        BY <3>1, <3>2, <3>3
    <2> HIDE DEF P
    <2>3. \A n \in 0..Len(q) : n \in P
      BY <1>1, <2>1, <2>2, UpTo
    <2>4. Len(q) \in P
      BY <1>1, <2>3
    <2> QED
      BY <2>4 DEF P
  <1>4. ASSUME NoMore(q, S, E) PROVE S \subseteq E
    <2>1. PICK h : /\ S \subseteq h[1] /\ h[Len(q) + 1] \subseteq E
                   /\ \A k \in 1..Len(q) : Shown(q[k], h[k]) \subseteq h[k + 1]
      BY <1>4 DEF NoMore
    <2>2. h[1] \subseteq h[Len(q) + 1]
      BY <1>1, <1>2, <2>1
    <2> QED
      BY <2>1, <2>2
  <1>5. ASSUME NoLess(q, S, E) PROVE E \subseteq S
    <2>1. PICK h : /\ h[1] \subseteq S /\ E \subseteq h[Len(q) + 1]
                   /\ \A k \in 1..Len(q) : h[k + 1] \subseteq Shown(q[k], h[k])
      BY <1>5 DEF NoLess
    <2>2. h[Len(q) + 1] \subseteq h[1]
      BY <1>1, <1>3, <2>1
    <2> QED
      BY <2>1, <2>2
  <1> QED
    BY <1>4, <1>5

\* Nothing comes of nothing unless a connection is made.
LEMMA NoneMade ==
    ASSUME NEW q \in Seq(Message), \A k \in 1..Len(q) : ~Made(q[k]),
           NEW E, NoLess(q, {}, E)
    PROVE  E = {}
  <1>1. PICK h : /\ h[1] \subseteq {} /\ E \subseteq h[Len(q) + 1]
                 /\ \A k \in 1..Len(q) : h[k + 1] \subseteq Shown(q[k], h[k])
    BY DEF NoLess
  <1>2. Len(q) \in Nat /\ \A k \in 1..Len(q) : Shown(q[k], {}) = {}
    BY LenProperties DEF Shown
  <1> DEFINE P == {k \in 0..Len(q) : h[k + 1] = {}}
  <1>3. 0 \in P
    BY <1>1, <1>2
  <1>4. \A n \in 1..Len(q) : n - 1 \in P => n \in P
    <2> TAKE n \in 1..Len(q)
    <2> SUFFICES ASSUME n - 1 \in P PROVE n \in P
      OBVIOUS
    <2>1. n - 1 + 1 = n /\ n \in 0..Len(q)
      BY <1>2
    <2>2. h[n] = {}
      BY <2>1
    <2>3. h[n + 1] = {}
      BY <1>1, <1>2, <2>2
    <2> QED
      BY <2>1, <2>3
  <1> HIDE DEF P
  <1>5. \A n \in 0..Len(q) : n \in P
    BY <1>2, <1>3, <1>4, UpTo
  <1>6. Len(q) \in P
    BY <1>2, <1>5
  <1> QED
    BY <1>1, <1>6 DEF P

-----------------------------------------------------------------------------
\* The steps that take the first message of the queue, and the others.
Hears ==
    \/ HandlePowerOn \/ HandlePowerOff \/ HandleEnterPairing \/ HandleEstablish
    \/ HandleConnectInd \/ HandleConnectCfmInLimbo \/ HandleConnectSuccess
    \/ HandleConnectFail \/ HandleDisconnectInd
    \/ HandleDisconnectReq \/ HandleSdpCfm \/ HandleRfcConnectCfm
    \/ HandleRfcConnectInd \/ HandleAtComplete \/ HandleRfcDisconnect

Outside ==
    \/ \E a \in Phone : PhoneCalls(a) \/ PhoneCompletesAt(a) \/ StackCloses(a)
    \/ \E a \in Phone, ok \in BOOLEAN : StackFinds(a, ok) \/ StackConnects(a, ok)
    \/ \E a \in Phone, status \in Status : PhoneEnds(a, status)
    \/ \E id \in User : UserPresses(id)

Acts ==
    \/ PairingEnds \/ ConnectableTimeout \/ Continue
    \/ (\E a \in Phone : RfcConnectIndAgain(a)) \/ Outside

LEMMA HearsOrActs == Next => Hears \/ Acts
  BY DEF Next, Hears, Acts, Outside

\* Each connection has its disconnection asked for.
Asked ==
    \A l \in 1..NumLinks : links[l].state \in Opened =>
        \E k \in 1..Len(queue) : queue[k] = DisconnectReq(l)

\* What a message sent says of the step that sends it.
Says(x) ==
    /\ Made(x) => HandleAtComplete
    /\ x.id = "SLC_DISCONNECT_IND" =>
           HandleRfcDisconnect \/ (HandleDisconnectReq /\ x.status = "no_slc")
    /\ x.id = "AT_COMPLETE" => PhoneCompletesAt(x.addr)
    /\ x.id = "DISCONNECT_REQ" => Asked'

SaysAll(s) == s \in Seq(Message) /\ \A k \in 1..Len(s) : Says(s[k])

LEMMA SaysNothing == SaysAll(<<>>)
  BY DEF SaysAll

LEMMA SaysOne == ASSUME NEW x \in Message, Says(x) PROVE SaysAll(<<x>>)
  BY DEF SaysAll

LEMMA SaysTwo ==
    ASSUME NEW s, NEW t, SaysAll(s), SaysAll(t)
    PROVE  SaysAll(s \o t)
  <1>1. s \in Seq(Message) /\ t \in Seq(Message)
    BY DEF SaysAll
  <1>2. /\ s \o t \in Seq(Message) /\ Len(s \o t) = Len(s) + Len(t)
        /\ Len(s) \in Nat /\ Len(t) \in Nat
        /\ \A i \in 1..(Len(s) + Len(t)) :
              (s \o t)[i] = IF i <= Len(s) THEN s[i] ELSE t[i - Len(s)]
    BY <1>1, ConcatProperties, LenProperties
  <1>3. ASSUME NEW i \in 1..(Len(s) + Len(t)) PROVE Says((s \o t)[i])
    <2>1. CASE i <= Len(s)
      BY <1>2, <1>3, <2>1 DEF SaysAll
    <2>2. CASE ~(i <= Len(s))
      <3>1. i - Len(s) \in 1..Len(t)
        BY <1>2, <2>2
      <3> QED
        BY <1>2, <2>2, <3>1 DEF SaysAll
    <2> QED
      BY <2>1, <2>2
  <1> QED
    BY <1>2, <1>3 DEF SaysAll

\* The kinds of which nothing is said.
LEMMA SaysOther ==
    ASSUME NEW x, x.id \notin {"SLC_CONNECT_CFM", "SLC_DISCONNECT_IND", "AT_COMPLETE",
                               "DISCONNECT_REQ"}
    PROVE  Says(x)
  BY DEF Says, Made

\* A failure reported.
LEMMA SaysFailed ==
    ASSUME NEW p \in 0..2, NEW a \in Phone
    PROVE  ConnectCfm(FALSE, p, a) \in Message /\ Says(ConnectCfm(FALSE, p, a))
  <1>1. ConnectCfm(FALSE, p, a) \in Message
    BY ConnectMessages
  <1>2. ConnectCfm(FALSE, p, a).id = "SLC_CONNECT_CFM" /\ ~ConnectCfm(FALSE, p, a).ok
    BY DEF ConnectCfm
  <1> HIDE DEF ConnectCfm
  <1> QED
    BY <1>1, <1>2 DEF Says, Made

LEMMA FailedIs ==
    ASSUME LinksInv, NEW l \in 1..NumLinks, links[l].state # "idle"
    PROVE  \E x \in Message : Failed(l) = <<x>> /\ Says(x)
  <1>1. links[l].priority \in 0..2 /\ links[l].addr \in Phone
    BY DEF LinksInv, LinksOf, LinkRecord
  <1> QED
    BY <1>1, SaysFailed DEF Failed

\* What the search sends.
LEMMA AttemptSays ==
    ASSUME LinksInv, NEW id, NEW pending, NEW rest \in Seq(Message),
           AttemptConnection(id, pending, rest)
    PROVE  \E s : SaysAll(s) /\ queue' = rest \o s
  <1>1. conf.Profiled \subseteq Phone
    BY ConfigurationAssumption DEF LinksInv
  <1>2. CASE queue' = rest
    BY <1>2, SaysNothing, Extended
  <1>3. ASSUME NEW a \in Phone, queue' = Append(rest, ConnectCfm(FALSE, 0, a))
        PROVE  \E s : SaysAll(s) /\ queue' = rest \o s
    <2>1. 0 \in 0..2
      OBVIOUS
    <2>2. ConnectCfm(FALSE, 0, a) \in Message /\ Says(ConnectCfm(FALSE, 0, a))
      BY <2>1, SaysFailed
    <2>3. queue' = rest \o <<ConnectCfm(FALSE, 0, a)>>
      BY <1>3, <2>2, Extended
    <2> QED
      BY <2>2, <2>3, SaysOne
  <1> QED
    BY <1>1, <1>2, <1>3 DEF AttemptConnection, HfpSlcConnectRequest

\* Both links are asked for, by their priorities.
LEMMA AllAsked ==
    ASSUME LinksInv, conf' = conf, links' = links, NEW q \in Seq(Message),
           NEW t \in Seq(Message), NEW u, u = DisconnectAllSlc \o t, queue' = q \o u
    PROVE  Asked'
  <1> DEFINE n == NumLinks
             D == DisconnectAllSlc
  <1>1. n \in {1, 2} /\ LinksOf(n, links) /\ n' = n /\ DOMAIN links = 1..n
    BY OneOrTwo DEF LinksInv, LinksOf, NumLinks
  <1>2. ASSUME NEW l \in 1..n, links[l].state \in Opened
        PROVE  \E p \in 1..2 : LinkWith(links, p) = l
    <2> DEFINE p == links[l].priority
               k == CHOOSE k \in 1..n : links[k].priority = p
    <2>1. p \in 1..2
      <3>1. links[l].state # "idle" /\ p \in 0..2
        BY <1>1, <1>2 DEF LinksOf, LinkRecord, Opened
      <3>2. p # 0
        BY <1>1, <3>1 DEF LinksOf
      <3> QED
        BY <3>1, <3>2
    <2>2. k \in 1..n /\ links[k].priority = p
      OBVIOUS
    <2>3. links[l].state # "idle"
      BY <1>2 DEF Opened
    <2>4. k = l
      BY <1>1, <2>2, <2>3 DEF LinksOf
    <2>5. LinkWith(links, p) = k
      BY <1>1 DEF LinkWith
    <2> QED
      BY <2>1, <2>4, <2>5
  <1>3. /\ D \in Seq(Message) /\ Len(D) = 2
        /\ \A p \in 1..2 : D[p] = DisconnectReq(LinkWith(links, p))
    <2>1. D \in Seq(Message)
      BY DisconnectsSent DEF Only
    <2> QED
      BY <2>1 DEF DisconnectAllSlc
  <1> HIDE DEF n
  <1>4. \A p \in 1..2 : \E k \in 1..Len(queue') : queue'[k] = D[p]
    <2>1. \A p \in 1..Len(D) : \E k \in 1..Len(queue') : queue'[k] = D[p]
      <3>1. D \in Seq(Message) /\ u = D \o t /\ queue' = q \o u
        BY <1>3
      <3> QED
        BY <3>1, Amid
    <2> QED
      BY <1>3, <2>1
  <1> HIDE DEF D
  <1>6. ASSUME NEW l \in 1..n, links[l].state \in Opened
        PROVE  \E k \in 1..Len(queue') : queue'[k] = DisconnectReq(l)
    <2>1. PICK p \in 1..2 : LinkWith(links, p) = l
      BY <1>2, <1>6
    <2> QED
      BY <1>3, <1>4, <2>1
  <1>7. NumLinks' = n
    BY <1>1 DEF n
  <1> QED
    BY <1>6, <1>7 DEF Asked, n, DisconnectReq

\* The steps that ask for all to be disconnected.
Disconnects ==
    \/ HandlePowerOn /\ IsConnected
    \/ HandleEnterPairing /\ IsConnected
    \/ HandlePowerOff
    \/ HandleConnectCfmInLimbo /\ m.ok

LEMMA DisconnectsAsk ==
    ASSUME LinksInv, queue \in Seq(Message), Disconnects
    PROVE  Asked'
  <1>1. queue # <<>> /\ Tail(queue) \in Seq(Message)
    <2>1. queue # <<>>
      BY DEF Disconnects, HandlePowerOn, HandlePowerOff, HandleEnterPairing,
         HandleConnectCfmInLimbo, Receives
    <2> QED
      BY <2>1, Extended
  <1>2. conf' = conf /\ links' = links
    BY DEF Disconnects, HandlePowerOn, HandlePowerOff, HandleEnterPairing,
       HandleConnectCfmInLimbo, lib
  <1>3. <<>> \in Seq(Message) /\ DisconnectAllSlc \o <<>> = DisconnectAllSlc
    BY DisconnectsSent, Extended DEF Only
  <1>4. CASE HandlePowerOn /\ IsConnected
    <2> DEFINE t == IF conf.AutoReconnectPowerOn THEN <<Plain("ESTABLISH")>> ELSE <<>>
    <2>1. t \in Seq(Message)
      BY <1>3, OtherMessages DEF User
    <2>2. queue' = Tail(queue) \o (DisconnectAllSlc \o t)
      BY <1>4 DEF HandlePowerOn, DoneAndSend, IfConnected
    <2> QED
      BY <1>1, <1>2, <2>1, <2>2, AllAsked
  <1>5. CASE ~(HandlePowerOn /\ IsConnected)
    <2>1. queue' = Tail(queue) \o DisconnectAllSlc
      BY <1>5 DEF Disconnects, HandlePowerOff, HandleEnterPairing, HandleConnectCfmInLimbo,
         DoneAndSend, IfConnected, IsConnected
    <2> QED
      BY <1>1, <1>2, <1>3, <2>1, AllAsked
  <1> QED
    BY <1>4, <1>5

\* What the application sends.
LEMMA ApplicationSays ==
    ASSUME LinksInv, queue \in Seq(Message), Next,
           \/ HandlePowerOn \/ HandlePowerOff \/ HandleEnterPairing \/ HandleEstablish
           \/ HandleConnectInd \/ HandleConnectCfmInLimbo \/ HandleConnectSuccess
           \/ HandleConnectFail \/ HandleDisconnectInd
    PROVE  queue # <<>> /\ \E s : SaysAll(s) /\ queue' = Tail(queue) \o s
  <1>1. queue # <<>> /\ Tail(queue) \in Seq(Message)
    <2>1. queue # <<>>
      BY DEF HandlePowerOn, HandlePowerOff, HandleEnterPairing, HandleEstablish,
         HandleConnectInd, HandleConnectCfmInLimbo, HandleConnectSuccess,
         HandleConnectFail, HandleDisconnectInd, Receives
    <2> QED
      BY <2>1, Extended
  <1>2. CASE queue' = Tail(queue)
    BY <1>1, <1>2, SaysNothing, Extended
  <1>3. CASE HandleEstablish
    <2>1. queue' = Tail(queue) \/ \E id : AttemptConnection(id, continues, Tail(queue))
      BY <1>3 DEF HandleEstablish, Done
    <2> QED
      BY <1>1, <1>2, <2>1, AttemptSays
  <1>4. CASE HandleConnectInd \/ HandleConnectSuccess \/ HandleConnectFail
             \/ HandleDisconnectInd
    BY <1>2, <1>4 DEF HandleConnectInd, HandleConnectSuccess, HandleConnectFail,
       HandleDisconnectInd, Done
  <1>5. CASE HandlePowerOn \/ HandlePowerOff \/ HandleEnterPairing
             \/ HandleConnectCfmInLimbo
    <2>1. ASSUME Asked', NEW s, Only(s, {"DISCONNECT_REQ", "ESTABLISH"}) PROVE SaysAll(s)
      <3>1. ASSUME NEW k \in 1..Len(s) PROVE Says(s[k])
        <4>1. s[k].id \in {"DISCONNECT_REQ", "ESTABLISH"}
          BY <2>1 DEF Only
        <4> QED
          BY <2>1, <4>1 DEF Says, Made
      <3> QED
        BY <2>1, <3>1 DEF Only, SaysAll
    <2>2. \A s : Only(s, {"DISCONNECT_REQ"}) => Only(s, {"DISCONNECT_REQ", "ESTABLISH"})
      BY DEF Only
    <2>3. /\ Only(<<Plain("ESTABLISH")>>, {"DISCONNECT_REQ", "ESTABLISH"})
          /\ SaysAll(<<Plain("ESTABLISH")>>)
      <3>1. Plain("ESTABLISH") \in Message /\ Plain("ESTABLISH").id = "ESTABLISH"
        BY OtherMessages DEF User
      <3>2. Only(<<Plain("ESTABLISH")>>, {"DISCONNECT_REQ", "ESTABLISH"})
        BY <3>1, OnlyOne
      <3>3. Says(Plain("ESTABLISH"))
        BY <3>1, SaysOther
      <3> QED
        BY <3>1, <3>2, <3>3, SaysOne
    <2>4. CASE HandlePowerOn
      <3> DEFINE t == IF conf.AutoReconnectPowerOn THEN <<Plain("ESTABLISH")>> ELSE <<>>
                 s == IfConnected(DisconnectAllSlc) \o t
      <3>1. queue' = Tail(queue) \o s
        BY <2>4 DEF HandlePowerOn, DoneAndSend
      <3>2. Only(t, {"DISCONNECT_REQ", "ESTABLISH"}) /\ SaysAll(t) /\ t \in Seq(Message)
        BY <2>3, OnlyEmpty, SaysNothing DEF SaysAll
      <3>3. CASE IsConnected
        <4>1. Asked'
          BY <2>4, <3>3, DisconnectsAsk DEF Disconnects
        <4>2. Only(IfConnected(DisconnectAllSlc), {"DISCONNECT_REQ", "ESTABLISH"})
          BY <2>2, DisconnectsSent
        <4>3. Only(s, {"DISCONNECT_REQ", "ESTABLISH"})
          BY <3>2, <4>2, OnlyConcat
        <4> QED
          BY <1>1, <2>1, <3>1, <4>1, <4>3
      <3>4. CASE ~IsConnected
        <4>1. IfConnected(DisconnectAllSlc) = <<>>
          BY <3>4 DEF IfConnected
        <4> HIDE DEF t
        <4>2. SaysAll(s)
          BY <3>2, <4>1, SaysNothing, SaysTwo
        <4> QED
          BY <1>1, <3>1, <4>2
      <3> QED
        BY <3>3, <3>4
    <2>5. CASE HandlePowerOff \/ HandleEnterPairing \/ HandleConnectCfmInLimbo
      <3>1. \/ queue' = Tail(queue) \/ queue' = Tail(queue) \o <<>>
            \/ queue' = Tail(queue) \o DisconnectAllSlc /\ Disconnects
        BY <2>5 DEF HandlePowerOff, HandleEnterPairing, HandleConnectCfmInLimbo, Done,
           DoneAndSend, Disconnects, IfConnected, IsConnected
      <3>2. CASE queue' = Tail(queue) \o DisconnectAllSlc /\ Disconnects
        <4>1. SaysAll(DisconnectAllSlc)
          BY <2>1, <2>2, <3>2, DisconnectsAsk, DisconnectsSent
        <4> QED
          BY <1>1, <3>2, <4>1
      <3> QED
        BY <1>1, <1>2, <3>1, <3>2, SaysNothing
    <2> QED
      BY <1>5, <2>4, <2>5
  <1> QED
    BY <1>3, <1>4, <1>5

\* What the library sends.
LEMMA LibrarySays ==
    ASSUME StreamInv
    PROVE  /\ \/ HandleDisconnectReq \/ HandleSdpCfm \/ HandleRfcConnectCfm
              \/ HandleRfcConnectInd \/ HandleAtComplete \/ HandleRfcDisconnect
              => queue # <<>> /\ \E s : SaysAll(s) /\ queue' = Tail(queue) \o s
           /\ (\E a \in Phone : RfcConnectIndAgain(a))
              => \E s : SaysAll(s) /\ queue' = queue \o s
  <1> DEFINE Sends(q) == \E s : SaysAll(s) /\ queue' = q \o s
  <1>1. queue \in Seq(Message) /\ LinksInv /\ DOMAIN links = 1..NumLinks
        /\ \A k \in 1..NumLinks : links[k] \in LinkRecord
    BY DEF StreamInv, Typed, LinksInv, LinksOf
  <1>2. queue # <<>> => Tail(queue) \in Seq(Message) /\ Head(queue) \in Message
    BY <1>1, Extended, HeadTailProperties
  <1>3. ASSUME NEW q \in Seq(Message), queue' = q PROVE Sends(q)
    BY <1>3, Extended, SaysNothing
  <1>4. ASSUME NEW l \in 1..NumLinks, links[l].state # "idle"
        PROVE  SaysAll(Failed(l))
    BY <1>1, <1>4, FailedIs, SaysOne
  <1>5. \A a \in Phone : LinkOf(a) # 0 =>
            LinkOf(a) \in 1..NumLinks /\ links[LinkOf(a)].state # "idle"
    BY <1>1, PhoneOfLink
  <1>6. ASSUME HandleDisconnectReq PROVE queue # <<>> /\ Sends(Tail(queue))
    <2>1. queue # <<>>
      BY <1>6 DEF HandleDisconnectReq, Receives
    <2> DEFINE x == DisconnectInd("no_slc", 0, NULL)
    <2>2. PICK l \in DOMAIN links \cup {0} :
            \/ queue' = Tail(queue)
            \/ queue' = Tail(queue) \o <<x>>
            \/ l # 0 /\ links[l].state = "searching" /\ queue' = Tail(queue) \o Failed(l)
      BY <1>6 DEF HandleDisconnectReq, Done, DoneAndSend
    <2>3. x \in Message /\ x.id = "SLC_DISCONNECT_IND" /\ x.status = "no_slc"
      <3>1. 0 \in 0..2 /\ "no_slc" \in Status \cup {"no_slc"} /\ NULL \in Phone \cup {NULL}
        OBVIOUS
      <3>2. x \in Message /\ x.id = "SLC_DISCONNECT_IND"
        BY <3>1, ConnectMessages, Zenon
      <3>3. x.status = "no_slc"
        BY DEF DisconnectInd
      <3> QED
        BY <3>2, <3>3
    <2> HIDE DEF x
    <2>4. SaysAll(<<x>>)
      BY <1>6, <2>3, SaysOne DEF Says, Made
    <2>5. Sends(Tail(queue))
      BY <1>1, <1>2, <1>3, <1>4, <2>1, <2>2, <2>4
    <2> QED
      BY <2>1, <2>5
  <1>7. ASSUME HandleSdpCfm PROVE queue # <<>> /\ Sends(Tail(queue))
    <2> DEFINE l == LinkOf(Head(queue).addr)
    <2>1. queue # <<>> /\ Head(queue).id = "SDP_CFM"
      BY <1>7 DEF HandleSdpCfm, Receives
    <2>2. \/ queue' = Tail(queue)
          \/ l # 0 /\ queue' = Tail(queue) \o Failed(l)
      BY <1>7 DEF HandleSdpCfm, Done, DoneAndSend, m
    <2>3. Head(queue).addr \in Phone
      BY <1>2, <2>1, PhoneNamed
    <2>4. Sends(Tail(queue))
      BY <1>2, <1>3, <1>4, <1>5, <2>1, <2>2, <2>3
    <2> QED
      BY <2>1, <2>4
  <1>8. ASSUME HandleRfcConnectCfm PROVE queue # <<>> /\ Sends(Tail(queue))
    <2>1. queue # <<>>
      BY <1>8 DEF HandleRfcConnectCfm, Receives
    <2>2. PICK a \in Phone : \/ queue' = Tail(queue)
                             \/ LinkOf(a) # 0 /\ queue' = Tail(queue) \o Failed(LinkOf(a))
      BY <1>8 DEF HandleRfcConnectCfm, Done, DoneAndSend
    <2>3. Sends(Tail(queue))
      BY <1>2, <1>3, <1>4, <1>5, <2>1, <2>2
    <2> QED
      BY <2>1, <2>3
  <1>9. ASSUME NEW a \in Phone, NEW rest \in Seq(Message), ConnectIndFrom(a, rest)
        PROVE  Sends(rest)
    <2> DEFINE told == <<Plain("SLC_CONNECT_IND")>>
    <2>1. SaysAll(told)
      <3>1. Plain("SLC_CONNECT_IND") \in Message
            /\ Plain("SLC_CONNECT_IND").id = "SLC_CONNECT_IND"
        BY OtherMessages
      <3>2. Says(Plain("SLC_CONNECT_IND"))
        BY <3>1, SaysOther
      <3> QED
        BY <3>1, <3>2, SaysOne
    <2>2. rest \o <<>> = rest
      BY Extended
    <2>3. \/ queue' = rest
          \/ queue' = (rest \o <<>>) \o told
          \/ LinkOf(a) # 0 /\ queue' = (rest \o Failed(LinkOf(a))) \o told
      BY <1>9 DEF ConnectIndFrom
    <2>4. LinkOf(a) # 0 => SaysAll(Failed(LinkOf(a)))
      BY <1>4, <1>5
    <2> HIDE DEF told
    <2>5. LinkOf(a) # 0 => /\ SaysAll(Failed(LinkOf(a)) \o told)
                           /\ (rest \o Failed(LinkOf(a))) \o told = rest \o (Failed(LinkOf(a)) \o told)
      BY SMTT(20), <2>1, <2>4, SaysTwo, Extended DEF SaysAll
    <2> QED
      BY <1>3, <2>1, <2>2, <2>3, <2>5
  <1>10. ASSUME HandleRfcConnectInd PROVE queue # <<>> /\ Sends(Tail(queue))
    <2>1. queue # <<>>
      BY <1>10 DEF HandleRfcConnectInd, Receives
    <2>2. PICK a \in Phone : ConnectIndFrom(a, Tail(queue))
      BY <1>10 DEF HandleRfcConnectInd
    <2>3. Sends(Tail(queue))
      BY <1>2, <1>9, <2>1, <2>2
    <2> QED
      BY <2>1, <2>3
  <1>11. ASSUME \E a \in Phone : RfcConnectIndAgain(a) PROVE Sends(queue)
    <2>1. \E a \in Phone : ConnectIndFrom(a, queue)
      BY <1>11 DEF RfcConnectIndAgain
    <2>2. Sends(queue)
      BY <1>1, <1>9, <2>1
    <2> QED
      BY <1>11, <2>2
  <1>12. ASSUME HandleAtComplete PROVE queue # <<>> /\ Sends(Tail(queue))
    <2> DEFINE a == Head(queue).addr
               l == LinkOf(a)
               x == ConnectCfm(TRUE, links[l].priority, a)
    <2>1. queue # <<>> /\ Head(queue).id = "AT_COMPLETE"
      BY <1>12 DEF HandleAtComplete, Receives
    <2>2. queue' = Tail(queue) \/ (l # 0 /\ queue' = Tail(queue) \o <<x>>)
      BY <1>12 DEF HandleAtComplete, Done, DoneAndSend, m
    <2>3. a \in Phone
      BY <1>2, <2>1, PhoneNamed
    <2>4. l # 0 => x \in Message /\ x.id = "SLC_CONNECT_CFM"
      <3>1. l # 0 => links[l].priority \in 0..2
        BY <1>1, <1>5, <2>3 DEF LinkRecord
      <3> QED
        BY <2>3, <3>1, ConnectMessages
    <2> HIDE DEF x
    <2>5. l # 0 => SaysAll(<<x>>)
      BY <1>12, <2>4, SaysOne DEF Says
    <2>6. Sends(Tail(queue))
      BY <1>2, <1>3, <2>1, <2>2, <2>5
    <2> QED
      BY <2>1, <2>6
  <1>13. ASSUME HandleRfcDisconnect PROVE queue # <<>> /\ Sends(Tail(queue))
    <2> DEFINE a == Head(queue).addr
               l == LinkOf(a)
               x == DisconnectInd(Head(queue).status, links[l].priority, a)
    <2>1. queue # <<>> /\ Head(queue).id = "RFC_DISCONNECT" /\ l # 0
      BY <1>13 DEF HandleRfcDisconnect, Receives, m
    <2>2. queue' = Tail(queue) \o Failed(l) \/ queue' = Tail(queue) \o <<x>>
      BY <1>13 DEF HandleRfcDisconnect, DoneAndSend, m
    <2>3. a \in Phone /\ Head(queue).status \in Status
      BY <1>2, <2>1 DEF Message, User
    <2>4. x \in Message /\ x.id = "SLC_DISCONNECT_IND"
      <3>1. links[l].priority \in 0..2
        BY <1>1, <1>5, <2>1, <2>3 DEF LinkRecord
      <3> QED
        BY <2>3, <3>1, ConnectMessages
    <2> HIDE DEF x
    <2>5. SaysAll(<<x>>)
      BY <1>13, <2>4, SaysOne DEF Says, Made
    <2>6. Sends(Tail(queue))
      BY <1>4, <1>5, <2>1, <2>2, <2>3, <2>5
    <2> QED
      BY <2>1, <2>6
  <1> QED
    BY <1>6, <1>7, <1>8, <1>10, <1>11, <1>12, <1>13

\* What comes from outside.
LEMMA OutsideSays ==
    ASSUME queue \in Seq(Message), Outside
    PROVE  \E s : SaysAll(s) /\ queue' = queue \o s
  <1>1. ASSUME NEW x \in Message, Says(x), queue' = Append(queue, x)
        PROVE  \E s : SaysAll(s) /\ queue' = queue \o s
    BY <1>1, Extended, SaysOne
  <1>2. ASSUME NEW a \in Phone, NEW status \in Status, Ends(a, status)
        PROVE  \E x \in Message : Says(x) /\ queue' = Append(queue, x)
    <2> DEFINE x == [id |-> "RFC_DISCONNECT", addr |-> a, status |-> status]
    <2>1. x \in Message /\ x.id = "RFC_DISCONNECT"
      BY OtherMessages
    <2>2. queue' = Append(queue, x)
      BY <1>2 DEF Ends
    <2> HIDE DEF x
    <2> QED
      BY <2>1, <2>2, SaysOther
  <1>3. ASSUME NEW a \in Phone, NEW ok \in BOOLEAN, StackConnects(a, ok) \/ StackFinds(a, ok)
        PROVE  \E x \in Message : Says(x) /\ queue' = Append(queue, x)
    <2>1. \A id \in {"SDP_CFM", "RFC_CONNECT_CFM"} :
            Answer(id, a, ok) \in Message /\ Answer(id, a, ok).id = id
      BY OtherMessages
    <2>2. \A id \in {"SDP_CFM", "RFC_CONNECT_CFM"} : Says(Answer(id, a, ok))
      BY <2>1, SaysOther
    <2>3. \E id \in {"SDP_CFM", "RFC_CONNECT_CFM"} : queue' = Append(queue, Answer(id, a, ok))
      BY <1>3 DEF StackConnects, StackFinds
    <2> QED
      BY <2>1, <2>2, <2>3
  <1>4. ASSUME NEW a \in Phone, PhoneCompletesAt(a) \/ PhoneCalls(a)
        PROVE  \E x \in Message : Says(x) /\ queue' = Append(queue, x)
    <2>1. \A id \in {"RFC_CONNECT_IND", "AT_COMPLETE"} :
            OfPhone(id, a) \in Message /\ OfPhone(id, a).id = id /\ OfPhone(id, a).addr = a
      BY OtherMessages
    <2>2. CASE PhoneCompletesAt(a)
      <3>1. queue' = Append(queue, OfPhone("AT_COMPLETE", a))
        BY <2>2 DEF PhoneCompletesAt
      <3>2. Says(OfPhone("AT_COMPLETE", a))
        BY <2>1, <2>2 DEF Says, Made
      <3> QED
        BY <2>1, <3>1, <3>2
    <2>3. CASE PhoneCalls(a)
      <3>1. queue' = Append(queue, OfPhone("RFC_CONNECT_IND", a))
        BY <2>3 DEF PhoneCalls
      <3>2. Says(OfPhone("RFC_CONNECT_IND", a))
        BY <2>1, SaysOther
      <3> QED
        BY <2>1, <3>1, <3>2
    <2> QED
      BY <1>4, <2>2, <2>3
  <1>5. ASSUME NEW id \in User, UserPresses(id)
        PROVE  \E x \in Message : Says(x) /\ queue' = Append(queue, x)
    <2>1. Plain(id) \in Message /\ Plain(id).id = id
      BY OtherMessages
    <2>2. queue' = Append(queue, Plain(id))
      BY <1>5 DEF UserPresses
    <2>3. Says(Plain(id))
      BY <2>1, SaysOther DEF User
    <2> QED
      BY <2>1, <2>2, <2>3
  <1> QED
    BY <1>1, <1>2, <1>3, <1>4, <1>5 DEF Outside, StackCloses, PhoneEnds, Status

\* A step takes a message or none, and sends some.
LEMMA StepSays ==
    ASSUME StreamInv, Next
    PROVE  \E s : /\ SaysAll(s)
                  /\ \/ /\ Hears /\ queue # <<>> /\ Head(queue) = queue[1]
                        /\ queue \in Seq(Message) /\ queue' = Tail(queue) \o s
                        /\ Moved(queue, queue', s, 1)
                     \/ Acts /\ queue' = queue \o s /\ Moved(queue, queue', s, 0)
  <1>1. queue \in Seq(Message) /\ LinksInv
    BY DEF StreamInv, Typed
  <1>2. ASSUME NEW s, SaysAll(s)
        PROVE  /\ queue' = queue \o s => Moved(queue, queue', s, 0)
               /\ queue # <<>> /\ queue' = Tail(queue) \o s =>
                      Moved(queue, queue', s, 1) /\ Head(queue) = queue[1]
    BY <1>1, <1>2, MovedOn DEF SaysAll
  <1>3. CASE Hears
    <2>1. queue # <<>> /\ \E s : SaysAll(s) /\ queue' = Tail(queue) \o s
      <3>1. CASE \/ HandlePowerOn \/ HandlePowerOff \/ HandleEnterPairing \/ HandleEstablish
                 \/ HandleConnectInd \/ HandleConnectCfmInLimbo \/ HandleConnectSuccess
                 \/ HandleConnectFail \/ HandleDisconnectInd
        BY <1>1, <3>1, ApplicationSays
      <3>2. CASE \/ HandleDisconnectReq \/ HandleSdpCfm \/ HandleRfcConnectCfm
                 \/ HandleRfcConnectInd \/ HandleAtComplete \/ HandleRfcDisconnect
        BY <3>2, LibrarySays
      <3> QED
        BY <1>3, <3>1, <3>2 DEF Hears
    <2> QED
      BY <1>1, <1>2, <1>3, <2>1
  <1>4. CASE Acts
    <2>1. \E s : SaysAll(s) /\ queue' = queue \o s
      <3>1. CASE \E a \in Phone : RfcConnectIndAgain(a)
        BY <3>1, LibrarySays
      <3>2. CASE Outside
        BY <1>1, <3>2, OutsideSays
      <3>3. CASE PairingEnds \/ ConnectableTimeout
        <4>1. queue' = queue
          BY <3>3 DEF PairingEnds, ConnectableTimeout
        <4> QED
          BY <1>1, <4>1, SaysNothing, Extended
      <3>4. CASE Continue
        <4>1. \/ queue' = queue
              \/ queue' = Append(queue, Plain("ENTER_PAIRING"))
              \/ AttemptConnection(GetNextListID.id, continues - 1, queue)
          BY <3>4 DEF Continue, ContinueSearch
        <4>2. Plain("ENTER_PAIRING") \in Message /\ Plain("ENTER_PAIRING").id = "ENTER_PAIRING"
          BY OtherMessages DEF User
        <4>3. Says(Plain("ENTER_PAIRING"))
          BY <4>2, SaysOther
        <4> QED
          <5>1. CASE AttemptConnection(GetNextListID.id, continues - 1, queue)
            BY <1>1, <5>1, AttemptSays
          <5>2. CASE queue' = queue
            BY <1>1, <5>2, SaysNothing, Extended
          <5>3. CASE queue' = Append(queue, Plain("ENTER_PAIRING"))
            BY <1>1, <4>2, <4>3, <5>3, SaysOne, Extended
          <5> QED
            BY <4>1, <5>1, <5>2, <5>3
      <3> QED
        BY <1>4, <3>1, <3>2, <3>3, <3>4 DEF Acts
    <2> QED
      BY <1>2, <1>4, <2>1
  <1> QED
    BY <1>3, <1>4, HearsOrActs

-----------------------------------------------------------------------------
\* A link that is open stays as it is, but that it may move up; and none of the links
\* ls becomes complete, as the links rs.
Kept(n, ls, rs) ==
    \A l \in 1..n :
        /\ ls[l].state \in Opened =>
               /\ rs[l].state = ls[l].state /\ rs[l].addr = ls[l].addr
               /\ \/ rs[l].priority = ls[l].priority
                  \/ ls[l].priority = 2 /\ rs[l].priority = 1
        /\ rs[l].state = "complete" => ls[l].state = "complete"

LEMMA KeptSame == ASSUME NEW n, NEW ls PROVE Kept(n, ls, ls)
  BY DEF Kept

LEMMA KeptTwice ==
    ASSUME NEW n, NEW ls, NEW rs, NEW ts, Kept(n, ls, rs), Kept(n, rs, ts)
    PROVE  Kept(n, ls, ts)
  <1>1. ASSUME NEW l \in 1..n, ls[l].state \in Opened
        PROVE  /\ ts[l].state = ls[l].state /\ ts[l].addr = ls[l].addr
               /\ \/ ts[l].priority = ls[l].priority
                  \/ ls[l].priority = 2 /\ ts[l].priority = 1
    <2>1. /\ rs[l].state = ls[l].state /\ rs[l].addr = ls[l].addr
          /\ \/ rs[l].priority = ls[l].priority
             \/ ls[l].priority = 2 /\ rs[l].priority = 1
      BY <1>1 DEF Kept
    <2>2. /\ ts[l].state = rs[l].state /\ ts[l].addr = rs[l].addr
          /\ \/ ts[l].priority = rs[l].priority
             \/ rs[l].priority = 2 /\ ts[l].priority = 1
      BY <1>1, <2>1 DEF Kept
    <2> QED
      BY <2>1, <2>2
  <1>2. ASSUME NEW l \in 1..n, ts[l].state = "complete" PROVE ls[l].state = "complete"
    BY <1>2 DEF Kept
  <1> QED
    BY <1>1, <1>2 DEF Kept

\* A link set up, one given up and one that goes on, before it is complete.
LEMMA SetupKept ==
    ASSUME NEW n \in {1, 2}, NEW ls, LinksOf(n, ls), NEW l \in 1..n,
           ls[l].state \notin Opened, NEW a, NEW s, s # "complete"
    PROVE  Kept(n, ls, Setup(ls, l, a, s))
  <1> DEFINE rs == Setup(ls, l, a, s)
  <1>1. \A k \in 1..n : k # l => rs[k] = ls[k]
    BY DEF Setup, LinksOf
  <1>2. rs[l].state = s
    BY DEF Setup, LinksOf
  <1> HIDE DEF rs
  <1>3. Kept(n, ls, rs)
    BY <1>1, <1>2 DEF Kept
  <1> QED
    BY <1>3 DEF rs

LEMMA ResetIs ==
    ASSUME NEW n \in {1, 2}, NEW ls, LinksOf(n, ls), NEW l \in 1..n
    PROVE  /\ Reset(ls, l)[l] = IdleLink
           /\ \A k \in 1..n : k # l =>
                 /\ Reset(ls, l)[k].state = ls[k].state /\ Reset(ls, l)[k].addr = ls[k].addr
                 /\ Reset(ls, l)[k].priority = IF ls[k].priority = 2 THEN 1 ELSE ls[k].priority
  <1>1. DOMAIN ls = 1..n /\ \A k \in 1..n : ls[k] \in LinkRecord
    BY DEF LinksOf
  <1>2. Reset(ls, l) = [k \in 1..n |->
            IF k = l THEN IdleLink
            ELSE IF ls[k].priority = 2 THEN [ls[k] EXCEPT !.priority = 1] ELSE ls[k]]
    BY <1>1 DEF Reset
  <1>3. Reset(ls, l)[l] = IdleLink
    BY <1>2
  <1>4. ASSUME NEW k \in 1..n, k # l
        PROVE  /\ Reset(ls, l)[k].state = ls[k].state /\ Reset(ls, l)[k].addr = ls[k].addr
               /\ Reset(ls, l)[k].priority = IF ls[k].priority = 2 THEN 1 ELSE ls[k].priority
    <2>1. Reset(ls, l)[k] = IF ls[k].priority = 2 THEN [ls[k] EXCEPT !.priority = 1] ELSE ls[k]
      BY <1>2, <1>4
    <2> QED
      BY <1>1, <2>1 DEF LinkRecord
  <1> QED
    BY <1>3, <1>4

LEMMA ResetKept ==
    ASSUME NEW n \in {1, 2}, NEW ls, LinksOf(n, ls), NEW l \in 1..n, ls[l].state \notin Opened
    PROVE  Kept(n, ls, Reset(ls, l))
  <1>1. /\ Reset(ls, l)[l].state = "idle"
        /\ \A k \in 1..n : k # l =>
                 /\ Reset(ls, l)[k].state = ls[k].state /\ Reset(ls, l)[k].addr = ls[k].addr
                 /\ Reset(ls, l)[k].priority = IF ls[k].priority = 2 THEN 1 ELSE ls[k].priority
    BY ResetIs DEF IdleLink
  <1> QED
    BY <1>1 DEF Kept

LEMMA MovesKept ==
    ASSUME NEW n \in {1, 2}, NEW ls, LinksOf(n, ls), NEW l \in 1..n,
           ls[l].state \notin Opened, NEW s, s # "complete"
    PROVE  Kept(n, ls, [ls EXCEPT ![l].state = s])
  <1> DEFINE rs == [ls EXCEPT ![l].state = s]
  <1>1. \A k \in 1..n : k # l => rs[k] = ls[k]
    BY DEF LinksOf
  <1>2. rs[l].state = s
    BY DEF LinksOf, LinkRecord
  <1> HIDE DEF rs
  <1>3. Kept(n, ls, rs)
    BY <1>1, <1>2 DEF Kept
  <1> QED
    BY <1>3 DEF rs

\* A call takes an idle link or that of a search.
LEMMA CallKept ==
    ASSUME LinksInv, NEW a \in Phone, NEW rest, ConnectIndFrom(a, rest)
    PROVE  Kept(NumLinks, links, links')
  <1>1. NumLinks \in {1, 2} /\ LinksOf(NumLinks, links)
    BY OneOrTwo DEF LinksInv
  <1> DEFINE l == LinkOf(a)
  <1>2. l # 0 => l \in 1..NumLinks
    BY PhoneOfLink
  <1>3. \/ links' = links
        \/ IdleOne # 0 /\ links' = Setup(links, IdleOne, a, "incoming")
        \/ /\ l # 0 /\ links[l].state = "searching"
           /\ links' = Setup(Reset(links, l), l, a, "incoming")
    BY DEF ConnectIndFrom
  <1> HIDE DEF l
  <1>4. CASE links' = links
    BY <1>4, KeptSame
  <1>5. CASE IdleOne # 0 /\ links' = Setup(links, IdleOne, a, "incoming")
    <2>1. IdleOne \in 1..NumLinks /\ links[IdleOne].state \notin Opened
      BY <1>1, <1>5, IdleOneIdle DEF Opened
    <2> QED
      BY <1>1, <1>5, <2>1, SetupKept
  <1>6. CASE /\ l # 0 /\ links[l].state = "searching"
             /\ links' = Setup(Reset(links, l), l, a, "incoming")
    <2> DEFINE rs == Reset(links, l)
    <2>1. l \in 1..NumLinks /\ links[l].state \notin Opened
      BY <1>2, <1>6 DEF Opened
    <2>2. Kept(NumLinks, links, rs)
      BY <1>1, <2>1, ResetKept
    <2>3. LinksOf(NumLinks, rs) /\ rs[l].state = "idle"
      <3>1. LinksOf(NumLinks, Reset(links, l))
        BY <1>1, <2>1, ResetKeeps
      <3>2. Reset(links, l)[l] = IdleLink
        BY <1>1, <2>1, ResetIs
      <3>3. IdleLink.state = "idle"
        BY DEF IdleLink
      <3> QED
        BY <3>1, <3>2, <3>3
    <2> HIDE DEF rs
    <2>4. rs[l].state \notin Opened
      BY <2>3 DEF Opened
    <2>5. Kept(NumLinks, rs, Setup(rs, l, a, "incoming"))
      BY <1>1, <2>1, <2>3, <2>4, SetupKept
    <2>6. links' = Setup(rs, l, a, "incoming")
      BY <1>6 DEF rs
    <2> QED
      BY <2>2, <2>5, <2>6, KeptTwice
  <1> QED
    BY <1>3, <1>4, <1>5, <1>6

\* All but the last answer of the AT exchange and the end of a stream keep the open links.
LEMMA LinksStay ==
    ASSUME StreamInv, Next, ~HandleAtComplete, ~HandleRfcDisconnect
    PROVE  Kept(NumLinks, links, links')
  <1>1. /\ LinksInv /\ NumLinks \in {1, 2} /\ LinksOf(NumLinks, links)
        /\ DOMAIN links = 1..NumLinks /\ queue \in Seq(Message)
    BY OneOrTwo DEF StreamInv, LinksInv, LinksOf, Typed
  <1>2. CASE links' = links
    BY <1>2, KeptSame
  <1>3. ASSUME NEW l \in 1..NumLinks, links[l].state \notin Opened,
               \/ links' = Reset(links, l)
               \/ \E s : s # "complete" /\ links' = [links EXCEPT ![l].state = s]
        PROVE  Kept(NumLinks, links, links')
    <2>1. CASE links' = Reset(links, l)
      BY <1>1, <1>3, <2>1, ResetKept
    <2>2. ASSUME NEW s, s # "complete", links' = [links EXCEPT ![l].state = s]
          PROVE  Kept(NumLinks, links, links')
      BY <1>1, <1>3, <2>2, MovesKept
    <2> QED
      BY <1>3, <2>1, <2>2
  <1>4. ASSUME NEW a, NEW rest, HfpSlcConnectRequest(a, rest)
        PROVE  Kept(NumLinks, links, links')
    <2>1. \/ links' = links
          \/ IdleOne # 0 /\ links' = Setup(links, IdleOne, a, "searching")
      BY <1>4 DEF HfpSlcConnectRequest
    <2>2. CASE IdleOne # 0 /\ links' = Setup(links, IdleOne, a, "searching")
      <3>1. IdleOne \in 1..NumLinks /\ links[IdleOne].state \notin Opened
        BY <1>1, <2>2, IdleOneIdle DEF Opened
      <3> QED
        BY <1>1, <2>2, <3>1, SetupKept
    <2> QED
      BY <1>2, <2>1, <2>2
  <1>5. ASSUME NEW id, NEW pending, NEW rest, AttemptConnection(id, pending, rest)
        PROVE  Kept(NumLinks, links, links')
    BY <1>2, <1>4, <1>5 DEF AttemptConnection
  <1>6. CASE HandleEstablish
    <2>1. links' = links \/ \E id : AttemptConnection(id, continues, Tail(queue))
      BY <1>6 DEF HandleEstablish
    <2> QED
      BY <1>2, <1>5, <2>1
  <1>7. CASE Continue
    <2>1. links' = links \/ AttemptConnection(GetNextListID.id, continues - 1, queue)
      BY <1>7 DEF Continue, ContinueSearch
    <2> QED
      BY <1>2, <1>5, <2>1
  <1>8. CASE HandleRfcConnectInd \/ \E a \in Phone : RfcConnectIndAgain(a)
    <2>1. PICK a \in Phone : \E rest : ConnectIndFrom(a, rest)
      BY <1>8 DEF HandleRfcConnectInd, RfcConnectIndAgain
    <2> QED
      BY <1>1, <2>1, CallKept
  <1>9. CASE HandleDisconnectReq
    <2>1. PICK l \in DOMAIN links \cup {0} :
            \/ links' = links
            \/ l # 0 /\ links[l].state = "searching" /\ links' = Reset(links, l)
      BY <1>9 DEF HandleDisconnectReq
    <2> QED
      BY <1>1, <1>2, <1>3, <2>1 DEF Opened
  <1>10. CASE HandleSdpCfm
    <2> DEFINE l == LinkOf(m.addr)
    <2>1. \/ links' = links
          \/ /\ l # 0 /\ links[l].state = "searching"
             /\ \/ links' = [links EXCEPT ![l].state = "outgoing"]
                \/ links' = Reset(links, l)
      BY <1>10 DEF HandleSdpCfm
    <2>2. l # 0 => l \in 1..NumLinks
      BY <1>1, LinkOfPhone
    <2> HIDE DEF l
    <2>3. links[l].state = "searching" => links[l].state \notin Opened
      BY DEF Opened
    <2> QED
      BY <1>2, <1>3, <2>1, <2>2, <2>3
  <1>11. CASE HandleRfcConnectCfm
    <2>1. queue # <<>>
      BY <1>11 DEF HandleRfcConnectCfm, Receives
    <2>2. PICK a \in Phone, ok \in BOOLEAN :
            /\ Head(queue) = Answer("RFC_CONNECT_CFM", a, ok)
            /\ \/ links' = links
               \/ links' = [links EXCEPT ![LinkOf(a)].state = "connected"]
               \/ links' = Reset(links, LinkOf(a))
      BY <1>11 DEF HandleRfcConnectCfm, m
    <2>3. Head(queue).id = "RFC_CONNECT_CFM" /\ Head(queue).addr = a
      BY <2>2 DEF Answer
    <2>4. PhoneState(links, a) \in Opening
      BY <1>1, <2>1, <2>3, StreamAnswerHeard DEF StreamInv, Streams
    <2>5. LinkOf(a) \in 1..NumLinks /\ links[LinkOf(a)].state \in Opening
      BY <1>1, <2>4, PhoneOfLink DEF Opening
    <2>6. links[LinkOf(a)].state \notin Opened
      BY <2>5 DEF Opening, Opened
    <2> QED
      BY <1>2, <1>3, <2>2, <2>5, <2>6
  <1>12. CASE \/ HandlePowerOn \/ HandlePowerOff \/ HandleEnterPairing
              \/ HandleConnectInd \/ HandleConnectCfmInLimbo \/ HandleConnectSuccess
              \/ HandleConnectFail \/ HandleDisconnectInd \/ PairingEnds \/ ConnectableTimeout
    <2>1. links' = links
      BY <1>12 DEF HandlePowerOn, HandlePowerOff, HandleEnterPairing, HandleConnectInd,
         HandleConnectCfmInLimbo, HandleConnectSuccess, HandleConnectFail,
         HandleDisconnectInd, PairingEnds, ConnectableTimeout, lib
    <2> QED
      BY <1>2, <2>1
  <1>13. CASE Outside
    <2>1. links' = links
      BY <1>13 DEF Outside, PhoneCalls, PhoneCompletesAt, StackCloses, StackFinds,
         StackConnects, PhoneEnds, Ends, UserPresses, lib
    <2> QED
      BY <1>2, <2>1
  <1> QED
    BY <1>6, <1>7, <1>8, <1>9, <1>10, <1>11, <1>12, <1>13, HearsOrActs DEF Hears, Acts

-----------------------------------------------------------------------------
\* The connection of link l is about to end: it is asked for, BlueStack has been asked,
\* or the end is on its way.
Doomed(l) ==
    \/ \E k \in 1..Len(queue) : queue[k] = DisconnectReq(l)
    \/ links[l].addr \in closing
    \/ \E k \in 1..Len(queue) : queue[k].id = "RFC_DISCONNECT" /\ queue[k].addr = links[l].addr

Alive == {l \in Complete : ~Doomed(l)}

\* Which handlers hear what is about a stream.
LEMMA HeardBy ==
    ASSUME Hears
    PROVE  /\ Head(queue).id = "DISCONNECT_REQ" => HandleDisconnectReq
           /\ Head(queue).id = "RFC_DISCONNECT" => HandleRfcDisconnect
           /\ Head(queue).id = "AT_COMPLETE" => HandleAtComplete
           /\ Head(queue).id = "SLC_DISCONNECT_IND" => HandleDisconnectInd
           /\ Head(queue).id = "SLC_CONNECT_CFM" =>
                  HandleConnectCfmInLimbo \/ HandleConnectSuccess \/ HandleConnectFail
  BY DEF Hears, HandlePowerOn, HandlePowerOff, HandleEnterPairing, HandleEstablish,
     HandleConnectInd, HandleConnectCfmInLimbo, HandleConnectSuccess, HandleConnectFail,
     HandleDisconnectInd, HandleDisconnectReq, HandleSdpCfm, HandleRfcConnectCfm,
     HandleRfcConnectInd, HandleAtComplete, HandleRfcDisconnect, Receives

\* BlueStack forgets that it has been asked only with the end of the stream, or with
\* the answer that there is none.
LEMMA ClosingKept ==
    ASSUME Next, NEW a \in closing
    PROVE  \/ a \in closing'
           \/ \E ok \in BOOLEAN : StackConnects(a, ok)
           \/ \E status \in Status : Ends(a, status)
  <1>1. CASE Hears
    <2>1. closing' = closing \/ \E b : closing' = closing \cup {b}
      BY <1>1 DEF Hears, HandlePowerOn, HandlePowerOff, HandleEnterPairing, HandleEstablish,
         HandleConnectInd, HandleConnectCfmInLimbo, HandleConnectSuccess, HandleConnectFail,
         HandleDisconnectInd, HandleDisconnectReq, HandleSdpCfm, HandleRfcConnectCfm,
         HandleRfcConnectInd, HandleAtComplete, HandleRfcDisconnect, stack
    <2> QED
      BY <2>1
  <1>2. CASE \/ PairingEnds \/ ConnectableTimeout \/ Continue
             \/ \E b \in Phone : RfcConnectIndAgain(b)
    BY <1>2 DEF PairingEnds, ConnectableTimeout, Continue, RfcConnectIndAgain, stack
  <1>3. ASSUME NEW b \in Phone, \/ PhoneCalls(b) \/ PhoneCompletesAt(b)
                                \/ \E ok \in BOOLEAN : StackFinds(b, ok)
        PROVE  a \in closing'
    BY <1>3 DEF PhoneCalls, PhoneCompletesAt, StackFinds, stack
  <1>4. ASSUME NEW id \in User, UserPresses(id) PROVE a \in closing'
    BY <1>4 DEF UserPresses, stack
  <1>5. ASSUME NEW b \in Phone, NEW ok \in BOOLEAN, StackConnects(b, ok)
        PROVE  a \in closing' \/ StackConnects(a, ok)
    BY <1>5 DEF StackConnects
  <1>6. ASSUME NEW b \in Phone, NEW status \in Status, Ends(b, status)
        PROVE  a \in closing' \/ Ends(a, status)
    BY <1>6 DEF Ends
  <1>7. CASE Outside
    <2>1. CASE \E b \in Phone, status \in Status : Ends(b, status)
      BY <1>6, <2>1
    <2>2. CASE ~\E b \in Phone, status \in Status : Ends(b, status)
      BY <1>3, <1>4, <1>5, <1>7, <2>2 DEF Outside, StackCloses, PhoneEnds, Status
    <2> QED
      BY <2>1, <2>2
  <1> QED
    BY <1>1, <1>2, <1>7, HearsOrActs DEF Acts

\* An open link of which the end is on its way, or that is up, has a stream no answer
\* is to come of.
LEMMA OpenAir ==
    ASSUME StreamInv, NEW l \in 1..NumLinks, links[l].state \in Opened
    PROVE  /\ links[l].addr \in Phone
           /\ \/ air[links[l].addr] = "up"
              \/ /\ air[links[l].addr] = "none"
                 /\ \E k \in 1..Len(queue) : /\ queue[k].id = "RFC_DISCONNECT"
                                             /\ queue[k].addr = links[l].addr
           /\ air[links[l].addr] = "up" =>
                  \A k \in 1..Len(queue) : queue[k].id = "RFC_DISCONNECT"
                                           => queue[k].addr # links[l].addr
  <1> DEFINE a == links[l].addr
  <1>1. LinksOf(NumLinks, links) /\ NumLinks \in {1, 2}
    BY OneOrTwo DEF StreamInv, LinksInv
  <1>2. a \in Phone
    BY <1>1 DEF LinksOf, LinkRecord, Opened
  <1>3. PhoneState(links, a) = links[l].state
    BY <1>1, <1>2, PhoneStateIs
  <1>4. StreamOf(a, links[l].state, air[a], queue)
    BY <1>2, <1>3 DEF StreamInv, Streams
  <1>5. Agreed(a, links[l].state, air[a], queue) \/ Ended(a, links[l].state, air[a], queue)
    BY <1>4 DEF StreamOf, Answered, AnsweredEnded, Opening, Opened
  <1>6. CASE Agreed(a, links[l].state, air[a], queue)
    <2>1. air[a] = "up" /\ Heard(queue, a) = {}
      BY <1>6 DEF Agreed, NoStream, Opening, Opened
    <2> QED
      BY <1>2, <2>1 DEF Heard, StreamIds
  <1>7. CASE Ended(a, links[l].state, air[a], queue)
    BY <1>2, <1>7 DEF Ended, Heard
  <1> QED
    BY <1>5, <1>6, <1>7

\* Once its end is certain a connection does not last.
LEMMA DoomKept ==
    ASSUME StreamInv, Next, NEW l \in 1..NumLinks, links[l].state \in Opened, Doomed(l),
           links'[l].addr = links[l].addr,
           ~(HandleRfcDisconnect /\ m.addr = links[l].addr)
    PROVE  Doomed(l)'
  <1> DEFINE a == links[l].addr
             Asks(q) == \E k \in 1..Len(q) : q[k] = DisconnectReq(l)
             Tells(q) == \E k \in 1..Len(q) : q[k].id = "RFC_DISCONNECT" /\ q[k].addr = a
  <1>1. a \in Phone
    BY OpenAir
  <1>2. Asks(queue') \/ a \in closing' \/ Tells(queue') => Doomed(l)'
    BY DEF Doomed, DisconnectReq
  <1>3. PICK s, d : Moved(queue, queue', s, d) /\ d \in {0, 1}
                    /\ (d = 1 => Hears /\ Head(queue) = queue[1])
    BY StepSays
  <1>4. \A k \in 1..Len(queue) : d < k => k - d \in 1..Len(queue') /\ queue'[k - d] = queue[k]
    BY <1>3, MovedIs
  <1>5. \A k \in 1..Len(queue) : ~(d < k) => d = 1 /\ k = 1
    BY <1>3
  <1>6. Len(queue) \in Nat /\ queue \in Seq(Message)
    BY LenProperties DEF StreamInv, Typed
  <1>7. CASE Tells(queue)
    <2>1. PICK k \in 1..Len(queue) : queue[k].id = "RFC_DISCONNECT" /\ queue[k].addr = a
      BY <1>7
    <2>2. CASE d < k
      BY <1>2, <1>4, <2>1, <2>2
    <2>3. CASE ~(d < k)
      <3>1. Hears /\ Head(queue).id = "RFC_DISCONNECT" /\ Head(queue).addr = a
        BY <1>3, <1>5, <2>1, <2>3
      <3> QED
        BY <3>1, HeardBy DEF m
    <2> QED
      BY <2>2, <2>3
  <1>8. CASE a \in closing
    <2>1. CASE a \in closing'
      BY <1>2, <2>1
    <2>2. CASE \E ok \in BOOLEAN : StackConnects(a, ok)
      <3>1. air[a] \in {"asked", "accepted"}
        BY <2>2 DEF StackConnects
      <3> QED
        BY <3>1, OpenAir
    <2>3. CASE \E status \in Status : Ends(a, status)
      <3>1. PICK status \in Status : Ends(a, status)
        BY <2>3
      <3> DEFINE x == [id |-> "RFC_DISCONNECT", addr |-> a, status |-> status]
      <3>2. queue' = Append(queue, x) /\ x.id = "RFC_DISCONNECT" /\ x.addr = a
        BY <3>1 DEF Ends
      <3>25. x \in Message
        BY <1>1, OtherMessages
      <3> HIDE DEF x
      <3>3. Len(queue) + 1 \in 1..Len(queue') /\ queue'[Len(queue) + 1] = x
        BY <1>6, <3>2, <3>25, AppendProperties
      <3>4. Tells(queue')
        BY <3>2, <3>3
      <3> QED
        BY <1>2, <3>4
    <2> QED
      BY <1>8, <2>1, <2>2, <2>3, ClosingKept
  <1>9. CASE Asks(queue) /\ ~Tells(queue)
    <2>1. PICK k \in 1..Len(queue) : queue[k] = DisconnectReq(l)
      BY <1>9
    <2>2. CASE d < k
      BY <1>2, <1>4, <2>1, <2>2
    <2>3. CASE ~(d < k)
      <3>1. Hears /\ Head(queue) = DisconnectReq(l)
        BY <1>3, <1>5, <2>1, <2>3
      <3>2. HandleDisconnectReq
        BY <3>1, HeardBy DEF DisconnectReq
      <3>3. PICK k0 \in DOMAIN links \cup {0} :
              /\ Head(queue) = DisconnectReq(k0)
              /\ LET now == IF k0 = 0 THEN "idle" ELSE links[k0].state IN
                 \/ now = "idle"
                 \/ now = "searching"
                 \/ closing' = closing \cup {links[k0].addr}
                 \/ air[links[k0].addr] \in {"none", "asked"}
        BY <3>2 DEF HandleDisconnectReq, m
      <3>4. k0 = l /\ l # 0
        BY <3>1, <3>3 DEF DisconnectReq
      <3>5. closing' = closing \cup {a} \/ air[a] \in {"none", "asked"}
        BY <3>3, <3>4 DEF Opened
      <3>6. air[a] = "up"
        BY <1>9, OpenAir
      <3> QED
        BY <1>2, <3>5, <3>6
    <2> QED
      BY <2>2, <2>3
  <1> QED
    BY <1>7, <1>8, <1>9 DEF Doomed

-----------------------------------------------------------------------------
\* The slots in which the application has a connection.
Listed == {p \in 1..2 : profile_data[p].listed}

\* A slot with a connection says connected, and so does one while the state is
\* connected or page scan is off although the headset could be paged.
SlotInv ==
    /\ \A p \in Listed : profile_data[p].connected
    /\ IsConnected => \E p \in 1..2 : profile_data[p].connected
    /\ timer => conf.Multipoint
    /\ state \in {"connectable", "discoverable"} /\ ~page_scan_enabled =>
           conf.Multipoint /\ \E p \in 1..2 : profile_data[p].connected

\* The application is told of connections by a priority, and of none that ends with an
\* error but those in unheard.
ToldInv ==
    \A k \in 1..Len(queue) :
        /\ Made(queue[k]) \/ Over(queue[k]) => queue[k].priority \in 1..2
        /\ queue[k].id = "SLC_DISCONNECT_IND" /\ queue[k].status = "error" => unheard

\* Devices are counted by what the slots say.
LEMMA Counted ==
    ASSUME NEW data
    PROVE  /\ NumConnectedDevs(data) \in {0, 1, 2}
           /\ NumConnectedDevs(data) # 0 => \E p \in 1..2 : data[p].connected
           /\ AllConnected(data) => \A p \in 1..2 : data[p].connected
           /\ NumConnectedDevs(data) = 0 =>
                  \A p \in 1..2 : ProfileAddr(data, p) = NULL
  <1>1. \A p : ProfileAddr(data, p) # NULL => data[p].connected
    BY DEF ProfileAddr
  <1> DEFINE C == {p \in 1..2 : ProfileAddr(data, p) # NULL}
  <1>2. NumConnectedDevs(data) = IF C = {} THEN 0 ELSE IF C = {1, 2} THEN 2 ELSE 1
    BY DEF NumConnectedDevs
  <1>3. NumConnectedDevs(data) # 0 => \E p \in 1..2 : data[p].connected
    BY <1>1, <1>2
  <1>4. AllConnected(data) => C = {1, 2}
    BY <1>2 DEF AllConnected, MAX_MULTIPOINT_CONNECTIONS
  <1>5. AllConnected(data) => \A p \in 1..2 : data[p].connected
    <2>1. C = {1, 2} => \A p \in 1..2 : p \in C
      OBVIOUS
    <2> QED
      BY <1>1, <1>4, <2>1
  <1>6. NumConnectedDevs(data) = 0 => \A p \in 1..2 : ProfileAddr(data, p) = NULL
    BY <1>2
  <1>7. NumConnectedDevs(data) \in {0, 1, 2}
    BY <1>2
  <1> QED
    BY <1>3, <1>5, <1>6, <1>7

\* A slot gone, and the secondary one moved up.
LEMMA DroppedIs ==
    ASSUME profile_data \in [1..2 -> Slot], m.priority \in 1..2, NEW lost
    PROVE  /\ m.priority = 1 /\ profile_data[2].listed =>
                  /\ Dropped(lost)[1] = profile_data[2]
                  /\ Dropped(lost)[2].connected = profile_data[2].connected
                  /\ ~Dropped(lost)[2].listed
           /\ m.priority = 1 /\ ~profile_data[2].listed =>
                  ~Dropped(lost)[1].listed /\ Dropped(lost)[2] = profile_data[2]
           /\ m.priority = 2 =>
                  Dropped(lost)[1] = profile_data[1] /\ ~Dropped(lost)[2].listed
  <1> DEFINE slot == [connected |-> profile_data[m.priority].connected
                                    /\ (lost \/ ProfilesConnected(profile_data, m.addr)),
                      listed |-> FALSE]
             gone == [profile_data EXCEPT ![m.priority] = slot]
             first == [gone EXCEPT ![1] = gone[2]]
             up == [first EXCEPT ![2].listed = FALSE]
  <1>1. Dropped(lost) = IF m.priority = 1 /\ gone[2].listed THEN up ELSE gone
    <2> HIDE DEF slot
    <2>1. [profile_data EXCEPT
              ![m.priority] = [connected |-> @.connected
                                   /\ (lost \/ ProfilesConnected(profile_data, m.addr)),
                               listed |-> FALSE]] = gone
      BY DEF slot
    <2>2. [gone EXCEPT ![1] = gone[2], ![2].listed = FALSE] = up
      OBVIOUS
    <2>3. Dropped(lost) = IF m.priority = 1 /\ gone[2].listed
                          THEN [gone EXCEPT ![1] = gone[2], ![2].listed = FALSE] ELSE gone
      BY <2>1 DEF Dropped
    <2> QED
      BY <2>2, <2>3
  <1>2. slot \in Slot /\ ~slot.listed
    BY DEF Slot
  <1> HIDE DEF slot
  <1>3. /\ gone[m.priority] = slot /\ gone \in [1..2 -> Slot]
        /\ \A q \in 1..2 : q # m.priority => gone[q] = profile_data[q]
    BY <1>2
  <1> HIDE DEF gone
  <1>4. first[1] = gone[2] /\ first[2] = gone[2] /\ first \in [1..2 -> Slot]
    BY <1>3
  <1> HIDE DEF first
  <1>5. up[1] = first[1] /\ up[2].connected = first[2].connected /\ ~up[2].listed
    BY <1>4 DEF Slot
  <1> HIDE DEF up
  <1> QED
    BY <1>1, <1>2, <1>3, <1>4, <1>5

LEMMA DroppedLists ==
    ASSUME profile_data \in [1..2 -> Slot], m.priority \in 1..2, NEW lost
    PROVE  {p \in 1..2 : Dropped(lost)[p].listed} =
               IF m.priority = 1 THEN IF 2 \in Listed THEN {1} ELSE {} ELSE Listed \ {m.priority}
  BY DroppedIs DEF Listed

LEMMA DroppedSlots ==
    ASSUME profile_data \in [1..2 -> Slot], m.priority \in 1..2, NEW lost,
           \A p \in Listed : profile_data[p].connected
    PROVE  /\ \A p \in 1..2 : Dropped(lost)[p].listed => Dropped(lost)[p].connected
           /\ (\A p \in 1..2 : profile_data[p].connected)
                  => \E p \in 1..2 : Dropped(lost)[p].connected
  BY DroppedIs DEF Listed

\* A connection made fills its slot.
LEMMA FilledIs ==
    ASSUME profile_data \in [1..2 -> Slot], NEW p \in 1..2, NEW data,
           data = [[profile_data EXCEPT ![p].connected = TRUE] EXCEPT ![p].listed = TRUE]
    PROVE  /\ data[p].connected /\ data[p].listed
           /\ \A q \in 1..2 : q # p => data[q] = profile_data[q]
  <1> DEFINE first == [profile_data EXCEPT ![p].connected = TRUE]
  <1>1. first \in [1..2 -> Slot]
    BY FieldsChange
  <1>2. first[p].connected /\ \A q \in 1..2 : q # p => first[q] = profile_data[q]
    BY DEF Slot
  <1>3. data = [first EXCEPT ![p].listed = TRUE]
    OBVIOUS
  <1> HIDE DEF first
  <1>4. data[p].listed /\ data[p].connected = first[p].connected
        /\ \A q \in 1..2 : q # p => data[q] = first[q]
    <2>1. data[p] = [first[p] EXCEPT !.listed = TRUE]
          /\ \A q \in 1..2 : q # p => data[q] = first[q]
      BY <1>1, <1>3
    <2>2. first[p] \in Slot
      BY <1>1
    <2> QED
      BY <2>1, <2>2 DEF Slot
  <1> QED
    BY <1>2, <1>4

\* Every step keeps the slots so.
LEMMA SlotsStep ==
    ASSUME EndInv, AppInv, SlotInv, ToldInv, Next
    PROVE  SlotInv'
  <1>1. /\ queue \in Seq(Message) /\ LinksInv /\ StreamInv
        /\ profile_data \in [1..2 -> Slot]
    BY DEF EndInv, StreamInv, Typed, AppInv
  <1>2. conf' = conf
    BY <1>1, ConfKept
  <1> DEFINE Holds(data) == \E p \in 1..2 : data[p].connected
  <1>3. CASE UNCHANGED app
    BY <1>2, <1>3 DEF SlotInv, Listed, IsConnected, app, scan
  <1>4. ASSUME queue # <<>> PROVE Head(queue) = queue[1] /\ 1 \in 1..Len(queue)
    BY <1>1, <1>4, HeadTailProperties, LenProperties, EmptySeq
  <1>5. CASE HandlePowerOn \/ HandlePowerOff \/ HandleEnterPairing \/ PairingEnds
    <2>1. profile_data' = profile_data /\ timer' = timer
      BY <1>5 DEF HandlePowerOn, HandlePowerOff, HandleEnterPairing, PairingEnds
    <2>2. \/ state' = "limbo"
          \/ state' \in {"connectable", "discoverable"} /\ page_scan_enabled' = TRUE
          \/ state' = state /\ page_scan_enabled' = page_scan_enabled
      BY <1>5 DEF HandlePowerOn, HandlePowerOff, HandleEnterPairing, PairingEnds,
         EnterConnectable, Connectable
    <2> QED
      BY <1>2, <2>1, <2>2 DEF SlotInv, Listed, IsConnected
  <1>6. CASE ConnectableTimeout
    <2>1. profile_data' = profile_data /\ timer' = FALSE /\ timer /\ state' = state
      BY <1>6 DEF ConnectableTimeout
    <2>2. \/ page_scan_enabled' = page_scan_enabled
          \/ NumConnectedDevs(profile_data) # 0
      <3>1. NumConnectedDevs(profile_data) \in {0, 1, 2}
        BY Counted
      <3>2. NumConnectedDevs(profile_data) = 0 => ~(NumConnectedDevs(profile_data) > 0)
        BY <3>1
      <3> QED
        BY <1>6, <3>2, Zenon DEF ConnectableTimeout
    <2> QED
      BY <1>2, <2>1, <2>2, Counted DEF SlotInv, Listed, IsConnected
  <1>7. CASE HandleConnectInd \/ HandleConnectCfmInLimbo
    BY <1>3, <1>7 DEF HandleConnectInd, HandleConnectCfmInLimbo
  <1>8. CASE HandleConnectFail
    <2>1. profile_data' = profile_data /\ state' = state
      BY <1>8 DEF HandleConnectFail
    <2>2. \/ page_scan_enabled' = page_scan_enabled /\ timer' = timer
          \/ conf.Multipoint /\ AllConnected(profile_data) /\ timer' = FALSE
      BY <1>8 DEF HandleConnectFail, scan
    <2>3. AllConnected(profile_data) => Holds(profile_data)
      BY Counted
    <2> QED
      BY <1>2, <2>1, <2>2, <2>3 DEF SlotInv, Listed, IsConnected
  <1>9. CASE HandleConnectSuccess
    <2> DEFINE p == m.priority
    <2>1. p \in 1..2
      BY <1>4, <1>9 DEF HandleConnectSuccess, Receives, ToldInv, Made, m
    <2>2. /\ profile_data' = [[profile_data EXCEPT ![p].connected = TRUE] EXCEPT ![p].listed = TRUE]
          /\ \E data : EnterConnected(data)
      BY <1>9 DEF HandleConnectSuccess
    <2> HIDE DEF p
    <2>3. /\ profile_data'[p].connected
          /\ \A q \in 1..2 : q # p => profile_data'[q] = profile_data[q]
      BY <1>1, <2>1, <2>2, FilledIs
    <2>4. /\ state' = "connected"
          /\ timer' = timer \/ timer' = FALSE \/ conf.Multipoint
      BY <2>2 DEF EnterConnected, scan
    <2>5. \A q \in Listed' : profile_data'[q].connected
      BY <2>3 DEF SlotInv, Listed
    <2> QED
      BY <1>2, <2>1, <2>3, <2>4, <2>5 DEF SlotInv, IsConnected
  <1>10. CASE HandleDisconnectInd
    <2> DEFINE heard == m.status \in {"success", "link_loss"}
               lost == m.status = "link_loss"
               gone == IsConnected /\ NumConnectedDevs(profile_data') = 0
               again == heard /\ state # "limbo" /\ conf.Multipoint
                        /\ ~AllConnected(profile_data)
    <2>1. /\ profile_data' = IF heard THEN Dropped(lost) ELSE profile_data
          /\ state' = IF gone THEN "connectable" ELSE state
          /\ page_scan_enabled' = (page_scan_enabled \/ again \/ gone)
          /\ timer' = (timer \/ again)
      BY <1>10 DEF HandleDisconnectInd
    <2>2. heard => m.priority \in 1..2
      BY <1>4, <1>10 DEF HandleDisconnectInd, Receives, ToldInv, Over, m
    <2>3. /\ \A p \in Listed : profile_data[p].connected
          /\ page_scan_enabled \in BOOLEAN /\ timer \in BOOLEAN
      BY DEF SlotInv, AppInv
    <2>4. \A p \in 1..2 : profile_data'[p].listed => profile_data'[p].connected
      <3>1. CASE heard
        BY <1>1, <2>1, <2>2, <2>3, <3>1, DroppedSlots
      <3>2. CASE ~heard
        BY <2>1, <2>3, <3>2 DEF Listed
      <3> QED
        BY <3>1, <3>2
    <2>5. IsConnected' => Holds(profile_data')
      <3>1. IsConnected' => ~gone /\ IsConnected
        BY <2>1 DEF IsConnected
      <3>2. NumConnectedDevs(profile_data') # 0 => Holds(profile_data')
        BY Counted
      <3> QED
        BY <3>1, <3>2
    <2>6. timer' => conf'.Multipoint
      BY <1>2, <2>1 DEF SlotInv
    <2>7. ASSUME state' \in {"connectable", "discoverable"}, ~page_scan_enabled'
          PROVE  conf'.Multipoint /\ Holds(profile_data')
      <3>1. ~gone /\ ~again /\ ~page_scan_enabled /\ state' = state
        BY <2>1, <2>3, <2>7
      <3>2. conf.Multipoint /\ Holds(profile_data)
        BY <2>7, <3>1 DEF SlotInv
      <3>3. CASE heard
        <4>1. AllConnected(profile_data)
          BY <2>7, <3>1, <3>2, <3>3
        <4>2. \A p \in 1..2 : profile_data[p].connected
          BY <4>1, Counted
        <4> QED
          BY <1>1, <1>2, <2>1, <2>2, <2>3, <3>2, <3>3, <4>2, DroppedSlots
      <3>4. CASE ~heard
        BY <1>2, <2>1, <3>2, <3>4
      <3> QED
        BY <3>3, <3>4
    <2> HIDE DEF heard, lost, gone, again
    <2> QED
      BY <2>4, <2>5, <2>6, <2>7 DEF SlotInv, Listed
  <1> QED
    BY <1>1, <1>3, <1>5, <1>6, <1>7, <1>8, <1>9, <1>10, OthersKeepApp DEF Next

-----------------------------------------------------------------------------
\* The AT exchange ends on a link that is connected, before the end of its stream is
\* heard of, and once.
ATInv ==
    \A j \in 1..Len(queue) : queue[j].id = "AT_COMPLETE" =>
        /\ PhoneState(links, queue[j].addr) = "connected"
        /\ \A i \in 1..Len(queue) : queue[i].addr = queue[j].addr =>
               /\ queue[i].id = "RFC_DISCONNECT" => i > j
               /\ queue[i].id = "AT_COMPLETE" => i = j

\* The link of a phone.
LEMMA LinkIs ==
    ASSUME LinksInv, NEW a \in Phone, PhoneState(links, a) # "idle"
    PROVE  /\ LinkOf(a) \in 1..NumLinks /\ LinkOf(a) # 0
           /\ links[LinkOf(a)].addr = a /\ links[LinkOf(a)].state = PhoneState(links, a)
           /\ \A l \in 1..NumLinks : links[l].addr = a => l = LinkOf(a)
  <1>1. LinksOf(NumLinks, links) /\ NumLinks \in {1, 2}
    BY OneOrTwo DEF LinksInv
  <1>2. /\ \A l \in 1..NumLinks : links[l].addr = a => PhoneState(links, a) = links[l].state
        /\ (\A l \in 1..NumLinks : links[l].addr # a) => PhoneState(links, a) = "idle"
    BY <1>1, PhoneStateIs
  <1>3. /\ LinkOf(a) # 0 => LinkOf(a) \in 1..NumLinks /\ links[LinkOf(a)].addr = a
        /\ LinkOf(a) = 0 => \A k \in 1..NumLinks : links[k].addr # a
    BY <1>1, LinkOfPhone
  <1>4. LinkOf(a) # 0
    BY <1>2, <1>3
  <1>5. \A l \in 1..NumLinks : links[l].addr = a => l = LinkOf(a)
    <2> DEFINE k == LinkOf(a)
    <2>1. k \in 1..NumLinks /\ links[k].addr = a /\ links[k].state # "idle"
      BY <1>2, <1>3, <1>4
    <2> HIDE DEF k
    <2>2. \A l \in 1..NumLinks : links[l].addr = a => l = k
      BY <1>1, <2>1 DEF LinksOf
    <2> QED
      BY <2>2 DEF k
  <1> QED
    BY <1>2, <1>3, <1>4, <1>5

\* What the end of the AT exchange does.
LEMMA AtIs ==
    ASSUME StreamInv, ATInv, HandleAtComplete
    PROVE  \E l \in 1..NumLinks, p \in 1..2 :
              /\ l = LinkOf(m.addr) /\ m.addr \in Phone
              /\ links[l].state = "connected" /\ links[l].addr = m.addr
              /\ links[l].priority = p
              /\ links' = [links EXCEPT ![l].state = "complete"]
              /\ ConnectCfm(TRUE, p, m.addr) \in Message
              /\ queue' = Append(Tail(queue), ConnectCfm(TRUE, p, m.addr))
              /\ queue \in Seq(Message) /\ queue # <<>>
              /\ Head(queue) = queue[1] /\ Tail(queue) \in Seq(Message)
              /\ m.id = "AT_COMPLETE" /\ m = queue[1] /\ 1 \in 1..Len(queue)
  <1> DEFINE a == m.addr
             l == LinkOf(a)
             p == links[l].priority
  <1>1. /\ queue \in Seq(Message) /\ queue # <<>> /\ Head(queue) = queue[1]
        /\ 1 \in 1..Len(queue) /\ Tail(queue) \in Seq(Message)
        /\ m.id = "AT_COMPLETE" /\ m = queue[1] /\ m \in Message
    <2>1. queue \in Seq(Message) /\ queue # <<>> /\ m.id = "AT_COMPLETE"
      BY DEF StreamInv, Typed, HandleAtComplete, Receives, m
    <2> QED
      BY <2>1, HeadTailProperties, LenProperties, EmptySeq DEF m
  <1>2. a \in Phone
    BY <1>1, PhoneNamed
  <1>3. PhoneState(links, a) = "connected"
    BY <1>1 DEF ATInv
  <1>4. l \in 1..NumLinks /\ l # 0 /\ links[l].addr = a /\ links[l].state = "connected"
    BY <1>2, <1>3, LinkIs DEF StreamInv
  <1>5. p \in 1..2
    <2>1. p \in 0..2 /\ p # 0
      BY <1>4 DEF StreamInv, LinksInv, LinksOf, LinkRecord
    <2> QED
      BY <2>1
  <1>6. /\ links' = [links EXCEPT ![l].state = "complete"]
        /\ queue' = Tail(queue) \o <<ConnectCfm(TRUE, p, a)>>
    BY <1>4 DEF HandleAtComplete, DoneAndSend
  <1>7. ConnectCfm(TRUE, p, a) \in Message
    <2>1. p \in 0..2 /\ TRUE \in BOOLEAN
      BY <1>5
    <2> HIDE DEF a, p
    <2> QED
      BY <1>2, <2>1, ConnectMessages
  <1> HIDE DEF a, l, p
  <1>8. queue' = Append(Tail(queue), ConnectCfm(TRUE, p, a))
    BY <1>1, <1>6, <1>7, Extended
  <1> QED
    BY <1>1, <1>2, <1>4, <1>5, <1>6, <1>7, <1>8 DEF a, l, p

\* What the end of a stream does.
LEMMA EndIs ==
    ASSUME StreamInv, HandleRfcDisconnect
    PROVE  \E l \in 1..NumLinks, p \in 1..2, x \in Message :
              /\ m.addr \in Phone /\ m.status \in Status
              /\ links[l].state \in Opened /\ links[l].addr = m.addr
              /\ links[l].priority = p
              /\ links' = Reset(links, l)
              /\ x = IF links[l].state = "complete" THEN DisconnectInd(m.status, p, m.addr)
                     ELSE ConnectCfm(FALSE, p, m.addr)
              /\ queue' = Append(Tail(queue), x)
              /\ queue \in Seq(Message) /\ queue # <<>>
              /\ Head(queue) = queue[1] /\ Tail(queue) \in Seq(Message)
              /\ m.id = "RFC_DISCONNECT" /\ m = queue[1] /\ 1 \in 1..Len(queue)
  <1> DEFINE a == m.addr
             l == LinkOf(a)
             p == links[l].priority
             x == IF links[l].state = "complete" THEN DisconnectInd(m.status, p, a)
                  ELSE ConnectCfm(FALSE, p, a)
  <1>1. /\ queue \in Seq(Message) /\ queue # <<>> /\ Head(queue) = queue[1]
        /\ 1 \in 1..Len(queue) /\ Tail(queue) \in Seq(Message)
        /\ m.id = "RFC_DISCONNECT" /\ m = queue[1] /\ m \in Message
    <2>1. queue \in Seq(Message) /\ queue # <<>> /\ m.id = "RFC_DISCONNECT"
      BY DEF StreamInv, Typed, HandleRfcDisconnect, Receives, m
    <2> QED
      BY <2>1, HeadTailProperties, LenProperties, EmptySeq DEF m
  <1>2. a \in Phone /\ m.status \in Status
    BY <1>1 DEF Message, User
  <1>3. PhoneState(links, a) \in Opened
    <2>1. StreamOf(a, PhoneState(links, a), air[a], queue)
      BY <1>2 DEF StreamInv, Streams
    <2> QED
      BY <1>1, <2>1, StreamEndHeard DEF m
  <1>4. l \in 1..NumLinks /\ l # 0 /\ links[l].addr = a /\ links[l].state \in Opened
    <2>1. PhoneState(links, a) # "idle"
      BY <1>3 DEF Opened
    <2> QED
      BY <1>2, <1>3, <2>1, LinkIs DEF StreamInv
  <1>5. p \in 1..2
    <2>1. p \in 0..2 /\ p # 0
      BY <1>4 DEF StreamInv, LinksInv, LinksOf, LinkRecord, Opened
    <2> QED
      BY <2>1
  <1>6. /\ links' = Reset(links, l)
        /\ queue' = Tail(queue) \o <<x>>
    BY <1>4 DEF HandleRfcDisconnect, DoneAndSend, Failed
  <1>7. x \in Message
    <2>1. p \in 0..2 /\ FALSE \in BOOLEAN
      BY <1>5
    <2>2. m.status \in Status \cup {"no_slc"} /\ a \in Phone \cup {NULL}
      BY <1>2
    <2> HIDE DEF a, p, l
    <2>3. DisconnectInd(m.status, p, a) \in Message
      BY <2>1, <2>2, ConnectMessages
    <2>4. ConnectCfm(FALSE, p, a) \in Message
      BY <1>2, <2>1, ConnectMessages
    <2> QED
      BY <2>3, <2>4
  <1> HIDE DEF a, l, p, x
  <1>8. queue' = Append(Tail(queue), x)
    BY <1>1, <1>6, <1>7, Extended
  <1> QED
    BY <1>1, <1>2, <1>4, <1>5, <1>6, <1>7, <1>8 DEF a, l, p, x

\* The message sent last, and those before it.
LEMMA LastIs ==
    ASSUME NEW q \in Seq(Message), q # <<>>, NEW x \in Message
    PROVE  /\ Len(Append(Tail(q), x)) = Len(q) /\ Len(q) \in Nat /\ Len(q) >= 1
           /\ Append(Tail(q), x)[Len(q)] = x
           /\ \A k \in 1..(Len(q) - 1) : Append(Tail(q), x)[k] = q[k + 1]
  <1>1. /\ Tail(q) \in Seq(Message) /\ Len(q) \in Nat /\ Len(q) >= 1
        /\ Len(Tail(q)) = Len(q) - 1
        /\ \A k \in 1..(Len(q) - 1) : Tail(q)[k] = q[k + 1]
    BY HeadTailProperties, LenProperties, EmptySeq
  <1> DEFINE t == Tail(q)
  <1> HIDE DEF t
  <1>2. /\ Len(Append(t, x)) = Len(t) + 1 /\ Append(t, x)[Len(t) + 1] = x
        /\ \A k \in 1..Len(t) : Append(t, x)[k] = t[k]
    BY <1>1, AppendProperties DEF t
  <1> QED
    BY <1>1, <1>2 DEF t

LEMMA HistoryKept == Next => History
  BY DEF Next

\* What may be sent besides.
LEMMA SentQuietly ==
    ASSUME NEW s, SaysAll(s), ~HandleAtComplete, ~HandleRfcDisconnect
    PROVE  Silent(s)
  BY DEF SaysAll, Says, Silent, Quietly

\* Every step tells of connections so.
LEMMA ToldStep ==
    ASSUME StreamInv, ATInv, ToldInv, Next
    PROVE  ToldInv'
  <1> DEFINE Fine(x) == /\ Made(x) \/ Over(x) => x.priority \in 1..2
                        /\ x.id = "SLC_DISCONNECT_IND" /\ x.status = "error" => unheard'
  <1>1. unheard' = (unheard \/ NotTold)
    BY HistoryKept DEF History
  <1>2. \A k \in 1..Len(queue) : Fine(queue[k])
    BY <1>1 DEF ToldInv
  <1>3. CASE ~HandleAtComplete /\ ~HandleRfcDisconnect
    <2>1. PICK s, d : Silent(s) /\ Moved(queue, queue', s, d)
      BY <1>3, StepSays, SentQuietly
    <2>2. \A k \in 1..Len(queue') : \/ k + d \in 1..Len(queue) /\ queue'[k] = queue[k + d]
                                    \/ \E i \in 1..Len(s) : queue'[k] = s[i]
      BY <2>1, MovedIs
    <2>3. \A i \in 1..Len(s) : Fine(s[i])
      BY <2>1 DEF Silent, Quietly, Over
    <2> HIDE DEF Fine
    <2>4. \A k \in 1..Len(queue') : Fine(queue'[k])
      BY <1>2, <2>2, <2>3
    <2> QED
      BY <2>4 DEF Fine, ToldInv, Made, Over
  <1>4. ASSUME NEW x \in Message, Fine(x), queue \in Seq(Message), queue # <<>>,
               queue' = Append(Tail(queue), x)
        PROVE  ToldInv'
    <2>1. /\ Len(queue') = Len(queue) /\ Len(queue) \in Nat /\ Len(queue) >= 1
          /\ queue'[Len(queue)] = x
          /\ \A k \in 1..(Len(queue) - 1) : queue'[k] = queue[k + 1]
      BY <1>4, LastIs
    <2> HIDE DEF Fine
    <2>2. ASSUME NEW k \in 1..Len(queue') PROVE Fine(queue'[k])
      <3>1. CASE k = Len(queue)
        BY <1>4, <2>1, <3>1
      <3>2. CASE k # Len(queue)
        <4>1. k \in 1..(Len(queue) - 1) /\ k + 1 \in 1..Len(queue)
          BY <2>1, <3>2
        <4> QED
          BY <1>2, <2>1, <4>1
      <3> QED
        BY <3>1, <3>2
    <2> QED
      BY <2>2 DEF Fine, ToldInv, Made, Over
  <1>5. CASE HandleAtComplete
    <2>1. PICK l \in 1..NumLinks, p \in 1..2 :
              /\ ConnectCfm(TRUE, p, m.addr) \in Message
              /\ queue' = Append(Tail(queue), ConnectCfm(TRUE, p, m.addr))
              /\ queue \in Seq(Message) /\ queue # <<>>
      BY <1>5, AtIs
    <2>2. Fine(ConnectCfm(TRUE, p, m.addr))
      BY DEF ConnectCfm
    <2> HIDE DEF Fine
    <2> QED
      BY <1>4, <2>1, <2>2
  <1>6. CASE HandleRfcDisconnect
    <2>1. PICK l \in 1..NumLinks, p \in 1..2, x \in Message :
              /\ links[l].state \in Opened
              /\ links' = Reset(links, l)
              /\ x = IF links[l].state = "complete" THEN DisconnectInd(m.status, p, m.addr)
                     ELSE ConnectCfm(FALSE, p, m.addr)
              /\ queue' = Append(Tail(queue), x)
              /\ queue \in Seq(Message) /\ queue # <<>>
      BY <1>6, EndIs
    <2>2. Fine(x)
      <3>1. CASE links[l].state # "complete"
        BY <2>1, <3>1 DEF ConnectCfm, Made, Over
      <3>2. CASE links[l].state = "complete"
        <4>1. x.id = "SLC_DISCONNECT_IND" /\ x.priority = p /\ x.status = m.status
          BY <2>1, <3>2 DEF DisconnectInd
        <4>2. ASSUME m.status = "error" PROVE unheard'
          <5>1. LinksOf(NumLinks, links) /\ DOMAIN links = 1..NumLinks
            BY DEF StreamInv, LinksInv, LinksOf
          <5>2. links'[l].state = "idle"
            BY <2>1, <5>1, OneOrTwo, ResetKeeps
          <5>3. NotTold
            BY <3>2, <4>2, <5>1, <5>2 DEF NotTold
          <5> QED
            BY <1>1, <5>3
        <4> QED
          BY <4>1, <4>2 DEF Made
      <3> QED
        BY <3>1, <3>2
    <2> HIDE DEF Fine
    <2> QED
      BY <1>4, <2>1, <2>2
  <1> QED
    BY <1>3, <1>5, <1>6

\* The message that ends the AT exchange.
LEMMA AtMessage ==
    ASSUME NEW x \in Message, x.id = "AT_COMPLETE"
    PROVE  x = OfPhone("AT_COMPLETE", x.addr) /\ x.addr \in Phone
  <1>1. x \in [id : {"RFC_CONNECT_IND", "AT_COMPLETE"}, addr : Phone]
    BY DEF Message, User
  <1> QED
    BY <1>1 DEF OfPhone

\* The AT exchanges that go on while none begins to end.
LEMMA AtMoved ==
    ASSUME ATInv, NEW s, NEW d, Moved(queue, queue', s, d),
           \A i \in 1..Len(s) : s[i].id # "AT_COMPLETE",
           \A k \in 1..Len(queue) : d < k /\ queue[k].id = "AT_COMPLETE" =>
               PhoneState(links', queue[k].addr) = "connected"
    PROVE  ATInv'
  <1> DEFINE n == Len(queue) - d
  <1>1. /\ d \in {0, 1} /\ Len(queue) \in Nat /\ n \in Nat /\ Len(s) \in Nat
        /\ Len(queue') = n + Len(s)
    BY DEF Moved
  <1>2. \A k \in 1..Len(queue') :
           \/ k + d \in 1..Len(queue) /\ queue'[k] = queue[k + d]
           \/ \E i \in 1..Len(s) : queue'[k] = s[i] /\ k = n + i
    BY MovedIs
  <1> HIDE DEF n
  <1>3. ASSUME NEW j \in 1..Len(queue'), queue'[j].id = "AT_COMPLETE"
        PROVE  /\ PhoneState(links', queue'[j].addr) = "connected"
               /\ \A i \in 1..Len(queue') : queue'[i].addr = queue'[j].addr =>
                      /\ queue'[i].id = "RFC_DISCONNECT" => i > j
                      /\ queue'[i].id = "AT_COMPLETE" => i = j
    <2>1. j + d \in 1..Len(queue) /\ queue'[j] = queue[j + d]
      BY <1>2, <1>3
    <2>2. PhoneState(links', queue'[j].addr) = "connected"
      BY <1>1, <1>3, <2>1
    <2>3. ASSUME NEW i \in 1..Len(queue'), queue'[i].addr = queue'[j].addr
          PROVE  /\ queue'[i].id = "RFC_DISCONNECT" => i > j
                 /\ queue'[i].id = "AT_COMPLETE" => i = j
      <3>1. CASE i + d \in 1..Len(queue) /\ queue'[i] = queue[i + d]
        <4>1. /\ queue[i + d].id = "RFC_DISCONNECT" => i + d > j + d
              /\ queue[i + d].id = "AT_COMPLETE" => i + d = j + d
          BY <1>3, <2>1, <2>3, <3>1 DEF ATInv
        <4> QED
          BY <1>1, <3>1, <4>1
      <3>2. CASE \E e \in 1..Len(s) : queue'[i] = s[e] /\ i = n + e
        <4>1. queue'[i].id # "AT_COMPLETE" /\ i > n
          BY <1>1, <3>2
        <4>2. j <= n
          BY <1>1, <2>1 DEF n
        <4> QED
          BY <1>1, <4>1, <4>2
      <3> QED
        BY <1>2, <3>1, <3>2
    <2> QED
      BY <2>2, <2>3
  <1> QED
    BY <1>3 DEF ATInv

\* Every step keeps the AT exchanges so.
LEMMA ATStep ==
    ASSUME StreamInv, LinksInv', ATInv, Next
    PROVE  ATInv'
  <1>1. /\ LinksOf(NumLinks, links) /\ NumLinks \in {1, 2} /\ NumLinks' = NumLinks
        /\ LinksOf(NumLinks, links') /\ queue \in Seq(Message)
    <2>1. conf' = conf
      BY ConfKept DEF StreamInv
    <2>2. NumLinks' = NumLinks
      BY <2>1 DEF NumLinks
    <2> QED
      BY <2>2, OneOrTwo DEF StreamInv, LinksInv, Typed
  <1>2. \A k \in 1..Len(queue) : queue[k].id = "AT_COMPLETE" =>
           /\ queue[k] \in Message /\ queue[k] = OfPhone("AT_COMPLETE", queue[k].addr)
           /\ queue[k].addr \in Phone
    <2> TAKE k \in 1..Len(queue)
    <2>1. queue[k] \in Message
      BY <1>1
    <2> QED
      BY <2>1, AtMessage
  <1>3. CASE \E a \in Phone : PhoneCompletesAt(a)
    <2>1. PICK a \in Phone : PhoneCompletesAt(a)
      BY <1>3
    <2> DEFINE x == OfPhone("AT_COMPLETE", a)
               l == LinkOf(a)
    <2>2. /\ queue' = Append(queue, x) /\ links' = links
          /\ air[a] = "up" /\ l # 0 /\ links[l].state = "connected"
          /\ \A k \in 1..Len(queue) : queue[k] # x
      BY <2>1 DEF PhoneCompletesAt, lib, Contains
    <2>3. x \in Message /\ x.id = "AT_COMPLETE" /\ x.addr = a
      BY OtherMessages
    <2>4. l \in 1..NumLinks /\ links[l].addr = a
      BY <1>1, <2>2, LinkOfPhone
    <2>5. PhoneState(links, a) = "connected"
      BY <1>1, <2>2, <2>4, PhoneStateIs
    <2>6. \A k \in 1..Len(queue) : queue[k].id = "RFC_DISCONNECT" => queue[k].addr # a
      BY <2>2, <2>4, OpenAir DEF Opened
    <2>7. \A k \in 1..Len(queue) : queue[k].id = "AT_COMPLETE" => queue[k].addr # a
      BY <1>2, <2>2
    <2> DEFINE n == Len(queue)
    <2> HIDE DEF x, l
    <2>8. /\ n \in Nat /\ Len(queue') = n + 1 /\ queue'[n + 1] = x
          /\ \A k \in 1..n : queue'[k] = queue[k]
      BY <1>1, <2>2, <2>3, AppendProperties, LenProperties
    <2> HIDE DEF n
    <2>9. \A k \in 1..Len(queue') : k \in 1..n \/ k = n + 1
      BY <2>8
    <2>10. ASSUME NEW j \in 1..Len(queue'), queue'[j].id = "AT_COMPLETE"
           PROVE  /\ PhoneState(links', queue'[j].addr) = "connected"
                  /\ \A i \in 1..Len(queue') : queue'[i].addr = queue'[j].addr =>
                         /\ queue'[i].id = "RFC_DISCONNECT" => i > j
                         /\ queue'[i].id = "AT_COMPLETE" => i = j
      <3>1. CASE j \in 1..n
        <4>1. queue'[j] = queue[j] /\ queue[j].addr # a
          BY <2>7, <2>8, <2>10, <3>1 DEF n
        <4>2. /\ PhoneState(links, queue[j].addr) = "connected"
              /\ \A i \in 1..n : queue[i].addr = queue[j].addr =>
                     /\ queue[i].id = "RFC_DISCONNECT" => i > j
                     /\ queue[i].id = "AT_COMPLETE" => i = j
          BY <2>10, <3>1, <4>1 DEF ATInv, n
        <4> QED
          BY <2>2, <2>3, <2>8, <2>9, <4>1, <4>2
      <3>2. CASE j = n + 1
        <4>1. queue'[j].addr = a
          BY <2>3, <2>8, <3>2
        <4>2. ASSUME NEW i \in 1..n
              PROVE  queue'[i].addr = a => queue'[i].id \notin {"RFC_DISCONNECT", "AT_COMPLETE"}
          BY <2>6, <2>7, <2>8 DEF n
        <4>3. queue'[n + 1].id = "AT_COMPLETE"
          BY <2>3, <2>8
        <4> QED
          BY <2>2, <2>5, <2>9, <3>2, <4>1, <4>2, <4>3
      <3> QED
        BY <2>9, <3>1, <3>2
    <2> QED
      BY <2>10 DEF ATInv
  <1>4. ASSUME NEW a \in Phone, PhoneState(links, a) = "connected"
        PROVE  /\ LinkOf(a) \in 1..NumLinks /\ links[LinkOf(a)].state = "connected"
               /\ links[LinkOf(a)].addr = a
    BY <1>4, LinkIs DEF StreamInv
  <1>5. CASE ~HandleAtComplete /\ ~HandleRfcDisconnect /\ ~\E a \in Phone : PhoneCompletesAt(a)
    <2>1. PICK s, d : SaysAll(s) /\ Moved(queue, queue', s, d)
      BY StepSays
    <2>2. ASSUME NEW i \in 1..Len(s) PROVE s[i].id # "AT_COMPLETE"
      <3>1. s[i] \in Message /\ Says(s[i])
        BY <2>1 DEF SaysAll
      <3> QED
        BY <1>5, <3>1, AtMessage DEF Says
    <2>3. Kept(NumLinks, links, links')
      BY <1>5, LinksStay
    <2>4. ASSUME NEW k \in 1..Len(queue), queue[k].id = "AT_COMPLETE"
          PROVE  PhoneState(links', queue[k].addr) = "connected"
      <3> DEFINE a == queue[k].addr
                 l == LinkOf(a)
      <3>1. a \in Phone /\ PhoneState(links, a) = "connected"
        BY <1>2, <2>4 DEF ATInv
      <3>2. l \in 1..NumLinks /\ links[l].state = "connected" /\ links[l].addr = a
        BY <1>4, <3>1
      <3> HIDE DEF a, l
      <3>3. links'[l].state = "connected" /\ links'[l].addr = a
        BY <2>3, <3>2 DEF Kept, Opened
      <3>4. PhoneState(links', a) = "connected"
        BY <1>1, <3>1, <3>2, <3>3, PhoneStateIs
      <3> QED
        BY <3>4 DEF a
    <2> QED
      BY <2>1, <2>2, <2>4, AtMoved
  <1>6. ASSUME NEW x \in Message, x.id # "AT_COMPLETE", queue # <<>>,
               queue' = Append(Tail(queue), x),
               \A k \in 1..Len(queue) : 1 < k /\ queue[k].id = "AT_COMPLETE" =>
                   PhoneState(links', queue[k].addr) = "connected"
        PROVE  ATInv'
    <2>1. queue' = Tail(queue) \o <<x>> /\ <<x>> \in Seq(Message)
      BY <1>1, <1>6, Extended
    <2>2. Moved(queue, queue', <<x>>, 1)
      BY <1>1, <1>6, <2>1, MovedOn
    <2>3. \A i \in 1..Len(<<x>>) : <<x>>[i].id # "AT_COMPLETE"
      BY <1>6
    <2> QED
      BY <1>6, <2>2, <2>3, AtMoved
  <1>7. CASE HandleAtComplete
    <2>1. PICK l \in 1..NumLinks, p \in 1..2 :
              /\ m.addr \in Phone
              /\ links[l].state = "connected" /\ links[l].addr = m.addr
              /\ links' = [links EXCEPT ![l].state = "complete"]
              /\ ConnectCfm(TRUE, p, m.addr) \in Message
              /\ queue' = Append(Tail(queue), ConnectCfm(TRUE, p, m.addr))
              /\ queue # <<>>
              /\ m.id = "AT_COMPLETE" /\ m = queue[1] /\ 1 \in 1..Len(queue)
      BY <1>7, AtIs
    <2>2. ASSUME NEW k \in 1..Len(queue), 1 < k, queue[k].id = "AT_COMPLETE"
          PROVE  PhoneState(links', queue[k].addr) = "connected"
      <3> DEFINE a == queue[k].addr
      <3>1. a \in Phone /\ PhoneState(links, a) = "connected" /\ a # m.addr
        <4>1. queue[1].addr = a => k = 1
          BY <2>1, <2>2 DEF ATInv
        <4> QED
          BY <1>2, <2>1, <2>2, <4>1 DEF ATInv
      <3>2. \A i \in 1..NumLinks : /\ links'[i].addr = links[i].addr
                                   /\ links'[i].state = IF i = l THEN "complete" ELSE links[i].state
        BY <1>1, <2>1 DEF LinksOf, LinkRecord
      <3> HIDE DEF a
      <3>3. PhoneState(links', a) = IF a = links[l].addr THEN "complete" ELSE PhoneState(links, a)
        <4>1. "complete" \in State /\ links[l].state # "idle"
          BY <2>1 DEF State
        <4> QED
          BY <1>1, <3>1, <3>2, <4>1, StateMoves
      <3>4. PhoneState(links', a) = "connected"
        BY <2>1, <3>1, <3>3
      <3> QED
        BY <3>4 DEF a
    <2>3. ConnectCfm(TRUE, p, m.addr).id # "AT_COMPLETE"
      BY DEF ConnectCfm
    <2> QED
      BY <1>6, <2>1, <2>2, <2>3
  <1>8. CASE HandleRfcDisconnect
    <2>1. PICK l \in 1..NumLinks, p \in 1..2, x \in Message :
              /\ m.addr \in Phone
              /\ links[l].addr = m.addr
              /\ links' = Reset(links, l)
              /\ x = IF links[l].state = "complete" THEN DisconnectInd(m.status, p, m.addr)
                     ELSE ConnectCfm(FALSE, p, m.addr)
              /\ queue' = Append(Tail(queue), x)
              /\ queue # <<>>
              /\ m.id = "RFC_DISCONNECT" /\ m = queue[1] /\ 1 \in 1..Len(queue)
      BY <1>8, EndIs
    <2>2. ASSUME NEW k \in 1..Len(queue), 1 < k, queue[k].id = "AT_COMPLETE"
          PROVE  PhoneState(links', queue[k].addr) = "connected"
      <3> DEFINE a == queue[k].addr
      <3>1. a \in Phone /\ PhoneState(links, a) = "connected" /\ a # m.addr
        <4>1. queue[1].addr = a => 1 > k
          BY <2>1, <2>2 DEF ATInv
        <4>2. ~(1 > k)
          OBVIOUS
        <4> QED
          BY <1>2, <2>1, <2>2, <4>1, <4>2 DEF ATInv
      <3> HIDE DEF a
      <3>2. PhoneState(links', a) = IF a = links[l].addr THEN "idle" ELSE PhoneState(links, a)
        BY <1>1, <2>1, <3>1, StateReset
      <3>3. PhoneState(links', a) = "connected"
        BY <2>1, <3>1, <3>2
      <3> QED
        BY <3>3 DEF a
    <2>3. x.id # "AT_COMPLETE"
      BY <2>1 DEF ConnectCfm, DisconnectInd
    <2> QED
      BY <1>6, <2>1, <2>2, <2>3
  <1> QED
    BY <1>3, <1>5, <1>7, <1>8

-----------------------------------------------------------------------------
\* Only the end of its stream closes a link.
LEMMA OpenStays ==
    ASSUME StreamInv, ATInv, Next, NEW l \in 1..NumLinks, links[l].state \in Opened
    PROVE  \/ links'[l].state \in Opened /\ links'[l].addr = links[l].addr
              /\ ~(HandleRfcDisconnect /\ m.addr = links[l].addr)
           \/ /\ HandleRfcDisconnect /\ m.addr = links[l].addr
              /\ links'[l] = IdleLink
              /\ \E k \in 1..Len(queue) : queue[k].id = "RFC_DISCONNECT"
                                          /\ queue[k].addr = links[l].addr
  <1>1. LinksOf(NumLinks, links) /\ NumLinks \in {1, 2}
    BY OneOrTwo DEF StreamInv, LinksInv
  <1>2. CASE ~HandleAtComplete /\ ~HandleRfcDisconnect
    <2>1. Kept(NumLinks, links, links')
      BY <1>2, LinksStay
    <2> QED
      BY <1>2, <2>1 DEF Kept
  <1>3. CASE HandleAtComplete /\ ~HandleRfcDisconnect
    <2>1. PICK k \in 1..NumLinks : links' = [links EXCEPT ![k].state = "complete"]
      BY <1>3, AtIs
    <2>2. links'[l].addr = links[l].addr /\ links'[l].state \in {links[l].state, "complete"}
      BY <1>1, <2>1 DEF LinksOf, LinkRecord
    <2> QED
      BY <1>3, <2>2 DEF Opened
  <1>4. CASE HandleRfcDisconnect
    <2>1. PICK k \in 1..NumLinks : /\ links[k].state \in Opened /\ links[k].addr = m.addr
                                   /\ links' = Reset(links, k)
                                   /\ m.id = "RFC_DISCONNECT" /\ m = queue[1]
                                   /\ 1 \in 1..Len(queue)
      BY <1>4, EndIs
    <2>2. CASE k = l
      <3>1. links'[l] = IdleLink
        BY <1>1, <2>1, <2>2, ResetIs
      <3> QED
        BY <1>4, <2>1, <2>2, <3>1
    <2>3. CASE k # l
      <3>1. links'[l].state = links[l].state /\ links'[l].addr = links[l].addr
        BY <1>1, <2>1, <2>3, ResetIs
      <3>2. links[l].addr # links[k].addr
        <4>1. links[l].state # "idle"
          BY DEF Opened
        <4> QED
          BY <1>1, <2>3, <4>1 DEF LinksOf
      <3> QED
        BY <2>1, <3>1, <3>2
    <2> QED
      BY <2>2, <2>3
  <1> QED
    BY <1>2, <1>3, <1>4

\* Only the end of the AT exchange makes a link complete.
LEMMA CompleteFrom ==
    ASSUME StreamInv, ATInv, Next, NEW l \in 1..NumLinks, links'[l].state = "complete"
    PROVE  \/ links[l].state = "complete"
           \/ /\ HandleAtComplete /\ links[l].addr = m.addr /\ links[l].state = "connected"
              /\ \A k \in 1..NumLinks : k # l => links'[k] = links[k]
  <1>1. LinksOf(NumLinks, links) /\ NumLinks \in {1, 2}
    BY OneOrTwo DEF StreamInv, LinksInv
  <1>2. CASE ~HandleAtComplete /\ ~HandleRfcDisconnect
    <2>1. Kept(NumLinks, links, links')
      BY <1>2, LinksStay
    <2> QED
      BY <2>1 DEF Kept
  <1>3. CASE HandleAtComplete
    <2>1. PICK k \in 1..NumLinks : /\ links' = [links EXCEPT ![k].state = "complete"]
                                   /\ links[k].addr = m.addr /\ links[k].state = "connected"
      BY <1>3, AtIs
    <2>2. \A i \in 1..NumLinks : i # k => links'[i] = links[i]
      BY <1>1, <2>1 DEF LinksOf
    <2> QED
      BY <1>3, <2>1, <2>2
  <1>4. CASE HandleRfcDisconnect
    <2>1. PICK k \in 1..NumLinks : links' = Reset(links, k)
      BY <1>4, EndIs
    <2>2. links'[k].state = "idle" /\ \A i \in 1..NumLinks : i # k => links'[i].state = links[i].state
      BY <1>1, <2>1, ResetIs DEF IdleLink
    <2> QED
      BY <2>2
  <1> QED
    BY <1>2, <1>3, <1>4

\* The end of a connection that lasts stays certain.
LEMMA DoomStays ==
    ASSUME StreamInv, ATInv, Next, NEW l \in 1..NumLinks, links[l].state \in Opened,
           Doomed(l), links'[l].state \in Opened
    PROVE  Doomed(l)'
  <1>1. links'[l] # IdleLink
    BY DEF IdleLink, Opened
  <1>2. /\ links'[l].addr = links[l].addr
        /\ ~(HandleRfcDisconnect /\ m.addr = links[l].addr)
    BY <1>1, OpenStays
  <1> QED
    BY <1>2, DoomKept

\* What has been asked to disconnect is all there is; the AT exchanges that end before
\* that do so on a link that is to be disconnected as well; and the answer that there
\* is nothing to disconnect is heard before a connection still to be told.
DoomInv ==
    /\ (\E k \in 1..Len(queue) : queue[k].id = "DISCONNECT_REQ") => Alive = {}
    /\ \A i, j \in 1..Len(queue) :
          j < i /\ queue[j].id = "AT_COMPLETE" /\ queue[i].id = "DISCONNECT_REQ"
          => \A l \in 1..NumLinks : links[l].addr = queue[j].addr => Doomed(l)
    /\ Alive # {} =>
          \A i \in 1..Len(queue) :
             queue[i].id = "SLC_DISCONNECT_IND" /\ queue[i].status = "no_slc"
             => \E j \in 1..Len(queue) : j > i /\ Made(queue[j])

\* A connection that lasts has lasted, or has just been made.
LEMMA AliveFrom ==
    ASSUME StreamInv, LinksInv', ATInv, Next, NEW l \in Alive'
    PROVE  /\ l \in 1..NumLinks /\ links'[l].state = "complete"
           /\ l \in Alive \/ /\ HandleAtComplete /\ links[l].addr = m.addr
                             /\ links[l].state = "connected" /\ ~Doomed(l)
  <1>1. conf' = conf /\ NumLinks' = NumLinks
    BY ConfKept DEF StreamInv, NumLinks
  <1>2. l \in 1..NumLinks /\ links'[l].state = "complete" /\ ~Doomed(l)'
    BY <1>1 DEF Alive, Complete, LinksInv, LinksOf
  <1>3. links[l].state = "complete" \/ /\ HandleAtComplete /\ links[l].addr = m.addr
                                       /\ links[l].state = "connected"
    BY <1>2, CompleteFrom
  <1>4. ~Doomed(l)
    <2>1. links[l].state \in Opened /\ links'[l].state \in Opened
      BY <1>2, <1>3 DEF Opened
    <2> QED
      BY <1>2, <2>1, DoomStays
  <1>5. links[l].state = "complete" => l \in Alive
    BY <1>2, <1>4 DEF Alive, Complete, StreamInv, LinksInv, LinksOf
  <1> QED
    BY <1>2, <1>3, <1>4, <1>5

\* What has been asked to disconnect does not last.
LEMMA AskedGone == ASSUME LinksInv', Asked' PROVE Alive' = {}
  <1>1. DOMAIN links' = 1..NumLinks'
    BY DEF LinksInv, LinksOf
  <1>2. ASSUME NEW l \in Alive' PROVE FALSE
    <2>1. l \in 1..NumLinks' /\ links'[l].state = "complete" /\ ~Doomed(l)'
      BY <1>1, <1>2 DEF Alive, Complete
    <2>2. \E k \in 1..Len(queue') : queue'[k] = DisconnectReq(l)
      BY <2>1 DEF Asked, Opened, DisconnectReq
    <2> QED
      BY <2>1, <2>2 DEF Doomed, DisconnectReq
  <1> QED
    BY <1>2

\* Every step keeps what is to end so.
LEMMA DoomStep ==
    ASSUME StreamInv, LinksInv', ATInv, ATInv', DoomInv, Next
    PROVE  DoomInv'
  <1>1. PICK s, d :
           /\ SaysAll(s) /\ Moved(queue, queue', s, d)
           /\ d \in {0, 1} /\ (d = 1 => Hears /\ Head(queue) = queue[1])
    BY StepSays
  <1>2. /\ \A k \in 1..Len(queue') : \/ k + d \in 1..Len(queue) /\ queue'[k] = queue[k + d]
                                     \/ \E i \in 1..Len(s) : queue'[k] = s[i] /\ k = Len(queue) - d + i
        /\ \A k \in 1..Len(queue) : d < k => k - d \in 1..Len(queue') /\ queue'[k - d] = queue[k]
    <2>1. Moved(queue, queue', s, d)
      BY <1>1
    <2>2. \A k \in 1..Len(queue') : \/ k + d \in 1..Len(queue) /\ queue'[k] = queue[k + d]
                                    \/ \E i \in 1..Len(s) : queue'[k] = s[i] /\ k = Len(queue) - d + i
      BY <2>1, MovedIs
    <2>3. \A k \in 1..Len(queue) : d < k => k - d \in 1..Len(queue') /\ queue'[k - d] = queue[k]
      BY <2>1, MovedIs
    <2> QED
      BY <2>2, <2>3
  <1>3. /\ queue \in Seq(Message) /\ Len(queue) \in Nat /\ Len(queue') \in Nat
        /\ LinksInv /\ LinksOf(NumLinks, links) /\ NumLinks \in {1, 2}
        /\ NumLinks' = NumLinks /\ LinksOf(NumLinks, links')
    <2>1. conf' = conf
      BY ConfKept DEF StreamInv
    <2>2. NumLinks' = NumLinks
      BY <2>1 DEF NumLinks
    <2> QED
      BY <1>1, <2>2, OneOrTwo DEF StreamInv, LinksInv, Typed, Moved
  <1>4. Asked' => Alive' = {}
    BY AskedGone
  <1>5. ASSUME NEW k \in 1..Len(queue'), queue'[k].id = "DISCONNECT_REQ"
        PROVE  Asked' \/ (k + d \in 1..Len(queue) /\ queue'[k] = queue[k + d])
    <2>1. CASE \E i \in 1..Len(s) : queue'[k] = s[i]
      BY <1>1, <1>5, <2>1 DEF SaysAll, Says
    <2> QED
      BY <1>2, <2>1
  <1>6. ASSUME NEW k \in 1..Len(queue'), queue'[k].id = "DISCONNECT_REQ"
        PROVE  Alive' = {}
    <2> SUFFICES ASSUME ~Asked', NEW l \in Alive' PROVE FALSE
      BY <1>4
    <2>1. k + d \in 1..Len(queue) /\ queue[k + d].id = "DISCONNECT_REQ"
      BY <1>5, <1>6
    <2>2. l \notin Alive
      BY <2>1 DEF DoomInv
    <2>3. HandleAtComplete /\ links[l].addr = m.addr /\ ~Doomed(l) /\ l \in 1..NumLinks
      BY <2>2, AliveFrom, <1>3
    <2>4. m = queue[1] /\ m.id = "AT_COMPLETE" /\ 1 \in 1..Len(queue)
      BY <2>3, AtIs
    <2>5. 1 < k + d
      <3>1. k + d # 1
        BY <2>1, <2>4
      <3> QED
        BY <1>3, <2>1, <3>1
    <2>6. \A o \in 1..NumLinks : links[o].addr = queue[1].addr => Doomed(o)
      BY <2>1, <2>4, <2>5 DEF DoomInv
    <2> QED
      BY <2>3, <2>4, <2>6
  <1>7. ASSUME NEW i \in 1..Len(queue'), NEW j \in 1..Len(queue'), j < i,
               queue'[j].id = "AT_COMPLETE", queue'[i].id = "DISCONNECT_REQ",
               NEW l \in 1..NumLinks, links'[l].addr = queue'[j].addr
        PROVE  Doomed(l)'
    <2> DEFINE a == queue'[j].addr
    <2>1. a \in Phone /\ PhoneState(links', a) = "connected"
      <3>1. queue'[j] \in Message
        <4>1. CASE j + d \in 1..Len(queue) /\ queue'[j] = queue[j + d]
          BY <1>3, <4>1
        <4>2. CASE \E e \in 1..Len(s) : queue'[j] = s[e]
          BY <1>1, <4>2 DEF SaysAll
        <4> QED
          BY <1>2, <4>1, <4>2
      <3> QED
        BY <1>7, <3>1, AtMessage DEF ATInv
    <2>2. links'[l].state = "connected"
      BY <1>3, <1>7, <2>1, PhoneStateIs
    <2>3. CASE Asked'
      <3>1. \E k \in 1..Len(queue') : queue'[k] = DisconnectReq(l)
        BY <1>3, <2>2, <2>3 DEF Asked, Opened, DisconnectReq
      <3> QED
        BY <3>1 DEF Doomed, DisconnectReq
    <2>4. CASE ~Asked'
      <3>1. i + d \in 1..Len(queue) /\ queue'[i] = queue[i + d]
        BY <1>5, <1>7, <2>4
      <3>2. j + d \in 1..Len(queue) /\ queue'[j] = queue[j + d] /\ j + d < i + d
        <4>1. ~\E e \in 1..Len(s) : queue'[j] = s[e] /\ j = Len(queue) - d + e
          BY <1>1, <1>3, <1>7, <3>1
        <4> QED
          BY <1>1, <1>2, <1>7, <4>1
      <3>4. PhoneState(links, a) = "connected"
        BY <1>7, <3>2 DEF ATInv
      <3>5. PICK o \in 1..NumLinks : links[o].state = "connected" /\ links[o].addr = a
        BY <1>3, <2>1, <3>4, LinkIs
      <3>3. Doomed(o)
        BY <1>7, <3>1, <3>2, <3>5 DEF DoomInv
      <3>6. ~(HandleRfcDisconnect /\ m.addr = a)
        <4> SUFFICES ASSUME HandleRfcDisconnect, m.addr = a PROVE FALSE
          OBVIOUS
        <4>1. m.id = "RFC_DISCONNECT" /\ m = queue[1] /\ 1 \in 1..Len(queue)
          BY EndIs
        <4>2. queue[1].id = "RFC_DISCONNECT" /\ queue[1].addr = queue[j + d].addr
          BY <3>2, <4>1
        <4>3. 1 > j + d
          BY <1>7, <3>2, <4>1, <4>2 DEF ATInv
        <4> QED
          BY <1>1, <3>2, <4>3
      <3>7. links'[o].state \in Opened /\ links'[o].addr = a
        BY <3>5, <3>6, OpenStays DEF Opened
      <3>8. Doomed(o)'
        BY <3>3, <3>5, <3>7, DoomStays DEF Opened
      <3>9. o = l
        BY <1>3, <1>7, <2>2, <3>7 DEF LinksOf
      <3> QED
        BY <3>8, <3>9
    <2> QED
      BY <2>3, <2>4
  <1>8. ASSUME NEW l \in Alive', NEW i \in 1..Len(queue'),
               queue'[i].id = "SLC_DISCONNECT_IND", queue'[i].status = "no_slc"
        PROVE  \E j \in 1..Len(queue') : j > i /\ Made(queue'[j])
    <2>1. CASE l \in Alive
      <3>1. CASE i + d \in 1..Len(queue) /\ queue'[i] = queue[i + d]
        <4>1. PICK j \in 1..Len(queue) : j > i + d /\ Made(queue[j])
          BY <1>8, <2>1, <3>1 DEF DoomInv
        <4>2. d < j /\ j - d > i
          BY <1>1, <4>1
        <4> QED
          BY <1>2, <4>1, <4>2
      <3>2. CASE \E e \in 1..Len(s) : queue'[i] = s[e]
        <4>1. Says(queue'[i])
          BY <1>1, <3>2 DEF SaysAll
        <4>2. HandleRfcDisconnect \/ HandleDisconnectReq
          BY <1>8, <4>1 DEF Says
        <4>3. CASE HandleRfcDisconnect
          <5>1. PICK l0 \in 1..NumLinks, p \in 1..2, x \in Message :
                   /\ m.status \in Status
                   /\ x = IF links[l0].state = "complete" THEN DisconnectInd(m.status, p, m.addr)
                          ELSE ConnectCfm(FALSE, p, m.addr)
                   /\ queue' = Append(Tail(queue), x) /\ queue # <<>>
            BY <4>3, EndIs
          <5>2. queue'[i] = x \/ \E k \in 1..Len(queue) : k > 1 /\ i = k - 1 /\ queue'[i] = queue[k]
            <6>1. /\ Len(queue') = Len(queue) /\ Len(queue) \in Nat /\ Len(queue) >= 1
                  /\ queue'[Len(queue)] = x
                  /\ \A k \in 1..(Len(queue) - 1) : queue'[k] = queue[k + 1]
              BY <1>3, <5>1, LastIs
            <6>2. i = Len(queue) \/ (i \in 1..(Len(queue) - 1) /\ i + 1 \in 1..Len(queue))
              BY <6>1
            <6> QED
              BY <6>1, <6>2
          <5>3. CASE queue'[i] = x
            BY <1>8, <5>1, <5>3 DEF DisconnectInd, ConnectCfm, Status
          <5>4. CASE \E k \in 1..Len(queue) : k > 1 /\ i = k - 1 /\ queue'[i] = queue[k]
            <6>1. PICK k \in 1..Len(queue) : k > 1 /\ i = k - 1 /\ queue'[i] = queue[k]
              BY <5>4
            <6>2. PICK j \in 1..Len(queue) : j > k /\ Made(queue[j])
              BY <1>8, <2>1, <6>1 DEF DoomInv
            <6>3. d < j /\ j - d > i
              BY <1>1, <6>1, <6>2
            <6> QED
              BY <1>2, <6>2, <6>3
          <5> QED
            BY <5>2, <5>3, <5>4
        <4>4. CASE HandleDisconnectReq
          <5>1. queue # <<>> /\ Head(queue).id = "DISCONNECT_REQ"
            BY <4>4 DEF HandleDisconnectReq, Receives
          <5>2. Head(queue) = queue[1] /\ 1 \in 1..Len(queue)
            BY <1>3, <5>1, HeadTailProperties, LenProperties, EmptySeq
          <5> QED
            BY <2>1, <5>1, <5>2 DEF DoomInv
        <4> QED
          BY <4>2, <4>3, <4>4
      <3> QED
        BY <1>2, <3>1, <3>2
    <2>2. CASE l \notin Alive
      <3>1. HandleAtComplete
        BY <1>3, <1>8, <2>2, AliveFrom
      <3>2. PICK p \in 1..2 : /\ ConnectCfm(TRUE, p, m.addr) \in Message
                              /\ queue' = Append(Tail(queue), ConnectCfm(TRUE, p, m.addr))
                              /\ queue # <<>>
        BY <3>1, AtIs
      <3> DEFINE x == ConnectCfm(TRUE, p, m.addr)
      <3>3. Made(x) /\ x.id # "SLC_DISCONNECT_IND"
        BY DEF ConnectCfm, Made
      <3> HIDE DEF x
      <3>4. /\ Len(queue') = Len(queue) /\ Len(queue) \in Nat /\ Len(queue) >= 1
            /\ queue'[Len(queue)] = x
        BY <1>3, <3>2, LastIs DEF x
      <3>5. i # Len(queue)
        BY <1>8, <3>3, <3>4
      <3>6. Len(queue) > i /\ Len(queue) \in 1..Len(queue')
        BY <3>4, <3>5
      <3> QED
        BY <3>3, <3>4, <3>6
    <2> QED
      BY <2>1, <2>2
  <1>9. (Alive # {})' => \A i \in 1..Len(queue') :
             queue'[i].id = "SLC_DISCONNECT_IND" /\ queue'[i].status = "no_slc"
             => \E j \in 1..Len(queue') : j > i /\ Made(queue'[j])
    BY <1>8
  <1>10. (\E k \in 1..Len(queue') : queue'[k].id = "DISCONNECT_REQ") => Alive' = {}
    BY <1>6
  <1>11. \A i, j \in 1..Len(queue') :
            j < i /\ queue'[j].id = "AT_COMPLETE" /\ queue'[i].id = "DISCONNECT_REQ"
            => \A l \in 1..NumLinks' : links'[l].addr = queue'[j].addr => Doomed(l)'
    BY <1>3, <1>7
  <1> QED
    BY <1>9, <1>10, <1>11 DEF DoomInv, Made

-----------------------------------------------------------------------------
\* The slots the application is to list, and those it is to have in the end.
CompleteSlots == {links[l].priority : l \in Complete}
AliveSlots == {links[l].priority : l \in Alive}

\* A link that stays complete keeps its priority unless an attempt had the first.
LEMMA Unmoved ==
    ASSUME NEW n \in {1, 2}, NEW ls, NEW rs, LinksOf(n, ls), LinksOf(n, rs),
           \A l \in 1..n : ls[l].state = "complete" => rs[l].state = "complete",
           \A l \in 1..n : ls[l].state = "complete" =>
               \/ rs[l].priority = ls[l].priority
               \/ ls[l].priority = 2 /\ rs[l].priority = 1,
           ~\E l, k \in 1..n :
               /\ ls[l].state = "complete" /\ ls[l].priority = 2 /\ rs[l].priority = 1
               /\ ls[k].state # "complete" /\ ls[k].priority = 1
    PROVE  \A l \in 1..n : ls[l].state = "complete" => rs[l].priority = ls[l].priority
  <1> SUFFICES ASSUME NEW l \in 1..n, ls[l].state = "complete",
                      ls[l].priority = 2, rs[l].priority = 1
               PROVE  FALSE
    OBVIOUS
  <1>1. PICK k \in 1..n : ls[k].priority = 1
    BY DEF LinksOf
  <1>2. ls[k].state = "complete" /\ k # l
    BY <1>1
  <1>3. rs[k].priority = 1 /\ rs[l].state # "idle"
    BY <1>1, <1>2
  <1>4. rs[l].priority # rs[k].priority
    BY <1>2, <1>3 DEF LinksOf
  <1> QED
    BY <1>3, <1>4

\* What the application is told of changes nothing else.
LEMMA SlotsStay ==
    ASSUME StreamInv, LinksInv', ATInv, Next, ~NotTold, ~HandleAtComplete,
           HandleRfcDisconnect => \A l \in 1..NumLinks :
               links[l].addr = m.addr => links[l].state # "complete"
    PROVE  CompleteSlots' = CompleteSlots /\ AliveSlots' \subseteq AliveSlots
  <1> DEFINE n == NumLinks
  <1>1. /\ n \in {1, 2} /\ LinksOf(n, links) /\ LinksOf(n, links')
        /\ DOMAIN links = 1..n /\ DOMAIN links' = 1..n
    <2>1. conf' = conf
      BY ConfKept DEF StreamInv
    <2>2. NumLinks' = NumLinks
      BY <2>1 DEF NumLinks
    <2> QED
      BY <2>2, OneOrTwo DEF StreamInv, LinksInv, LinksOf
  <1>2. \A l \in 1..n : links'[l].state = "complete" => links[l].state = "complete"
    BY CompleteFrom
  <1>3. \A l \in 1..n : links[l].state = "complete" =>
           /\ links'[l].state = "complete"
           /\ \/ links'[l].priority = links[l].priority
              \/ links[l].priority = 2 /\ links'[l].priority = 1
    <2>1. CASE ~HandleRfcDisconnect
      <3>1. Kept(n, links, links')
        BY <2>1, LinksStay
      <3> QED
        BY <3>1 DEF Kept, Opened
    <2>2. CASE HandleRfcDisconnect
      <3>1. PICK k \in 1..n : links[k].addr = m.addr /\ links' = Reset(links, k)
        BY <2>2, EndIs
      <3>2. links[k].state # "complete"
        BY <2>2, <3>1
      <3>3. \A l \in 1..n : l # k =>
               /\ links'[l].state = links[l].state
               /\ links'[l].priority = IF links[l].priority = 2 THEN 1 ELSE links[l].priority
        BY <1>1, <3>1, ResetIs
      <3> QED
        BY <3>2, <3>3
    <2> QED
      BY <2>1, <2>2
  <1>4. ~\E l, k \in 1..n :
            /\ links[l].state = "complete" /\ links[l].priority = 2 /\ links'[l].priority = 1
            /\ links[k].state # "complete" /\ links[k].priority = 1
    BY <1>1 DEF NotTold
  <1> HIDE DEF n
  <1>5. \A l \in 1..n : links[l].state = "complete" => links'[l].priority = links[l].priority
    BY <1>1, <1>3, <1>4, Unmoved
  <1>6. Complete' = Complete /\ Complete \subseteq 1..n
    BY <1>1, <1>2, <1>3 DEF Complete
  <1>7. \A l \in Complete : links'[l].priority = links[l].priority
    BY <1>1, <1>5 DEF Complete
  <1>8. Alive' \subseteq Alive /\ Alive \subseteq Complete
    <2>1. ASSUME NEW l \in Alive' PROVE l \in Alive
      BY AliveFrom
    <2> QED
      BY <2>1 DEF Alive
  <1> QED
    BY <1>6, <1>7, <1>8 DEF CompleteSlots, AliveSlots

\* A connection made is told of with its slot.
LEMMA SlotMade ==
    ASSUME StreamInv, LinksInv', ATInv, HandleAtComplete, Next
    PROVE  \E x \in Message :
              /\ queue' = Append(Tail(queue), x)
              /\ CompleteSlots' = Shown(x, CompleteSlots)
              /\ AliveSlots' \subseteq Shown(x, AliveSlots)
  <1>1. PICK l \in 1..NumLinks, p \in 1..2 :
              /\ links[l].state = "connected" /\ links[l].addr = m.addr
              /\ links[l].priority = p
              /\ links' = [links EXCEPT ![l].state = "complete"]
              /\ ConnectCfm(TRUE, p, m.addr) \in Message
              /\ queue' = Append(Tail(queue), ConnectCfm(TRUE, p, m.addr))
    BY AtIs
  <1> DEFINE x == ConnectCfm(TRUE, p, m.addr)
  <1>2. Made(x) /\ x.priority = p
    BY DEF ConnectCfm, Made
  <1> HIDE DEF x
  <1>3. \A S : Shown(x, S) = S \cup {p}
    BY <1>2 DEF Shown
  <1>4. /\ LinksOf(NumLinks, links) /\ DOMAIN links = 1..NumLinks
        /\ DOMAIN links' = 1..NumLinks
    BY <1>1 DEF StreamInv, LinksInv, LinksOf
  <1>5. \A k \in 1..NumLinks : /\ links'[k].priority = links[k].priority
                               /\ links'[k].state = IF k = l THEN "complete" ELSE links[k].state
    BY <1>1, <1>4 DEF LinksOf, LinkRecord
  <1>6. Complete' = Complete \cup {l}
    BY <1>1, <1>4, <1>5 DEF Complete
  <1>7. CompleteSlots' = CompleteSlots \cup {p}
    <2>1. \A k \in Complete \cup {l} : links'[k].priority = links[k].priority
      BY <1>4, <1>5 DEF Complete
    <2> QED
      BY <1>1, <1>6, <2>1 DEF CompleteSlots
  <1>8. ASSUME NEW k \in Alive' PROVE (k \in Alive \/ k = l) /\ links'[k].priority = links[k].priority
    <2>1. k \in 1..NumLinks /\ (k \in Alive \/ links[k].addr = m.addr)
      BY AliveFrom
    <2>2. links[k].addr = m.addr => k = l
      BY <1>1, <1>4, <2>1 DEF LinksOf
    <2> QED
      BY <1>5, <2>1, <2>2
  <1>9. AliveSlots' \subseteq AliveSlots \cup {p}
    BY <1>1, <1>8 DEF AliveSlots
  <1> QED
    BY <1>1, <1>3, <1>7, <1>9 DEF x

\* The end of a connection is told of with its slot, unless it is an error.
LEMMA SlotLost ==
    ASSUME StreamInv, LinksInv', ATInv, ~NotTold, HandleRfcDisconnect, Next,
           NEW l \in 1..NumLinks, links[l].addr = m.addr, links[l].state = "complete"
    PROVE  \E x \in Message :
              /\ queue' = Append(Tail(queue), x)
              /\ CompleteSlots' = Shown(x, CompleteSlots)
              /\ AliveSlots' \subseteq Shown(x, AliveSlots)
  <1> DEFINE n == NumLinks
  <1>1. PICK k \in 1..n, p \in 1..2, x \in Message :
              /\ m.status \in Status
              /\ links[k].state \in Opened /\ links[k].addr = m.addr
              /\ links[k].priority = p
              /\ links' = Reset(links, k)
              /\ x = IF links[k].state = "complete" THEN DisconnectInd(m.status, p, m.addr)
                     ELSE ConnectCfm(FALSE, p, m.addr)
              /\ queue' = Append(Tail(queue), x)
              /\ m.id = "RFC_DISCONNECT" /\ m = queue[1] /\ 1 \in 1..Len(queue)
    BY EndIs
  <1>2. n \in {1, 2} /\ LinksOf(n, links) /\ DOMAIN links = 1..n /\ DOMAIN links' = 1..n
    BY <1>1, OneOrTwo DEF StreamInv, LinksInv, LinksOf, Reset
  <1>3. k = l
    BY <1>1, <1>2 DEF LinksOf
  <1>4. /\ links'[l].state = "idle"
        /\ \A i \in 1..n : i # l =>
              /\ links'[i].state = links[i].state
              /\ links'[i].priority = IF links[i].priority = 2 THEN 1 ELSE links[i].priority
    <2>1. IdleLink.state = "idle"
      BY DEF IdleLink
    <2> QED
      BY <1>1, <1>2, <1>3, <2>1, ResetIs
  <1>5. m.status # "error"
    BY <1>2, <1>4 DEF NotTold
  <1>6. Over(x) /\ ~Made(x) /\ x.priority = p
    <2>1. x = DisconnectInd(m.status, p, m.addr)
      BY <1>1, <1>3
    <2>2. x.id = "SLC_DISCONNECT_IND" /\ x.status = m.status /\ x.priority = p
      BY <2>1 DEF DisconnectInd
    <2>3. m.status \in {"success", "link_loss"}
      BY <1>1, <1>5 DEF Status
    <2> QED
      BY <2>2, <2>3 DEF Over, Made
  <1>7. \A S : Shown(x, S) = IF p = 1 THEN IF 2 \in S THEN {1} ELSE {} ELSE S \ {p}
    BY <1>6 DEF Shown
  <1> HIDE DEF n
  \* The other link, if there is one, had the other priority and has the first.
  <1>8. ASSUME NEW i \in 1..n, i # l, links[i].state = "complete"
        PROVE  links[i].priority = 3 - p /\ links'[i].priority = 1
    <2>1. links[i].priority # p
      BY <1>1, <1>2, <1>3, <1>8 DEF LinksOf
    <2>2. links[i].priority \in 0..2 /\ links[i].priority # 0
      BY <1>2, <1>8 DEF LinksOf, LinkRecord
    <2> QED
      BY <1>4, <1>8, <2>1, <2>2
  <1>9. Complete' = Complete \ {l} /\ l \in Complete /\ Complete \subseteq 1..n
    BY <1>2, <1>4 DEF Complete, n
  <1>10. CompleteSlots' = Shown(x, CompleteSlots)
    <2>1. CompleteSlots' = {links'[i].priority : i \in Complete \ {l}}
      BY <1>9 DEF CompleteSlots
    <2>2. \A i \in Complete \ {l} : links[i].priority = 3 - p /\ links'[i].priority = 1
      BY <1>8, <1>9 DEF Complete
    <2>3. CompleteSlots = {links[i].priority : i \in Complete \ {l}} \cup {p}
      BY <1>1, <1>3, <1>9 DEF CompleteSlots
    <2>4. CASE Complete \ {l} = {}
      <3>1. CompleteSlots' = {} /\ CompleteSlots = {p}
        BY <2>1, <2>3, <2>4
      <3> QED
        BY <1>7, <3>1
    <2>5. CASE Complete \ {l} # {}
      <3>1. CompleteSlots' = {1}
        BY <2>1, <2>2, <2>5
      <3>2. CompleteSlots = {3 - p, p}
        BY <2>2, <2>3, <2>5
      <3>3. CASE p = 1
        <4>1. 2 \in CompleteSlots
          BY <3>2, <3>3
        <4> QED
          BY <1>7, <3>1, <3>3, <4>1
      <3>4. CASE p = 2
        <4>1. CompleteSlots = {1, 2}
          BY <3>2, <3>4
        <4> QED
          BY <1>7, <3>1, <3>4, <4>1
      <3> QED
        BY <3>3, <3>4
    <2> QED
      BY <2>4, <2>5
  <1>11. AliveSlots' \subseteq Shown(x, AliveSlots)
    <2>1. ASSUME NEW i \in Alive' PROVE i \in Alive /\ i # l /\ i \in 1..n
      <3>1. i \in 1..NumLinks /\ links'[i].state = "complete"
        BY AliveFrom
      <3>2. i # l
        BY <1>4, <3>1
      <3>3. links[i].addr # m.addr
        <4>1. links[l].state # "idle"
          OBVIOUS
        <4> QED
          BY <1>2, <3>1, <3>2, <4>1 DEF LinksOf, n
      <3> QED
        BY <3>1, <3>2, <3>3, AliveFrom DEF n
    <2>2. ASSUME NEW i \in Alive' PROVE links'[i].priority \in Shown(x, AliveSlots)
      <3>1. i \in Alive /\ i # l /\ i \in 1..n /\ links[i].state = "complete"
        BY <2>1, <2>2 DEF Alive, Complete
      <3>2. links[i].priority = 3 - p /\ links'[i].priority = 1
        BY <1>8, <3>1
      <3>3. 3 - p \in AliveSlots
        BY <3>1, <3>2 DEF AliveSlots
      <3>4. CASE p = 1
        <4>1. 2 \in AliveSlots
          BY <3>3, <3>4
        <4> QED
          BY <1>7, <3>2, <3>4, <4>1
      <3>5. CASE p = 2
        <4>1. 1 \in AliveSlots
          BY <3>3, <3>5
        <4> QED
          BY <1>7, <3>2, <3>5, <4>1
      <3> QED
        BY <3>4, <3>5
    <2> QED
      BY <2>2 DEF AliveSlots
  <1> QED
    BY <1>1, <1>10, <1>11

\* The slots change with what the application hears of connections.
LEMMA ProfilesKept ==
    ASSUME StreamInv, Next, ~HandleConnectSuccess, ~HandleDisconnectInd
    PROVE  profile_data' = profile_data
  <1>1. CASE \/ HandlePowerOn \/ HandlePowerOff \/ HandleEnterPairing \/ PairingEnds
             \/ ConnectableTimeout
             \/ HandleConnectInd \/ HandleConnectCfmInLimbo \/ HandleConnectFail
    BY <1>1 DEF HandlePowerOn, HandlePowerOff, HandleEnterPairing, PairingEnds,
       ConnectableTimeout, HandleConnectInd, HandleConnectCfmInLimbo, HandleConnectFail, app
  <1>2. UNCHANGED app => profile_data' = profile_data
    BY DEF app
  <1> QED
    BY <1>1, <1>2, OthersKeepApp DEF Next

LEMMA ActsKeep == ASSUME StreamInv, Acts PROVE profile_data' = profile_data
  <1>1. CASE PairingEnds \/ ConnectableTimeout
    BY <1>1 DEF PairingEnds, ConnectableTimeout
  <1>2. CASE Continue \/ (\E a \in Phone : RfcConnectIndAgain(a)) \/ Outside
    <2>1. UNCHANGED app
      BY <1>2, OthersKeepApp DEF Outside
    <2> QED
      BY <2>1 DEF app
  <1> QED
    BY <1>1, <1>2 DEF Acts

\* Exactly so, but for a connection made in limbo.
LEMMA ListedStep ==
    ASSUME StreamInv, AppInv, ToldInv, Next
    PROVE  /\ Acts => Listed' = Listed
           /\ Hears => /\ Listed' \subseteq Shown(queue[1], Listed)
                       /\ \/ Shown(queue[1], Listed) \subseteq Listed'
                          \/ HandleConnectCfmInLimbo /\ m.ok
  <1>1. Acts => Listed' = Listed
    BY ActsKeep DEF Listed
  <1>2. ASSUME Hears PROVE m = queue[1] /\ 1 \in 1..Len(queue) /\ queue # <<>>
    <2>1. queue \in Seq(Message) /\ queue # <<>>
      BY <1>2 DEF StreamInv, Typed, Hears, HandlePowerOn, HandlePowerOff, HandleEnterPairing,
         HandleEstablish, HandleConnectInd, HandleConnectCfmInLimbo, HandleConnectSuccess,
         HandleConnectFail, HandleDisconnectInd, HandleDisconnectReq, HandleSdpCfm,
         HandleRfcConnectCfm, HandleRfcConnectInd, HandleAtComplete, HandleRfcDisconnect, Receives
    <2> QED
      BY <2>1, HeadTailProperties, LenProperties, EmptySeq DEF m
  <1>3. CASE HandleConnectSuccess
    <2> DEFINE p == m.priority
    <2>1. Hears /\ m = queue[1] /\ 1 \in 1..Len(queue)
      BY <1>2, <1>3 DEF Hears
    <2>2. Made(m)
      BY <1>3 DEF HandleConnectSuccess, Receives, Made, m
    <2>3. p \in 1..2
      BY <2>1, <2>2 DEF ToldInv
    <2>4. profile_data' = [[profile_data EXCEPT ![p].connected = TRUE] EXCEPT ![p].listed = TRUE]
      BY <1>3 DEF HandleConnectSuccess
    <2> HIDE DEF p
    <2>5. profile_data'[p].listed /\ \A q \in 1..2 : q # p => profile_data'[q] = profile_data[q]
      BY <2>3, <2>4, FilledIs DEF AppInv
    <2>6. Listed' = Listed \cup {p}
      BY <2>3, <2>5 DEF Listed
    <2>7. Shown(m, Listed) = Listed \cup {p}
      BY <2>2 DEF Shown, p
    <2> QED
      BY <1>1, <2>1, <2>6, <2>7
  <1>4. CASE HandleDisconnectInd
    <2>1. Hears /\ m = queue[1] /\ 1 \in 1..Len(queue) /\ m.id = "SLC_DISCONNECT_IND"
      BY <1>2, <1>4 DEF Hears, HandleDisconnectInd, Receives, m
    <2>2. profile_data' = IF m.status \in {"success", "link_loss"}
                          THEN Dropped(m.status = "link_loss") ELSE profile_data
      BY <1>4 DEF HandleDisconnectInd
    <2>3. ~Made(m)
      BY <2>1 DEF Made
    <2>4. CASE m.status \in {"success", "link_loss"}
      <3>1. Over(m)
        BY <2>1, <2>4 DEF Over
      <3>2. m.priority \in 1..2
        BY <2>1, <3>1 DEF ToldInv
      <3>3. \E lost : profile_data' = Dropped(lost)
        BY <2>2, <2>4
      <3>4. Listed' = IF m.priority = 1 THEN IF 2 \in Listed THEN {1} ELSE {}
                      ELSE Listed \ {m.priority}
        BY <3>2, <3>3, DroppedLists DEF AppInv, Listed
      <3> QED
        BY <1>1, <2>1, <2>3, <3>1, <3>4 DEF Shown
    <2>5. CASE m.status \notin {"success", "link_loss"}
      <3>1. ~Over(m)
        BY <2>5 DEF Over
      <3>2. Listed' = Listed
        BY <2>2, <2>5 DEF Listed
      <3> QED
        BY <1>1, <2>1, <2>3, <3>1, <3>2 DEF Shown
    <2> QED
      BY <2>4, <2>5
  <1>5. CASE ~HandleConnectSuccess /\ ~HandleDisconnectInd
    <2>1. Listed' = Listed
      BY <1>5, ProfilesKept DEF Listed
    <2>2. ASSUME Hears
          PROVE  /\ Listed \subseteq Shown(m, Listed)
                 /\ \/ Shown(m, Listed) = Listed
                    \/ HandleConnectCfmInLimbo /\ m.ok
      <3>1. m.id # "SLC_DISCONNECT_IND"
        BY <1>5, <2>2, HeardBy DEF m
      <3>2. Made(m) => HandleConnectCfmInLimbo /\ m.ok
        <4>1. ~(HandleConnectFail /\ m.ok)
          BY DEF HandleConnectFail
        <4> QED
          BY <1>5, <2>2, <4>1, HeardBy DEF Made, m
      <3>3. CASE Made(m)
        <4>1. Listed \subseteq Shown(m, Listed)
          BY <3>3 DEF Shown
        <4> QED
          BY <3>2, <3>3, <4>1
      <3>4. CASE ~Made(m)
        <4>1. Shown(m, Listed) = Listed
          BY <3>1, <3>4 DEF Shown, Over
        <4> QED
          BY <4>1
      <3> QED
        BY <3>3, <3>4
    <2> QED
      BY <1>1, <1>2, <2>1, <2>2
  <1> QED
    BY <1>3, <1>4, <1>5

\* As long as the application has been told of each change: what it lists once it has
\* heard what is queued is among the complete links, and has those that last; and
\* while one lasts the state is connected or is to become so.
ListInv ==
    /\ NoMore(queue, Listed, CompleteSlots)
    /\ NoLess(queue, Listed, AliveSlots)
    /\ Alive # {} => IsConnected \/ \E k \in 1..Len(queue) : Made(queue[k])

\* A change told of: what is listed follows.
LEMMA ListTold ==
    ASSUME StreamInv, AppInv, ToldInv, ListInv, Next, HandleAtComplete \/ HandleRfcDisconnect,
           NEW x \in Message, queue' = Append(Tail(queue), x),
           CompleteSlots' = Shown(x, CompleteSlots),
           AliveSlots' \subseteq Shown(x, AliveSlots)
    PROVE  NoMore(queue', Listed', CompleteSlots') /\ NoLess(queue', Listed', AliveSlots')
  <1>1. /\ queue \in Seq(Message) /\ queue # <<>> /\ Tail(queue) \in Seq(Message)
        /\ queue[1].id \in {"AT_COMPLETE", "RFC_DISCONNECT"}
    <2>1. queue \in Seq(Message) /\ queue # <<>>
          /\ Head(queue).id \in {"AT_COMPLETE", "RFC_DISCONNECT"}
      BY DEF StreamInv, Typed, HandleAtComplete, HandleRfcDisconnect, Receives
    <2> QED
      BY <2>1, HeadTailProperties
  <1> DEFINE t == Tail(queue)
  <1>2. Moved(queue, t, <<>>, 1)
    <2>1. t = t \o <<>> /\ <<>> \in Seq(Message)
      BY <1>1, Extended
    <2> QED
      BY <1>1, <2>1, MovedOn
  <1>3. Silent(<<>>)
    BY DEF Silent
  <1>4. Shown(queue[1], Listed) = Listed
    BY <1>1 DEF Shown, Made, Over
  <1>5. Listed' = Listed
    <2>1. ~HandleConnectSuccess /\ ~HandleDisconnectInd
      BY DEF HandleConnectSuccess, HandleDisconnectInd, HandleAtComplete,
         HandleRfcDisconnect, Receives
    <2> QED
      BY <2>1, ProfilesKept DEF Listed
  <1> HIDE DEF t
  <1>6. NoMore(t, Listed, CompleteSlots)
    <2>1. NoMore(queue, Listed, CompleteSlots)
      BY DEF ListInv
    <2>2. 1 = 0 => Listed = Listed
      OBVIOUS
    <2>3. Listed \subseteq Shown(queue[1], Listed)
      BY <1>4
    <2> QED
      BY <1>2, <1>3, <2>1, <2>2, <2>3, NoMoreMoved
  <1>7. NoLess(t, Listed, AliveSlots)
    <2>1. NoLess(queue, Listed, AliveSlots)
      BY DEF ListInv
    <2>2. Shown(queue[1], Listed) \subseteq Listed
      BY <1>4
    <2> QED
      BY <1>2, <1>3, <2>1, <2>2, NoLessMoved
  <1>8. NoMore(Append(t, x), Listed, CompleteSlots')
    BY <1>1, <1>6, NoMoreTold DEF t
  <1>9. NoLess(Append(t, x), Listed, AliveSlots')
    BY <1>1, <1>7, NoLessTold DEF t
  <1> QED
    BY <1>5, <1>8, <1>9 DEF t

\* A failed attempt whose stream is gone is not told of as a connection.
LEMMA ListFailed ==
    ASSUME StreamInv, LinksInv', AppInv, ToldInv, ATInv, ListInv, Next, ~NotTold,
           HandleRfcDisconnect, ~HandleAtComplete,
           \A l \in 1..NumLinks : links[l].addr = m.addr => links[l].state # "complete"
    PROVE  NoMore(queue', Listed', CompleteSlots') /\ NoLess(queue', Listed', AliveSlots')
  <1>1. PICK l \in 1..NumLinks, p \in 1..2, x \in Message :
              /\ links[l].addr = m.addr
              /\ x = IF links[l].state = "complete" THEN DisconnectInd(m.status, p, m.addr)
                     ELSE ConnectCfm(FALSE, p, m.addr)
              /\ queue' = Append(Tail(queue), x)
    BY EndIs
  <1>2. x = ConnectCfm(FALSE, p, m.addr)
    BY <1>1
  <1>3. \A S : Shown(x, S) = S
    BY <1>2 DEF ConnectCfm, Shown, Made, Over
  <1>4. CompleteSlots' = CompleteSlots /\ AliveSlots' \subseteq AliveSlots
    BY SlotsStay
  <1> QED
    BY <1>1, <1>3, <1>4, ListTold

\* No change of which to tell: what is listed stays.
LEMMA ListQuiet ==
    ASSUME StreamInv, StreamInv', AppInv, ToldInv, ATInv, ListInv, Next, ~NotTold,
           ~HandleAtComplete, ~HandleRfcDisconnect
    PROVE  NoMore(queue', Listed', CompleteSlots') /\ NoLess(queue', Listed', AliveSlots')
  <1>1. PICK s, d :
           /\ SaysAll(s) /\ Moved(queue, queue', s, d)
           /\ (d = 1 /\ Hears) \/ (d = 0 /\ Acts)
    <2>1. \E s : /\ SaysAll(s)
                 /\ (Hears /\ Moved(queue, queue', s, 1)) \/ (Acts /\ Moved(queue, queue', s, 0))
      BY StepSays
    <2> QED
      BY <2>1
  <1>2. Silent(s)
    BY <1>1, SentQuietly
  <1>3. /\ NoMore(queue, Listed, CompleteSlots) /\ NoLess(queue, Listed, AliveSlots)
        /\ CompleteSlots' = CompleteSlots /\ AliveSlots' \subseteq AliveSlots
    <2>1. LinksInv'
      BY DEF StreamInv
    <2> QED
      BY <2>1, SlotsStay DEF ListInv
  <1>4. /\ d = 0 => Listed' = Listed
        /\ d = 1 => /\ Listed' \subseteq Shown(queue[1], Listed)
                    /\ \/ Shown(queue[1], Listed) \subseteq Listed'
                       \/ HandleConnectCfmInLimbo /\ m.ok
    BY <1>1, ListedStep
  <1>5. NoMore(queue', Listed', CompleteSlots)
    BY <1>1, <1>2, <1>3, <1>4, NoMoreMoved
  <1>6. CASE HandleConnectCfmInLimbo /\ m.ok
    <2>1. Asked'
      BY <1>6, DisconnectsAsk DEF Disconnects, StreamInv, Typed
    <2>2. AliveSlots' = {}
      <3>1. Alive' = {}
        BY <2>1, AskedGone DEF StreamInv
      <3> QED
        BY <3>1 DEF AliveSlots
    <2>3. queue' \in Seq(Message)
      BY DEF StreamInv, Typed
    <2>4. NoLess(queue', Listed', {})
      BY <2>3, NoLessThanNone
    <2> QED
      BY <1>3, <1>5, <2>2, <2>4
  <1>7. CASE ~(HandleConnectCfmInLimbo /\ m.ok)
    <2>1. d = 1 => Shown(queue[1], Listed) \subseteq Listed'
      BY <1>4, <1>7
    <2>2. NoLess(queue', Listed', AliveSlots)
      BY <1>1, <1>2, <1>3, <1>4, <2>1, NoLessMoved
    <2>3. NoLess(queue', Listed', AliveSlots')
      BY <1>3, <2>2, Narrower
    <2> QED
      BY <1>3, <1>5, <2>3
  <1> QED
    BY <1>6, <1>7

\* A phone of which the connection lasts has a link of the first priority.
LEMMA FirstIs ==
    ASSUME LinksInv, NEW l \in Complete, NEW data
    PROVE  data[1].connected => NumConnectedDevs(data) # 0
  <1>1. LinksOf(NumLinks, links) /\ DOMAIN links = 1..NumLinks
    BY DEF LinksInv, LinksOf
  <1>2. \E k \in 1..NumLinks : links[k].priority = 1
    <2>1. l \in 1..NumLinks /\ links[l].state = "complete"
      BY <1>1 DEF Complete
    <2>2. links[l].priority \in 0..2 /\ links[l].priority # 0
      BY <1>1, <2>1 DEF LinksOf, LinkRecord
    <2>3. links[l].priority = 1 \/ links[l].priority = 2
      BY <2>2
    <2> QED
      BY <1>1, <2>1, <2>3 DEF LinksOf
  <1> DEFINE k == CHOOSE k \in 1..NumLinks : links[k].priority = 1
  <1>3. k \in 1..NumLinks /\ links[k].priority = 1
    BY <1>2
  <1>4. LinkWith(links, 1) = k
    BY <1>1, <1>2 DEF LinkWith
  <1> HIDE DEF k
  <1>5. k # 0 /\ links[k].addr # NULL
    <2>1. links[k].state # "idle"
      BY <1>1, <1>3 DEF LinksOf
    <2> QED
      BY <1>1, <1>3, <2>1 DEF LinksOf
  <1>6. data[1].connected => ProfileAddr(data, 1) # NULL
    BY <1>4, <1>5 DEF ProfileAddr
  <1>7. NumConnectedDevs(data) = 0 => ProfileAddr(data, 1) = NULL
    <2>1. NumConnectedDevs(data) = 0 => \A p \in 1..2 : ProfileAddr(data, p) = NULL
      BY Counted
    <2> QED
      BY <2>1
  <1> QED
    BY <1>6, <1>7

\* The state follows the connections: it is left only with all to be disconnected, or
\* with none to last.
LEMMA ReachStep ==
    ASSUME StreamInv, StreamInv', AppInv, SlotInv', ToldInv, ATInv, DoomInv, ListInv,
           ~unheard, Next, NoLess(queue', Listed', AliveSlots'), Alive' # {}
    PROVE  IsConnected' \/ \E k \in 1..Len(queue') : Made(queue'[k])
  <1> SUFFICES ASSUME \A k \in 1..Len(queue') : ~Made(queue'[k]) PROVE IsConnected'
    OBVIOUS
  <1>1. queue \in Seq(Message) /\ Len(queue) \in Nat /\ LinksInv /\ LinksInv'
    BY LenProperties DEF StreamInv, Typed
  <1>2. PICK s, d :
           /\ SaysAll(s) /\ Moved(queue, queue', s, d)
           /\ (d = 1 /\ Hears /\ Head(queue) = queue[1]) \/ (d = 0 /\ Acts)
    <2>1. \E s : /\ SaysAll(s)
                 /\ \/ Hears /\ Head(queue) = queue[1] /\ Moved(queue, queue', s, 1)
                    \/ Acts /\ Moved(queue, queue', s, 0)
      BY StepSays
    <2> QED
      BY <2>1
  <1>3. \A k \in 1..Len(queue) : Made(queue[k]) =>
           d = 1 /\ k = 1 /\ Hears /\ Made(Head(queue))
    <2>1. \A k \in 1..Len(queue) : d < k => k - d \in 1..Len(queue') /\ queue'[k - d] = queue[k]
      BY <1>2, MovedIs
    <2>2. \A k \in 1..Len(queue) : Made(queue[k]) => ~(d < k)
      BY <2>1
    <2> QED
      BY <1>1, <1>2, <2>2
  <1>4. ~Asked'
    BY <1>1, AskedGone
  <1>5. ~Disconnects
    BY <1>1, <1>4, DisconnectsAsk
  <1>6. PICK l \in Alive' : TRUE
    OBVIOUS
  <1>7. ~HandleAtComplete
    <2> SUFFICES ASSUME HandleAtComplete PROVE FALSE
      OBVIOUS
    <2>1. PICK p \in 1..2 : /\ ConnectCfm(TRUE, p, m.addr) \in Message
                            /\ queue' = Append(Tail(queue), ConnectCfm(TRUE, p, m.addr))
                            /\ queue # <<>>
      BY AtIs
    <2>2. Made(ConnectCfm(TRUE, p, m.addr))
      BY DEF Made, ConnectCfm
    <2> DEFINE x == ConnectCfm(TRUE, p, m.addr)
    <2> HIDE DEF x
    <2>3. Len(queue) \in 1..Len(queue') /\ queue'[Len(queue)] = x
      <3>1. /\ Len(queue') = Len(queue) /\ Len(queue) \in Nat /\ Len(queue) >= 1
            /\ queue'[Len(queue)] = x
        BY <1>1, <2>1, LastIs DEF x
      <3> QED
        BY <3>1
    <2> QED
      BY <2>2, <2>3 DEF x
  <1>8. Alive # {}
    BY <1>1, <1>6, <1>7, AliveFrom
  <1>9. CASE \E k \in 1..Len(queue) : Made(queue[k])
    <2>1. Hears /\ Made(Head(queue))
      BY <1>3, <1>9
    <2>2. ~(HandleConnectCfmInLimbo /\ m.ok)
      BY <1>5 DEF Disconnects
    <2>3. HandleConnectSuccess
      BY <2>1, <2>2, HeardBy DEF Made, m, HandleConnectFail
    <2> QED
      BY <2>3 DEF HandleConnectSuccess, EnterConnected, IsConnected
  <1>10. CASE IsConnected /\ ~\E k \in 1..Len(queue) : Made(queue[k])
    <2>1. CASE HandleDisconnectInd
      <3>1. queue # <<>> /\ m.id = "SLC_DISCONNECT_IND" /\ m = queue[1] /\ 1 \in 1..Len(queue)
        <4>1. queue # <<>> /\ m.id = "SLC_DISCONNECT_IND"
          BY <2>1 DEF HandleDisconnectInd, Receives, m
        <4> QED
          BY <1>1, <4>1, HeadTailProperties, LenProperties, EmptySeq DEF m
      <3>2. links' = links /\ conf' = conf
        BY <2>1 DEF HandleDisconnectInd, lib
      <3>3. state' = IF IsConnected /\ NumConnectedDevs(profile_data') = 0
                     THEN "connectable" ELSE state
        BY <2>1 DEF HandleDisconnectInd
      <3>4. m.status # "no_slc"
        BY <1>8, <1>10, <3>1 DEF DoomInv
      <3>5. m.status # "error"
        BY <3>1 DEF ToldInv
      <3>6. m.status \in {"success", "link_loss"}
        <4>1. m \in Message
          BY <1>1, <3>1
        <4>2. m.status \in Status \cup {"no_slc"}
          BY <3>1, <4>1 DEF Message, User
        <4> QED
          BY <3>4, <3>5, <4>2 DEF Status
      <3>7. Over(m) /\ ~Made(m)
        BY <3>1, <3>6 DEF Over, Made
      <3>8. m.priority \in 1..2
        BY <3>1, <3>7 DEF ToldInv
      <3>9. Listed' \subseteq {1}
        <4>1. Hears
          BY <2>1 DEF Hears
        <4>2. Listed' \subseteq Shown(m, Listed)
          BY <3>1, <4>1, ListedStep
        <4>3. Shown(m, Listed) \subseteq {1}
          BY <3>7, <3>8 DEF Shown, Listed
        <4> QED
          BY <4>2, <4>3
      <3>10. Listed' # {}
        <4>1. AliveSlots' # {}
          BY <1>6 DEF AliveSlots
        <4>2. queue' \in Seq(Message)
          BY DEF StreamInv, Typed
        <4> QED
          BY <4>1, <4>2, NoneMade
      <3>11. profile_data'[1].connected
        BY <3>9, <3>10 DEF SlotInv
      <3>12. PICK k \in Complete : TRUE
        BY <1>8 DEF Alive
      <3>13. NumConnectedDevs(profile_data') # 0
        BY <1>1, <3>11, <3>12, FirstIs
      <3> QED
        BY <1>10, <3>3, <3>13 DEF IsConnected
    <2>2. CASE ~HandleDisconnectInd
      <3>1. ~HandlePowerOn /\ ~HandleEnterPairing /\ ~HandlePowerOff
        BY <1>5, <1>10 DEF Disconnects
      <3>2. ~PairingEnds
        BY <1>10 DEF PairingEnds, IsConnected
      <3>3. \/ ConnectableTimeout \/ HandleConnectInd \/ HandleConnectCfmInLimbo
            \/ HandleConnectFail
            => state' = state
        BY DEF ConnectableTimeout, HandleConnectInd, HandleConnectCfmInLimbo,
           HandleConnectFail, app
      <3>4. HandleConnectSuccess => state' = "connected"
        BY DEF HandleConnectSuccess, EnterConnected
      <3>5. UNCHANGED app => state' = state
        BY DEF app
      <3>6. state' = state \/ state' = "connected"
        BY <2>2, <3>1, <3>2, <3>3, <3>4, <3>5, OthersKeepApp DEF Next
      <3> QED
        BY <1>10, <3>6 DEF IsConnected
    <2> QED
      BY <2>1, <2>2
  <1> QED
    BY <1>8, <1>9, <1>10 DEF ListInv

-----------------------------------------------------------------------------
TruthInv ==
    /\ TypeInv /\ SlotInv /\ ToldInv /\ ATInv /\ DoomInv
    /\ ~unheard => ListInv

LEMMA InitTruth == Init => TruthInv
  <1> SUFFICES ASSUME Init PROVE TruthInv
    OBVIOUS
  <1>1. TypeInv
    BY InitTyped
  <1>2. /\ queue = <<>> /\ state = "limbo" /\ timer = FALSE
        /\ profile_data = [priority \in 1..2 |-> [connected |-> FALSE, listed |-> FALSE]]
        /\ links = [l \in 1..NumLinks |-> IdleLink]
    BY DEF Init
  <1>3. Len(queue) = 0 /\ 1..Len(queue) = {} /\ queue \in Seq(Message)
    BY <1>2
  <1>4. Listed = {} /\ Complete = {}
    BY <1>2 DEF Listed, Complete, IdleLink
  <1>5. Alive = {} /\ CompleteSlots = {} /\ AliveSlots = {}
    BY <1>4 DEF Alive, CompleteSlots, AliveSlots
  <1>6. SlotInv
    BY <1>2, <1>4 DEF SlotInv, IsConnected
  <1>7. ToldInv /\ ATInv /\ DoomInv
    BY <1>3 DEF ToldInv, ATInv, DoomInv
  <1>8. NoLess(queue, Listed, AliveSlots)
    BY <1>3, <1>5, NoLessThanNone
  <1>9. NoMore(queue, Listed, CompleteSlots)
    <2> DEFINE h == [k \in 1..1 |-> {}]
    <2>1. h[1] = {} /\ Len(queue) + 1 = 1
      BY <1>3
    <2> HIDE DEF h
    <2> QED
      BY <1>3, <1>4, <2>1 DEF NoMore
  <1> QED
    BY <1>1, <1>5, <1>6, <1>7, <1>8, <1>9 DEF TruthInv, ListInv

LEMMA NextTruth == TruthInv /\ [Next]_vars => TruthInv'
  <1> SUFFICES ASSUME TruthInv, [Next]_vars PROVE TruthInv'
    OBVIOUS
  <1>1. TypeInv /\ SlotInv /\ ToldInv /\ ATInv /\ DoomInv /\ (~unheard => ListInv)
    BY DEF TruthInv
  <1>2. TypeInv'
    BY <1>1, NextTyped
  <1>3. /\ EndInv /\ StreamInv /\ StreamInv' /\ LinksInv' /\ AppInv /\ unheard \in BOOLEAN
    BY <1>1, <1>2 DEF TypeInv, EndInv, StreamInv, AppInv
  <1>4. CASE Next
    <2>1. SlotInv'
      BY <1>1, <1>3, <1>4, SlotsStep
    <2>2. ToldInv'
      BY <1>1, <1>3, <1>4, ToldStep
    <2>3. ATInv'
      BY <1>1, <1>3, <1>4, ATStep
    <2>4. DoomInv'
      BY <1>1, <1>3, <1>4, <2>3, DoomStep
    <2>5. ASSUME ~unheard' PROVE ListInv'
      <3>1. ~unheard /\ ~NotTold
        BY <1>4, <2>5, HistoryKept DEF History
      <3>2. ListInv
        BY <1>1, <3>1
      <3>3. NoMore(queue', Listed', CompleteSlots') /\ NoLess(queue', Listed', AliveSlots')
        <4>1. CASE HandleAtComplete
          BY <1>1, <1>3, <1>4, <3>2, <4>1, SlotMade, ListTold
        <4>2. CASE ~HandleAtComplete /\ ~HandleRfcDisconnect
          BY <1>1, <1>3, <1>4, <3>1, <3>2, <4>2, ListQuiet
        <4>3. CASE ~HandleAtComplete /\ HandleRfcDisconnect
          <5>1. CASE \A l \in 1..NumLinks : links[l].addr = m.addr => links[l].state # "complete"
            BY <1>1, <1>3, <1>4, <3>1, <3>2, <4>3, <5>1, ListFailed
          <5>2. CASE \E l \in 1..NumLinks : links[l].addr = m.addr /\ links[l].state = "complete"
            BY <1>1, <1>3, <1>4, <3>1, <3>2, <4>3, <5>2, SlotLost, ListTold
          <5> QED
            BY <5>1, <5>2
        <4> QED
          BY <4>1, <4>2, <4>3
      <3>4. Alive' # {} => IsConnected' \/ \E k \in 1..Len(queue') : Made(queue'[k])
        BY <1>1, <1>3, <1>4, <2>1, <3>1, <3>2, <3>3, ReachStep
      <3> QED
        BY <3>3, <3>4 DEF ListInv, Made
    <2> QED
      BY <1>2, <2>1, <2>2, <2>3, <2>4, <2>5 DEF TruthInv
  <1>5. CASE UNCHANGED vars
    <2>1. /\ conf' = conf /\ state' = state /\ profile_data' = profile_data
          /\ page_scan_enabled' = page_scan_enabled /\ timer' = timer /\ unheard' = unheard
          /\ links' = links /\ closing' = closing /\ queue' = queue
      BY <1>5 DEF vars, app, scan, lib, stack
    <2>2. SlotInv'
      BY <1>1, <2>1 DEF SlotInv, Listed, IsConnected
    <2>3. ToldInv' /\ ATInv'
      BY <1>1, <2>1 DEF ToldInv, ATInv, Made, Over
    <2>4. Alive' = Alive /\ NumLinks' = NumLinks /\ \A l : Doomed(l)' = Doomed(l)
      BY <2>1 DEF Alive, Complete, Doomed, DisconnectReq, NumLinks
    <2>5. DoomInv'
      BY <1>1, <2>1, <2>4 DEF DoomInv, Made
    <2>6. CompleteSlots' = CompleteSlots /\ AliveSlots' = AliveSlots /\ Listed' = Listed
      BY <2>1, <2>4 DEF CompleteSlots, AliveSlots, Complete, Listed
    <2>7. ListInv => ListInv'
      BY <2>1, <2>4, <2>6 DEF ListInv, Made, IsConnected
    <2> QED
      BY <1>1, <1>2, <2>1, <2>2, <2>3, <2>5, <2>7 DEF TruthInv
  <1> QED
    BY <1>4, <1>5

\* When all is settled the slots are those of the complete links, and all of those last.
LEMMA SettledIs ==
    ASSUME TruthInv, Settled, ~unheard
    PROVE  /\ Listed = CompleteSlots
           /\ Complete # {} => IsConnected
           /\ SlotInv /\ CompleteSlots \subseteq 1..2
           /\ state \in {"limbo", "connectable", "discoverable", "connected"}
  <1>1. /\ TypeInv /\ SlotInv /\ ToldInv /\ ListInv /\ LinksInv /\ queue \in Seq(Message)
        /\ state \in {"limbo", "connectable", "discoverable", "connected"}
    BY DEF TruthInv, TypeInv, EndInv, StreamInv, Typed, AppInv
  <1>2. DOMAIN queue = 1..Len(queue)
    BY <1>1, LenProperties
  <1>3. /\ closing = {}
        /\ \A k \in 1..Len(queue) :
              queue[k].id \notin {"SLC_CONNECT_CFM", "SLC_DISCONNECT_IND", "DISCONNECT_REQ",
                                  "RFC_DISCONNECT"}
    BY <1>2 DEF Settled, Queued
  <1>4. \A k \in 1..Len(queue) : ~Made(queue[k]) /\ ~Over(queue[k])
    BY <1>3 DEF Made, Over
  <1>5. Alive = Complete
    <2>1. \A l : ~Doomed(l)
      BY <1>3 DEF Doomed, DisconnectReq
    <2> QED
      BY <2>1 DEF Alive
  <1>6. AliveSlots = CompleteSlots
    BY <1>5 DEF AliveSlots, CompleteSlots
  <1>7. Listed \subseteq CompleteSlots /\ AliveSlots \subseteq Listed
    <2>1. NoMore(queue, Listed, CompleteSlots) /\ NoLess(queue, Listed, AliveSlots)
      BY <1>1 DEF ListInv
    <2> QED
      BY <1>1, <1>4, <2>1, NothingTold
  <1>8. Complete # {} => IsConnected
    BY <1>1, <1>4, <1>5 DEF ListInv
  <1> QED
    BY <1>1, <1>6, <1>7, <1>8 DEF Listed

LEMMA InvListed == TruthInv => ListedTrue
  <1> SUFFICES ASSUME TruthInv, Settled, ~unheard, NEW p \in 1..2
               PROVE  /\ profile_data[p].listed <=> \E l \in Complete : links[l].priority = p
                      /\ profile_data[p].listed => profile_data[p].connected
    BY DEF ListedTrue
  <1>1. Listed = CompleteSlots /\ SlotInv
    BY SettledIs
  <1>2. profile_data[p].listed <=> p \in Listed
    BY DEF Listed
  <1>3. p \in CompleteSlots <=> \E l \in Complete : links[l].priority = p
    BY DEF CompleteSlots
  <1> QED
    BY <1>1, <1>2, <1>3 DEF SlotInv

LEMMA InvConnected == TruthInv => ConnectedTrue
  <1> SUFFICES ASSUME TruthInv, Settled, ~unheard, ~Stale
               PROVE  IsConnected <=> Complete # {}
    BY DEF ConnectedTrue
  <1>1. Listed = CompleteSlots /\ SlotInv /\ (Complete # {} => IsConnected)
    BY SettledIs
  <1>2. ASSUME IsConnected PROVE Complete # {}
    <2>1. PICK p \in 1..2 : profile_data[p].connected
      BY <1>1, <1>2 DEF SlotInv
    <2>2. p \in CompleteSlots
      BY <1>1, <2>1 DEF Stale, Listed
    <2> QED
      BY <2>2 DEF CompleteSlots
  <1> QED
    BY <1>1, <1>2

LEMMA InvReachable == TruthInv => Reachable
  <1> SUFFICES ASSUME TruthInv, Settled, ~unheard, ~Stale, Complete = {}
               PROVE  page_scan_enabled
    BY DEF Reachable
  <1>1. /\ Listed = CompleteSlots /\ SlotInv
        /\ state \in {"limbo", "connectable", "discoverable", "connected"}
    BY SettledIs
  <1>2. Listed = {}
    BY <1>1 DEF CompleteSlots
  <1>3. \A p \in 1..2 : ~profile_data[p].connected
    BY <1>2 DEF Stale, Listed
  <1>4. ~IsConnected /\ state # "limbo"
    BY <1>1, <1>3 DEF SlotInv, Settled
  <1>5. state \in {"connectable", "discoverable"}
    BY <1>1, <1>4 DEF IsConnected
  <1> QED
    BY <1>1, <1>3, <1>5 DEF SlotInv

\* Once all is settled the application's slots are exactly the complete links, by
\* priority, whatever has crossed on the way: what sinkHandleSlcConnectCfm and
\* sinkHandleSlcDisconnectInd make of the messages in the order they come is what the
\* library made of its links, unless it moved one up or lost one without telling.
THEOREM AlwaysListed == Spec => []ListedTrue
  <1>1. Spec => []TruthInv
    BY InitTruth, NextTruth, PTL DEF Spec
  <1> QED
    BY <1>1, InvListed, PTL

\* The state manager says connected exactly while a phone is: power off and pairing
\* mode leave the state only with every connection asked to end, and a disconnection
\* only when no device counts, unless a flag is stale.
THEOREM AlwaysConnected == Spec => []ConnectedTrue
  <1>1. Spec => []TruthInv
    BY InitTruth, NextTruth, PTL DEF Spec
  <1> QED
    BY <1>1, InvConnected, PTL

\* A headset that is on and has no phone can be paged: page scan is off outside limbo
\* and the connected state only with multipoint, while a slot says connected.
THEOREM AlwaysReached == Spec => []Reachable
  <1>1. Spec => []TruthInv
    BY InitTruth, NextTruth, PTL DEF Spec
  <1> QED
    BY <1>1, InvReachable, PTL
=============================================================================
