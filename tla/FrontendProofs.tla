---------------------------- MODULE FrontendProofs ----------------------------
(***************************************************************************)
(* The safety properties of the pages, for any tickets, any of the roles,  *)
(* and any number of requests and calls under way.                         *)
(*                                                                         *)
(* ShowsWhatItSays is about a moment with nothing in flight; what makes it *)
(* true then is a property of the queue at every moment: rows or an answer *)
(* that miss a write of their own component, and do not say so, have a     *)
(* request behind them in the queue that will set it right, and so do      *)
(* those of controls that were changed since.  To know what is in the      *)
(* queue one has to know which component sent it, which is why the types   *)
(* come first, with the components on the screen and the routes.           *)
(***************************************************************************)
EXTENDS Frontend, SequenceTheorems, TLAPS

--------------------------------------------------------------------------------
(* Sequences.                                                              *)

\* Where the element j of a sequence without its element i was, and where the element
\* k of the sequence is then.
Was(i, j) == IF j < i THEN j ELSE j + 1

Now(i, k) == IF k < i THEN k ELSE k - 1

\* The elements of a sequence, by their numbers.
LEMMA Elements ==
    ASSUME NEW S, NEW s \in Seq(S)
    PROVE  /\ Len(s) \in Nat
           /\ DOMAIN s = 1..Len(s)
           /\ \A k \in 1..Len(s) : s[k] \in S
BY LenProperties, ElementOfSeq

\* RemoveAt leaves the other elements in order.
LEMMA Removed ==
    ASSUME NEW S, NEW s \in Seq(S), NEW i \in DOMAIN s
    PROVE  /\ RemoveAt(s, i) \in Seq(S)
           /\ Len(RemoveAt(s, i)) = Len(s) - 1
           /\ \A j \in 1..(Len(s) - 1) : RemoveAt(s, i)[j] = s[Was(i, j)]
<1> DEFINE a == SubSeq(s, 1, i - 1)
           b == SubSeq(s, i + 1, Len(s))
<1>1. /\ Len(s) \in Nat /\ i \in 1..Len(s)
      /\ \A k \in 1..Len(s) : s[k] \in S
    BY Elements
<1>2. a \in Seq(S) /\ Len(a) = i - 1 /\ \A j \in 1..(i - 1) : a[j] = s[j]
    <2>1. \A k \in 1..(i - 1) : s[k] \in S
        BY <1>1
    <2> QED
        BY <1>1, <2>1, SubSeqProperties
<1>3. b \in Seq(S) /\ Len(b) = Len(s) - i /\ \A j \in 1..(Len(s) - i) : b[j] = s[i + j]
    <2>1. \A k \in (i + 1)..Len(s) : s[k] \in S
        BY <1>1
    <2> QED
        BY <1>1, <2>1, SubSeqProperties
<1> HIDE DEF a, b
<1>4. RemoveAt(s, i) = a \o b
    BY DEF RemoveAt, a, b
<1>5. /\ RemoveAt(s, i) \in Seq(S) /\ Len(RemoveAt(s, i)) = Len(s) - 1
      /\ \A j \in 1..(Len(s) - 1) : RemoveAt(s, i)[j] = IF j < i THEN s[j] ELSE s[j + 1]
    BY <1>1, <1>2, <1>3, <1>4, ConcatProperties
<1> QED
    BY <1>5 DEF Was

\* The numbers of the elements that stay, before and after.
LEMMA Renumbered ==
    ASSUME NEW n \in Nat, NEW i \in 1..n
    PROVE  /\ \A j \in 1..(n - 1) : Was(i, j) \in 1..n /\ Was(i, j) # i
           /\ \A k \in (1..n) \ {i} : Now(i, k) \in 1..(n - 1) /\ Was(i, Now(i, k)) = k
           /\ \A j \in 1..(n - 1) : \A k \in (1..n) \ {i} : k > Was(i, j) => Now(i, k) > j
BY DEF Was, Now

\* A function on the numbers of a sequence is one, too.
LEMMA Mapped ==
    ASSUME NEW S, NEW n \in Nat, NEW f, f = [k \in 1..n |-> f[k]], \A k \in 1..n : f[k] \in S
    PROVE  f \in Seq(S) /\ Len(f) = n /\ DOMAIN f = 1..n
<1>1. f \in [1..n -> S]
    OBVIOUS
<1>2. f \in Seq(S)
    BY <1>1, SeqDef
<1>3. Len(f) \in Nat /\ 1..Len(f) = 1..n
    BY <1>1, <1>2, LenProperties
<1> QED
    BY <1>1, <1>2, <1>3

--------------------------------------------------------------------------------
(* The components.                                                         *)

\* A handler sends what no other handler of its component sends.
Distinct(W) ==
    /\ \A w \in W : w.op \in {"form", "click"} /\ w.guarded \in BOOLEAN
    /\ \A w, v \in W : w.op = v.op => w = v

\* A component that reads, and reads again after its writes or shows their answers.
Reader(c) ==
    /\ c.reads = TRUE
    /\ \A w \in c.writes : w.then \in {"reload", "show"}

\* A component that never reads, and never spins.
Silent(c) ==
    /\ c.reads = FALSE /\ c.spin = "never"
    /\ ~c.refine /\ ~c.turn /\ ~c.search /\ ~c.poll /\ ~c.told
    /\ \A w \in c.writes : w.then \in {"go", "stay"}

LEMMA WriteFields ==
    ASSUME NEW g \in BOOLEAN, NEW t
    PROVE  /\ Write(g, t).op = (IF g THEN "form" ELSE "click")
           /\ Write(g, t).guarded = g
           /\ Write(g, t).then = t
BY DEF Write

LEMMA DistinctWrites ==
    ASSUME NEW t, NEW W \in SUBSET {Write(TRUE, t), Write(FALSE, t)}
    PROVE  Distinct(W) /\ \A w \in W : w.then = t
<1> DEFINE a == Write(TRUE, t)
           b == Write(FALSE, t)
<1>1. /\ a.op = "form" /\ a.guarded = TRUE /\ a.then = t
      /\ b.op = "click" /\ b.guarded = FALSE /\ b.then = t
    BY DEF Write
<1>2. \A w \in W : w = a \/ w = b
    OBVIOUS
<1> HIDE DEF a, b
<1> QED
    BY <1>1, <1>2 DEF Distinct

\* How a component is known to be of one kind or the other.
LEMMA ReaderIs ==
    ASSUME NEW c, c.reads = TRUE, NEW t \in {"reload", "show"},
           c.writes \in SUBSET {Write(TRUE, t), Write(FALSE, t)}
    PROVE  (Reader(c) \/ Silent(c)) /\ Distinct(c.writes)
BY DistinctWrites DEF Reader

LEMMA SilentIs ==
    ASSUME NEW c, c.reads = FALSE, c.spin = "never",
           c.refine = FALSE, c.turn = FALSE, c.search = FALSE, c.poll = FALSE, c.told = FALSE,
           NEW t \in {"go", "stay"}, c.writes \in SUBSET {Write(TRUE, t), Write(FALSE, t)}
    PROVE  (Reader(c) \/ Silent(c)) /\ Distinct(c.writes)
BY DistinctWrites DEF Silent

\* Every component of the tab either reads, and reads again or shows the answer after
\* its writes, or never reads and never spins.
LEMMA Kinds ==
    ASSUME NEW c \in DOMAIN Catalog
    PROVE  (Reader(Catalog[c]) \/ Silent(Catalog[c])) /\ Distinct(Catalog[c].writes)
<1>1. CASE c = "TicketListPage"
    <2>1. Catalog[c].reads = TRUE /\ Catalog[c].writes \in SUBSET {Write(TRUE, "reload"), Write(FALSE, "reload")}
        BY <1>1 DEF Catalog, Once, TicketListPage
    <2> QED
        BY <2>1, ReaderIs
<1>2. CASE c = "QueuePage"
    <2>1. Catalog[c].reads = TRUE /\ Catalog[c].writes \in SUBSET {Write(TRUE, "reload"), Write(FALSE, "reload")}
        BY <1>2 DEF Catalog, Once, QueuePage
    <2> QED
        BY <2>1, ReaderIs
<1>3. CASE c = "MyEscalationsPage"
    <2>1. Catalog[c].reads = TRUE /\ Catalog[c].writes \in SUBSET {Write(TRUE, "reload"), Write(FALSE, "reload")}
        BY <1>3 DEF Catalog, Once, MyEscalationsPage
    <2> QED
        BY <2>1, ReaderIs
<1>4. CASE c = "KanbanPage"
    <2>1. Catalog[c].reads = TRUE /\ Catalog[c].writes \in SUBSET {Write(TRUE, "reload"), Write(FALSE, "reload")}
        BY <1>4 DEF Catalog, Once, KanbanPage
    <2> QED
        BY <2>1, ReaderIs
<1>5. CASE c = "MonitorPage"
    <2>1. Catalog[c].reads = TRUE /\ Catalog[c].writes \in SUBSET {Write(TRUE, "reload"), Write(FALSE, "reload")}
        BY <1>5 DEF Catalog, Once, MonitorPage
    <2> QED
        BY <2>1, ReaderIs
<1>6. CASE c = "TimelinePage"
    <2>1. Catalog[c].reads = TRUE /\ Catalog[c].writes \in SUBSET {Write(TRUE, "reload"), Write(FALSE, "reload")}
        BY <1>6 DEF Catalog, Once, TimelinePage
    <2> QED
        BY <2>1, ReaderIs
<1>7. CASE c = "TimelineCalendar"
    <2>1. Catalog[c].reads = TRUE /\ Catalog[c].writes \in SUBSET {Write(TRUE, "reload"), Write(FALSE, "reload")}
        BY <1>7 DEF Catalog, Once, TimelineCalendar
    <2> QED
        BY <2>1, ReaderIs
<1>8. CASE c = "AllTicketsPage"
    <2>1. Catalog[c].reads = TRUE /\ Catalog[c].writes \in SUBSET {Write(TRUE, "reload"), Write(FALSE, "reload")}
        BY <1>8 DEF Catalog, Once, AllTicketsPage
    <2> QED
        BY <2>1, ReaderIs
<1>9. CASE c = "UsersPage"
    <2>1. Catalog[c].reads = TRUE /\ Catalog[c].writes \in SUBSET {Write(TRUE, "reload"), Write(FALSE, "reload")}
        BY <1>9 DEF Catalog, Once, UsersPage
    <2> QED
        BY <2>1, ReaderIs
<1>10. CASE c = "TagsPage"
    <2>1. Catalog[c].reads = TRUE /\ Catalog[c].writes \in SUBSET {Write(TRUE, "reload"), Write(FALSE, "reload")}
        BY <1>10 DEF Catalog, Once, TagsPage
    <2> QED
        BY <2>1, ReaderIs
<1>11. CASE c = "AdminCsatPage"
    <2>1. Catalog[c].reads = TRUE /\ Catalog[c].writes \in SUBSET {Write(TRUE, "show"), Write(FALSE, "show")}
        BY <1>11 DEF Catalog, Once, AdminCsatPage
    <2> QED
        BY <2>1, ReaderIs
<1>12. CASE c = "MyCsatPage"
    <2>1. Catalog[c].reads = TRUE /\ Catalog[c].writes \in SUBSET {Write(TRUE, "show"), Write(FALSE, "show")}
        BY <1>12 DEF Catalog, Once, MyCsatPage
    <2> QED
        BY <2>1, ReaderIs
<1>13. CASE c = "CsatPage"
    <2>1. Catalog[c].reads = TRUE /\ Catalog[c].writes \in SUBSET {Write(TRUE, "show"), Write(FALSE, "show")}
        BY <1>13 DEF Catalog, Once, CsatPage
    <2> QED
        BY <2>1, ReaderIs
<1>14. CASE c = "ConfigPage"
    <2>1. Catalog[c].reads = TRUE /\ Catalog[c].writes \in SUBSET {Write(TRUE, "show"), Write(FALSE, "show")}
        BY <1>14 DEF Catalog, Once, ConfigPage
    <2> QED
        BY <2>1, ReaderIs
<1>15. CASE c = "ChatRoom"
    <2>1. Catalog[c].reads = TRUE /\ Catalog[c].writes \in SUBSET {Write(TRUE, "reload"), Write(FALSE, "reload")}
        BY <1>15 DEF Catalog, Once, ChatRoom, Composer, AttachmentUploader, MessageBubble
    <2> QED
        BY <2>1, ReaderIs
<1>16. CASE c = "AppShell"
    <2>1. Catalog[c].reads = TRUE /\ Catalog[c].writes \in SUBSET {Write(TRUE, "reload"), Write(FALSE, "reload")}
        BY <1>16 DEF Catalog, Once, AppShell
    <2> QED
        BY <2>1, ReaderIs
<1>17. CASE c = "NewTicketPage"
    <2>1. /\ Catalog[c].reads = FALSE /\ Catalog[c].spin = "never"
          /\ Catalog[c].refine = FALSE /\ Catalog[c].turn = FALSE /\ Catalog[c].search = FALSE
          /\ Catalog[c].poll = FALSE /\ Catalog[c].told = FALSE
          /\ Catalog[c].writes \in SUBSET {Write(TRUE, "go"), Write(FALSE, "go")}
        BY <1>17 DEF Catalog, Once, Form, NewTicketPage
    <2> QED
        BY <2>1, SilentIs
<1>18. CASE c = "RegisterPage"
    <2>1. /\ Catalog[c].reads = FALSE /\ Catalog[c].spin = "never"
          /\ Catalog[c].refine = FALSE /\ Catalog[c].turn = FALSE /\ Catalog[c].search = FALSE
          /\ Catalog[c].poll = FALSE /\ Catalog[c].told = FALSE
          /\ Catalog[c].writes \in SUBSET {Write(TRUE, "go"), Write(FALSE, "go")}
        BY <1>18 DEF Catalog, Once, Form, RegisterPage
    <2> QED
        BY <2>1, SilentIs
<1>19. CASE c = "NotificationBell"
    <2>1. /\ Catalog[c].reads = FALSE /\ Catalog[c].spin = "never"
          /\ Catalog[c].refine = FALSE /\ Catalog[c].turn = FALSE /\ Catalog[c].search = FALSE
          /\ Catalog[c].poll = FALSE /\ Catalog[c].told = FALSE
          /\ Catalog[c].writes \in SUBSET {Write(TRUE, "go"), Write(FALSE, "go")}
        BY <1>19 DEF Catalog, Once, Form, NotificationBell
    <2> QED
        BY <2>1, SilentIs
<1>20. CASE c = "AccountSettingsPage"
    <2>1. /\ Catalog[c].reads = FALSE /\ Catalog[c].spin = "never"
          /\ Catalog[c].refine = FALSE /\ Catalog[c].turn = FALSE /\ Catalog[c].search = FALSE
          /\ Catalog[c].poll = FALSE /\ Catalog[c].told = FALSE
          /\ Catalog[c].writes \in SUBSET {Write(TRUE, "stay"), Write(FALSE, "stay")}
        BY <1>20 DEF Catalog, Once, Form, AccountSettingsPage
    <2> QED
        BY <2>1, SilentIs
<1>21. CASE c = "TicketDetailPage"
    <2>1. /\ Catalog[c].reads = FALSE /\ Catalog[c].spin = "never"
          /\ Catalog[c].refine = FALSE /\ Catalog[c].turn = FALSE /\ Catalog[c].search = FALSE
          /\ Catalog[c].poll = FALSE /\ Catalog[c].told = FALSE
          /\ Catalog[c].writes \in SUBSET {Write(TRUE, "stay"), Write(FALSE, "stay")}
        BY <1>21 DEF Catalog, Once, TicketDetailPage
    <2> QED
        BY <2>1, SilentIs
<1> QED
    BY <1>1, <1>2, <1>3, <1>4, <1>5, <1>6, <1>7, <1>8, <1>9, <1>10,
       <1>11, <1>12, <1>13, <1>14, <1>15, <1>16, <1>17, <1>18, <1>19, <1>20, <1>21 DEF Catalog

--------------------------------------------------------------------------------
(* Requests and the queue.                                                 *)

\* The answer that a read or a write is waiting for changes, or what it will say of
\* itself: nothing else of the request does.
LEMMA RequestFields ==
    ASSUME NEW r \in Requests
    PROVE  /\ r.op \in Ops /\ r.query \in Queries
           /\ r.sees \in Sights \cup {"unanswered"} /\ r.slip \in Slips
           /\ \A x \in Slips :
                /\ [r EXCEPT !.slip = x] \in Requests
                /\ [r EXCEPT !.slip = x].op = r.op /\ [r EXCEPT !.slip = x].query = r.query
                /\ [r EXCEPT !.slip = x].sees = r.sees /\ [r EXCEPT !.slip = x].slip = x
           /\ \A x \in Sights \cup {"unanswered"} :
                /\ [r EXCEPT !.sees = x] \in Requests
                /\ [r EXCEPT !.sees = x].op = r.op /\ [r EXCEPT !.sees = x].query = r.query
                /\ [r EXCEPT !.sees = x].slip = r.slip /\ [r EXCEPT !.sees = x].sees = x
           /\ \A x \in Ops :
                /\ [r EXCEPT !.op = x] \in Requests
                /\ [r EXCEPT !.op = x].op = x
<1>1. /\ r.op \in Ops /\ r.query \in Queries
      /\ r.sees \in Sights \cup {"unanswered"} /\ r.slip \in Slips
    BY DEF Requests
<1>2. ASSUME NEW x \in Slips
      PROVE  /\ [r EXCEPT !.slip = x] \in Requests
             /\ [r EXCEPT !.slip = x].op = r.op /\ [r EXCEPT !.slip = x].query = r.query
             /\ [r EXCEPT !.slip = x].sees = r.sees /\ [r EXCEPT !.slip = x].slip = x
    BY DEF Requests
<1>3. ASSUME NEW x \in Sights \cup {"unanswered"}
      PROVE  /\ [r EXCEPT !.sees = x] \in Requests
             /\ [r EXCEPT !.sees = x].op = r.op /\ [r EXCEPT !.sees = x].query = r.query
             /\ [r EXCEPT !.sees = x].slip = r.slip /\ [r EXCEPT !.sees = x].sees = x
    BY DEF Requests
<1>4. ASSUME NEW x \in Ops
      PROVE  [r EXCEPT !.op = x] \in Requests /\ [r EXCEPT !.op = x].op = x
    BY DEF Requests
<1> QED
    BY <1>1, <1>2, <1>3, <1>4

\* A request as it is sent.
LEMMA NewRequest ==
    ASSUME NEW op \in Ops, NEW q \in Queries
    PROVE  /\ Request(op, q) \in Requests
           /\ Request(op, q).op = op /\ Request(op, q).query = q
           /\ Request(op, q).sees = "unanswered" /\ Request(op, q).slip = "none"
BY DEF Request, Requests, Slips

\* The queue is a sequence of requests.
LEMMA Queue ==
    ASSUME PagesTypeOK
    PROVE  /\ Len(net) \in Nat /\ Len(net) <= MaxNet
           /\ DOMAIN net = 1..Len(net)
           /\ \A k \in 1..Len(net) : net[k] \in Requests
BY Elements DEF PagesTypeOK

\* What happened to a request, as far as the properties ask.
LEMMA MissingOf ==
    ASSUME NEW x \in Sights \cup {"unanswered"}, NEW loss \in Sights
    PROVE  /\ Missing(x, loss) \in Sights \cup {"unanswered"}
           /\ x \in Sights => Missing(x, loss) \in Sights
           /\ Missing(x, loss) = "unanswered" <=> x = "unanswered"
           /\ x = "own-missed" => Missing(x, loss) = "own-missed"
           /\ Missing(x, loss) = "own-missed" => x = "own-missed" \/ loss = "own-missed"
BY DEF Missing, Sights

LEMMA SlippedOf ==
    ASSUME PagesTypeOK, NEW i \in DOMAIN net, NEW r \in Requests
    PROVE  /\ Slipped(r, i) \in Requests
           /\ Slipped(r, i).op = r.op /\ Slipped(r, i).query = r.query
           /\ Slipped(r, i).sees = r.sees
           /\ Slipped(r, i).slip = "none" => r.slip = "none"
           /\ net[i].sees # "unanswered" /\ r.sees = "own-missed" => Slipped(r, i).slip = "lost"
<1>1. "lost" \in Slips
    BY DEF Slips
<1> QED
    BY <1>1, RequestFields DEF Slipped

\* The queue after an answer or an error: those before it in the queue are overtaken.
LEMMA RestOf ==
    ASSUME PagesTypeOK, NEW i \in DOMAIN net
    PROVE  /\ Rest(i) \in Seq(Requests) /\ Len(Rest(i)) = Len(net) - 1
           /\ \A j \in 1..(Len(net) - 1) :
                /\ Rest(i)[j].op = net[Was(i, j)].op
                /\ Rest(i)[j].query = net[Was(i, j)].query
                /\ Rest(i)[j].sees = net[Was(i, j)].sees
                /\ Rest(i)[j].slip = IF j < i THEN "overtaken" ELSE net[Was(i, j)].slip
<1> DEFINE f == [j \in DOMAIN net |->
                    IF j < i THEN [net[j] EXCEPT !.slip = "overtaken"] ELSE net[j]]
<1>1. "overtaken" \in Slips
    BY DEF Slips
<1>2. /\ Len(net) \in Nat /\ i \in 1..Len(net) /\ DOMAIN net = 1..Len(net)
      /\ \A k \in 1..Len(net) : net[k] \in Requests
    BY Queue
<1>3. \A k \in 1..Len(net) : /\ f[k] \in Requests
                             /\ f[k].op = net[k].op /\ f[k].query = net[k].query
                             /\ f[k].sees = net[k].sees
                             /\ f[k].slip = IF k < i THEN "overtaken" ELSE net[k].slip
    BY <1>1, <1>2, RequestFields
<1>4. f = [k \in 1..Len(net) |-> f[k]]
    BY <1>2
<1>5. Rest(i) = RemoveAt(f, i)
    BY DEF Rest
<1> HIDE DEF f
<1>6. f \in Seq(Requests) /\ Len(f) = Len(net) /\ i \in DOMAIN f
    BY <1>2, <1>3, <1>4, Mapped
<1>7. /\ RemoveAt(f, i) \in Seq(Requests) /\ Len(RemoveAt(f, i)) = Len(net) - 1
      /\ \A j \in 1..(Len(net) - 1) : RemoveAt(f, i)[j] = f[Was(i, j)]
    BY <1>6, Removed, Zenon
<1>8. \A j \in 1..(Len(net) - 1) : Was(i, j) \in 1..Len(net) /\ (Was(i, j) < i <=> j < i)
    BY <1>2 DEF Was
<1>9. ASSUME NEW j \in 1..(Len(net) - 1)
      PROVE  /\ Rest(i)[j].op = net[Was(i, j)].op
             /\ Rest(i)[j].query = net[Was(i, j)].query
             /\ Rest(i)[j].sees = net[Was(i, j)].sees
             /\ Rest(i)[j].slip = IF j < i THEN "overtaken" ELSE net[Was(i, j)].slip
    <2>1. Rest(i)[j] = f[Was(i, j)]
        BY <1>5, <1>7
    <2>2. Was(i, j) \in 1..Len(net) /\ (Was(i, j) < i <=> j < i)
        BY <1>8
    <2> QED
        BY <1>3, <2>1, <2>2
<1> QED
    BY <1>5, <1>7, <1>9

\* The queue without a write that failed.
FailedRest(i) == RemoveAt([j \in DOMAIN net |-> Slipped(net[j], i)], i)

LEMMA FailedRestOf ==
    ASSUME PagesTypeOK, NEW i \in DOMAIN net
    PROVE  /\ FailedRest(i) \in Seq(Requests) /\ Len(FailedRest(i)) = Len(net) - 1
           /\ \A j \in 1..(Len(net) - 1) : FailedRest(i)[j] = Slipped(net[Was(i, j)], i)
<1> DEFINE f == [j \in DOMAIN net |-> Slipped(net[j], i)]
<1>1. /\ Len(net) \in Nat /\ i \in 1..Len(net) /\ DOMAIN net = 1..Len(net)
      /\ \A k \in 1..Len(net) : net[k] \in Requests
    BY Queue
<1>2. \A k \in 1..Len(net) : f[k] = Slipped(net[k], i) /\ f[k] \in Requests
    BY <1>1, SlippedOf
<1>3. f = [k \in 1..Len(net) |-> f[k]]
    BY <1>1
<1>4. FailedRest(i) = RemoveAt(f, i)
    BY DEF FailedRest
<1> HIDE DEF f
<1>5. f \in Seq(Requests) /\ Len(f) = Len(net) /\ i \in DOMAIN f
    BY <1>1, <1>2, <1>3, Mapped
<1>6. /\ RemoveAt(f, i) \in Seq(Requests) /\ Len(RemoveAt(f, i)) = Len(net) - 1
      /\ \A j \in 1..(Len(net) - 1) : RemoveAt(f, i)[j] = f[Was(i, j)]
    BY <1>5, Removed, Zenon
<1>7. \A j \in 1..(Len(net) - 1) : Was(i, j) \in 1..Len(net)
    BY <1>1, Renumbered
<1> QED
    BY <1>2, <1>4, <1>6, <1>7

\* The queue when something happens on the server.
LEMMA NetMissesOf ==
    ASSUME PagesTypeOK, NEW loss \in Sights
    PROVE  /\ NetMisses(loss) \in Seq(Requests) /\ Len(NetMisses(loss)) = Len(net)
           /\ \A j \in 1..Len(net) :
                /\ NetMisses(loss)[j] \in Requests
                /\ NetMisses(loss)[j].op = net[j].op /\ NetMisses(loss)[j].query = net[j].query
                /\ NetMisses(loss)[j].slip = net[j].slip
                /\ NetMisses(loss)[j].sees = Missing(net[j].sees, loss)
<1>1. /\ Len(net) \in Nat /\ DOMAIN net = 1..Len(net)
      /\ \A k \in 1..Len(net) : net[k] \in Requests
    BY Queue
<1>2. ASSUME NEW k \in 1..Len(net)
      PROVE  /\ NetMisses(loss)[k] \in Requests
             /\ NetMisses(loss)[k].op = net[k].op /\ NetMisses(loss)[k].query = net[k].query
             /\ NetMisses(loss)[k].slip = net[k].slip
             /\ NetMisses(loss)[k].sees = Missing(net[k].sees, loss)
    <2>1. Missing(net[k].sees, loss) \in Sights \cup {"unanswered"}
        BY <1>1, MissingOf, RequestFields
    <2>2. NetMisses(loss)[k] = [net[k] EXCEPT !.sees = Missing(net[k].sees, loss)]
        BY <1>1 DEF NetMisses
    <2> QED
        BY <1>1, <2>1, <2>2, RequestFields
<1>3. NetMisses(loss) = [k \in 1..Len(net) |-> NetMisses(loss)[k]]
    BY <1>1 DEF NetMisses
<1> QED
    BY <1>1, <1>2, <1>3, Mapped

\* The queue when the write i is handled: those handled before it and sent after it
\* are overtaken, and every answer given so far misses it.
Handled(i) == [j \in DOMAIN net |-> IF j = i THEN [net[i] EXCEPT !.sees = "all"]
                                    ELSE Passed(NetMisses("own-missed")[j], j > i)]

LEMMA HandledOf ==
    ASSUME PagesTypeOK, NEW i \in DOMAIN net
    PROVE  /\ Handled(i) \in Seq(Requests) /\ Len(Handled(i)) = Len(net)
           /\ Handled(i)[i].sees = "all"
           /\ \A j \in 1..Len(net) :
                /\ Handled(i)[j].op = net[j].op /\ Handled(i)[j].query = net[j].query
                /\ Handled(i)[j].slip = "none" => net[j].slip = "none"
                /\ net[j].sees # "unanswered" => Handled(i)[j].sees # "unanswered"
                /\ Handled(i)[j].sees = "own-missed" /\ Handled(i)[j].slip = "none" => j < i
<1>1. /\ Len(net) \in Nat /\ i \in 1..Len(net) /\ DOMAIN net = 1..Len(net)
      /\ \A k \in 1..Len(net) : net[k] \in Requests
    BY Queue
<1>2. "overtaken" \in Slips /\ "all" \in Sights /\ "own-missed" \in Sights /\ "unanswered" \notin Sights
    BY DEF Slips, Sights
<1>3. /\ Handled(i)[i] = [net[i] EXCEPT !.sees = "all"]
      /\ \A k \in (1..Len(net)) \ {i} :
            Handled(i)[k] = Passed(NetMisses("own-missed")[k], k > i)
    BY <1>1 DEF Handled
<1>4. ASSUME NEW j \in 1..Len(net)
      PROVE  /\ Handled(i)[j] \in Requests
             /\ Handled(i)[j].op = net[j].op /\ Handled(i)[j].query = net[j].query
             /\ Handled(i)[j].slip = "none" => net[j].slip = "none"
             /\ net[j].sees # "unanswered" => Handled(i)[j].sees # "unanswered"
             /\ Handled(i)[j].sees = "own-missed" /\ Handled(i)[j].slip = "none" => j < i
    <2>1. CASE j = i
        <3>1. Handled(i)[j] = [net[j] EXCEPT !.sees = "all"]
            BY <1>3, <2>1
        <3>2. /\ Handled(i)[j] \in Requests
              /\ Handled(i)[j].op = net[j].op /\ Handled(i)[j].query = net[j].query
              /\ Handled(i)[j].slip = net[j].slip /\ Handled(i)[j].sees = "all"
            BY <1>1, <1>2, <3>1, RequestFields
        <3> QED
            BY <3>2
    <2>2. CASE j # i
        <3> DEFINE m == NetMisses("own-missed")[j]
        <3>1. /\ m \in Requests /\ m.op = net[j].op /\ m.query = net[j].query
              /\ m.slip = net[j].slip /\ m.sees = Missing(net[j].sees, "own-missed")
            BY <1>2, NetMissesOf
        <3>2. Handled(i)[j] = IF j > i /\ m.sees # "unanswered" THEN [m EXCEPT !.slip = "overtaken"]
                              ELSE m
            BY <1>3, <2>2 DEF Passed
        <3>3. m.sees = "unanswered" <=> net[j].sees = "unanswered"
            BY <1>1, <1>2, <3>1, MissingOf, RequestFields
        <3> HIDE DEF m
        <3>4. CASE j > i /\ m.sees # "unanswered"
            <4>1. /\ Handled(i)[j] \in Requests
                  /\ Handled(i)[j].op = m.op /\ Handled(i)[j].query = m.query
                  /\ Handled(i)[j].slip = "overtaken" /\ Handled(i)[j].sees = m.sees
                BY <1>2, <3>1, <3>2, <3>4, RequestFields
            <4> QED
                BY <3>1, <3>3, <4>1
        <3>5. CASE ~(j > i /\ m.sees # "unanswered")
            <4>1. m.sees = "own-missed" => j < i
                BY <1>1, <2>2, <3>5
            <4> QED
                BY <1>2, <3>1, <3>2, <3>3, <3>5, <4>1
        <3> QED
            BY <3>4, <3>5
    <2> QED
        BY <2>1, <2>2
<1>5. Handled(i) = [k \in 1..Len(net) |-> Handled(i)[k]]
    BY <1>1 DEF Handled
<1>6. Handled(i) \in Seq(Requests) /\ Len(Handled(i)) = Len(net)
    BY <1>1, <1>4, <1>5, Mapped
<1>7. Handled(i)[i].sees = "all"
    BY <1>1, <1>2, <1>3, RequestFields
<1> QED
    BY <1>4, <1>6, <1>7

\* The queue with one request more.
LEMMA Queued ==
    ASSUME NEW s \in Seq(Requests), NEW r \in Requests
    PROVE  /\ Append(s, r) \in Seq(Requests) /\ Len(Append(s, r)) = Len(s) + 1
           /\ Append(s, r)[Len(s) + 1] = r
           /\ \A k \in 1..Len(s) : Append(s, r)[k] = s[k]
BY AppendProperties, LenProperties

\* load() sends its reads after everything else, the last of them with the query q.
LEMMA LoadOf ==
    ASSUME PagesTypeOK, NEW qs \in Seq(Queries), Len(qs) > 0, Load(qs)
    PROVE  /\ net' \in Seq(Requests) /\ Len(net') = Len(net) + Len(qs)
           /\ Len(net') <= MaxNet
           /\ \A k \in 1..Len(net) : net'[k] = net[k]
           /\ \A k \in 1..Len(qs) : net'[Len(net) + k] = Request("read", qs[k])
<1> DEFINE f == [k \in DOMAIN qs |-> Request("read", qs[k])]
<1>1. Len(qs) \in Nat /\ DOMAIN qs = 1..Len(qs) /\ \A k \in 1..Len(qs) : qs[k] \in Queries
    BY Elements
<1>2. Len(net) \in Nat /\ net \in Seq(Requests)
    BY Queue DEF PagesTypeOK
<1>3. "read" \in Ops
    BY DEF Ops, ReadOps
<1>4. \A k \in 1..Len(qs) : f[k] = Request("read", qs[k]) /\ f[k] \in Requests
    BY <1>1, <1>3, NewRequest
<1>5. f = [k \in 1..Len(qs) |-> f[k]]
    BY <1>1
<1>6. net' = net \o f /\ Len(net) + Len(qs) <= MaxNet
    BY DEF Load
<1> HIDE DEF f
<1>7. f \in Seq(Requests) /\ Len(f) = Len(qs)
    BY <1>1, <1>4, <1>5, Mapped
<1>8. /\ net \o f \in Seq(Requests) /\ Len(net \o f) = Len(net) + Len(f)
      /\ \A k \in 1..(Len(net) + Len(f)) :
            (net \o f)[k] = IF k <= Len(net) THEN net[k] ELSE f[k - Len(net)]
    BY <1>2, <1>7, ConcatProperties
<1>9. \A k \in 1..Len(qs) : (net \o f)[Len(net) + k] = f[k]
    BY <1>1, <1>2, <1>7, <1>8
<1> QED
    BY <1>1, <1>2, <1>4, <1>6, <1>7, <1>8, <1>9

\* A component has a write that navigates.
Navigator == \E w \in C.writes : w.then = "go"

\* The queue of a component that is gone.
LEMMA OrphanedOf ==
    ASSUME PagesTypeOK
    PROVE  /\ Orphaned \in Seq(Requests) /\ Len(Orphaned) \in Nat
           /\ Len(Orphaned) = IF Navigator THEN Len(net) ELSE 0
           /\ \A k \in 1..Len(Orphaned) : Orphaned[k].op = "orphan"
<1>1. /\ Len(net) \in Nat /\ DOMAIN net = 1..Len(net)
      /\ \A k \in 1..Len(net) : net[k] \in Requests
    BY Queue
<1>2. CASE Navigator
    <2>1. Orphaned = [k \in 1..Len(net) |-> [net[k] EXCEPT !.op = "orphan"]]
        BY <1>1, <1>2 DEF Orphaned, Navigator
    <2>2. "orphan" \in Ops
        BY DEF Ops
    <2>3. ASSUME NEW k \in 1..Len(net)
          PROVE  Orphaned[k] \in Requests /\ Orphaned[k].op = "orphan"
        <3>1. Orphaned[k] = [net[k] EXCEPT !.op = "orphan"]
            BY <2>1
        <3> QED
            BY <1>1, <2>2, <3>1, RequestFields
    <2>4. Orphaned = [k \in 1..Len(net) |-> Orphaned[k]]
        BY <2>1
    <2>5. Orphaned \in Seq(Requests) /\ Len(Orphaned) = Len(net)
        BY <1>1, <2>3, <2>4, Mapped
    <2> QED
        BY <1>1, <1>2, <2>3, <2>5
<1>3. CASE ~Navigator
    <2>1. Orphaned = <<>>
        BY <1>3 DEF Orphaned, Navigator
    <2> QED
        BY <1>3, <2>1, EmptySeq
<1> QED
    BY <1>2, <1>3

--------------------------------------------------------------------------------
(* What a step does to the watched component.                              *)

\* What is in flight was sent by the watched component; if that is gone, by a form of
\* it that navigates.
Owned(op) ==
    /\ op \in ReadOps => C.reads
    /\ op = "orphan" => Navigator
    /\ op \notin ReadOps \cup {"orphan"} => \E w \in C.writes : w.op = op
    /\ ~mounted => op = "orphan" \/ KeepsRows

PagesInv ==
    /\ watched \in DOMAIN Catalog
    /\ PagesTypeOK
    /\ \A k \in 1..Len(net) : Owned(net[k].op)
    /\ loading => \E k \in 1..Len(net) : net[k].op \in ReadOps

\* A step to another place takes the component off the screen or leaves it alone.
LEMMA RerenderPages ==
    Rerender => UNCHANGED pageVars \/ Disappear
BY DEF Rerender

\* Every step, as far as the watched component is concerned.
LEMMA PageSteps ==
    ASSUME [Next]_vars
    PROVE  \/ UNCHANGED pageVars
           \/ Disappear
           \/ StepBack
           \/ Reload
           \/ Appear
           \/ RefineRows \/ TurnPage \/ SearchRows
           \/ \E w \in C.writes : Submit(w)
           \/ mounted /\ (C.poll \/ C.told) /\ ReadAgain
           \/ OthersWrite
           \/ \E i \in DOMAIN net :
                \/ Answer(i) \/ ReadAnswered(i) \/ WriteAnswered(i) \/ Gone(i)
                \/ ReadFails(i) \/ WriteFails(i)
<1>1. CASE UNCHANGED vars \/ CalmDown
    BY <1>1 DEF vars, CalmDown
<1>2. CASE Disturbance
    BY <1>2, RerenderPages
    DEF Disturbance, FollowLink, GoBack, Login, Logout, UserLost, ShowEvents, Enter, Hide,
        ClickControl, ClickWrite, Tell, Told, ServerChanges, ClickAction, TicketChanges, Fails, CallFails, LockLapses, OnPage,
        OnTicketPage
<1>3. CASE \/ Redirected \/ UserKnown \/ Mount \/ Poll \/ ReadTicketAgain \/ KeepLock
           \/ \E i \in DOMAIN calls : CallAnswered(i)
           \/ \E t \in Tickets \ beats : LockLapses(t)
    BY <1>3, RerenderPages
    DEF Redirected, UserKnown, Mount, Enter, Poll, PollTick, ReadTicketAgain, KeepLock, CallAnswered,
        LockLapses, OnPage, OnTicketPage
<1>4. CASE \E i \in DOMAIN net : ServerAnswers(i) \/ Arrives(i)
    BY <1>4 DEF ServerAnswers, Arrives, OnPage
<1> QED
    BY <1>1, <1>2, <1>3, <1>4 DEF Next, Step

\* The component watched is the same one all along.
LEMMA SameComponent ==
    ASSUME [Next]_vars
    PROVE  watched' = watched /\ C' = C
<1>1. watched' = watched
    BY PageSteps DEF pageVars, Disappear, StepBack, Reload, Appear, RefineRows, TurnPage, SearchRows, Submit,
        ReadAgain, OthersWrite, Answer, ReadAnswered, WriteAnswered, Gone, ReadFails, WriteFails
<1> QED
    BY <1>1 DEF C

\* What is known of the watched component, from the catalog.
LEMMA WatchedKind ==
    ASSUME PagesInv
    PROVE  /\ Reader(C) \/ Silent(C)
           /\ Distinct(C.writes)
           /\ Navigator => Silent(C)
           /\ \A w \in C.writes : w.op \in Ops /\ w.op \notin ReadOps \cup {"orphan"}
           /\ KeepsRows => C.writes = {}
<1>1. (Reader(C) \/ Silent(C)) /\ Distinct(C.writes)
    BY Kinds DEF PagesInv, C
<1>2. Navigator => Silent(C)
    BY <1>1 DEF Navigator, Reader
<1>3. \A w \in C.writes : w.op \in Ops /\ w.op \notin ReadOps \cup {"orphan"}
    BY <1>1 DEF Distinct, Ops, ReadOps
<1>4. Catalog["TimelinePage"].writes = {}
    BY DEF Catalog, TimelinePage, Once
<1> QED
    BY <1>1, <1>2, <1>3, <1>4 DEF KeepsRows, C

--------------------------------------------------------------------------------
(* The types of the watched component, and its spinner.                    *)

RowsType == [query : Queries \cup {NoQuery}, sees : Sights, slip : Slips]

SameWatched == watched' = watched /\ C' = C

\* What is left to show of a step that does not mount or unmount the component.
LEMMA StaysInv ==
    ASSUME PagesInv, SameWatched, UNCHANGED mounted,
           query' \in Queries, rows' \in RowsType, loading' \in BOOLEAN,
           net' \in Seq(Requests), Len(net') <= MaxNet,
           \A k \in 1..Len(net') : Owned(net'[k].op),
           loading' => \E k \in 1..Len(net') : net'[k].op \in ReadOps
    PROVE  PagesInv'
<1>1. /\ mounted' <=> mounted
      /\ Navigator' <=> Navigator
      /\ KeepsRows' <=> KeepsRows
      /\ C' = C
    BY DEF Navigator, KeepsRows, SameWatched
<1>2. (\A k \in 1..Len(net) : Owned(net[k].op))'
    BY <1>1 DEF Owned
<1>3. PagesTypeOK'
    BY DEF PagesInv, PagesTypeOK, RowsType
<1> QED
    BY <1>2, <1>3 DEF PagesInv, SameWatched

\* What PagesInv says of the state before a step.
LEMMA Before ==
    ASSUME PagesInv
    PROVE  /\ PagesTypeOK /\ mounted \in BOOLEAN /\ query \in Queries /\ rows \in RowsType
           /\ loading \in BOOLEAN /\ net \in Seq(Requests)
           /\ Len(net) \in Nat /\ Len(net) <= MaxNet /\ DOMAIN net = 1..Len(net)
           /\ \A k \in 1..Len(net) : net[k] \in Requests /\ Owned(net[k].op)
           /\ loading => \E k \in 1..Len(net) : net[k].op \in ReadOps
BY Queue DEF PagesInv, PagesTypeOK, RowsType

\* Reads are sent by components that read.
LEMMA ReadIsOwned ==
    ASSUME mounted, C.reads, NEW op \in ReadOps PROVE Owned(op)
BY DEF Owned, ReadOps

\* load(), by a component that reads.
LEMMA LoadInv ==
    ASSUME PagesInv, SameWatched, mounted, C.reads, UNCHANGED <<mounted, rows>>,
           query' \in Queries, NEW qs \in Seq(Queries), Len(qs) > 0, Load(qs)
    PROVE  PagesInv'
<1>1. /\ net' \in Seq(Requests) /\ Len(net') = Len(net) + Len(qs) /\ Len(net') <= MaxNet
      /\ \A k \in 1..Len(net) : net'[k] = net[k]
      /\ \A k \in 1..Len(qs) : net'[Len(net) + k] = Request("read", qs[k])
    BY Before, LoadOf
<1>2. Len(qs) \in Nat \ {0} /\ \A k \in 1..Len(qs) : qs[k] \in Queries
    BY Elements
<1>3. "read" \in Ops /\ "read" \in ReadOps /\ Owned("read")
    BY ReadIsOwned DEF Ops, ReadOps
<1>4. \A k \in 1..Len(qs) : net'[Len(net) + k].op = "read"
    BY <1>1, <1>2, <1>3, NewRequest
<1>5. ASSUME NEW k \in 1..Len(net') PROVE Owned(net'[k].op)
    <2>1. CASE k \in 1..Len(net)
        BY <1>1, <2>1, Before
    <2>2. CASE k \notin 1..Len(net)
        <3>1. k - Len(net) \in 1..Len(qs) /\ k = Len(net) + (k - Len(net))
            BY <1>1, <1>2, <2>2, Before
        <3>2. net'[k].op = "read"
            BY <1>4, <3>1
        <3> QED
            BY <1>3, <3>2
    <2> QED
        BY <2>1, <2>2
<1>6. \E k \in 1..Len(net') : net'[k].op \in ReadOps
    <2>1. Len(net) + 1 \in 1..Len(net') /\ 1 \in 1..Len(qs)
        BY <1>1, <1>2, Before
    <2> QED
        BY <1>3, <1>4, <2>1
<1>7. loading' \in BOOLEAN
    BY Before DEF Load, SpinsAgain
<1> QED
    BY <1>1, <1>5, <1>6, <1>7, StaysInv, Before

\* A request more, a write.
LEMMA SubmitInv ==
    ASSUME PagesInv, SameWatched, NEW w \in C.writes, Submit(w)
    PROVE  PagesInv'
<1>1. /\ mounted /\ Len(net) < MaxNet /\ net' = Append(net, Request(w.op, query))
      /\ UNCHANGED <<mounted, query, rows, loading>>
    BY DEF Submit, Usable, viewVars
<1>2. w.op \in Ops /\ Owned(w.op)
    BY <1>1, WatchedKind DEF Owned
<1>3. Request(w.op, query) \in Requests /\ Request(w.op, query).op = w.op
    BY <1>2, Before, NewRequest
<1>4. /\ net' \in Seq(Requests) /\ Len(net') = Len(net) + 1
      /\ net'[Len(net) + 1] = Request(w.op, query) /\ \A k \in 1..Len(net) : net'[k] = net[k]
    BY <1>1, <1>3, Before, Queued
<1>5. \A k \in 1..Len(net') : k \in 1..Len(net) \/ k = Len(net) + 1
    BY <1>4, Before
<1>6. \A k \in 1..Len(net') : Owned(net'[k].op)
    BY <1>2, <1>3, <1>4, <1>5, Before
<1>7. loading' => \E k \in 1..Len(net') : net'[k].op \in ReadOps
    BY <1>1, <1>4, Before
<1>8. Len(net') <= MaxNet
    BY <1>1, <1>4, Before, PagesAssumption
<1> QED
    BY <1>1, <1>4, <1>6, <1>7, <1>8, StaysInv, Before

\* A request less, and no read if the spinner goes on.
LEMMA EndsInv ==
    ASSUME PagesInv, SameWatched, UNCHANGED <<mounted, query>>, NEW i \in DOMAIN net,
           net' \in Seq(Requests), Len(net') = Len(net) - 1,
           \A j \in 1..(Len(net) - 1) : net'[j].op = net[Was(i, j)].op,
           rows' \in RowsType, loading' \in BOOLEAN,
           loading' => loading /\ net[i].op \notin ReadOps
    PROVE  PagesInv'
<1>1. Len(net) \in Nat /\ i \in 1..Len(net)
    BY Before
<1>2. /\ \A j \in 1..(Len(net) - 1) : Was(i, j) \in 1..Len(net)
      /\ \A k \in (1..Len(net)) \ {i} : Now(i, k) \in 1..(Len(net) - 1) /\ Was(i, Now(i, k)) = k
    BY <1>1, Renumbered
<1>3. \A k \in 1..Len(net') : Owned(net'[k].op)
    BY <1>2, Before
<1>4. ASSUME loading' PROVE \E k \in 1..Len(net') : net'[k].op \in ReadOps
    <2>1. PICK k \in 1..Len(net) : net[k].op \in ReadOps
        BY <1>4, Before
    <2>2. k # i
        BY <1>4, <2>1
    <2>3. Now(i, k) \in 1..Len(net') /\ net'[Now(i, k)].op = net[k].op
        BY <1>2, <2>2
    <2> QED
        BY <2>1, <2>3
<1>5. Len(net') <= MaxNet
    BY <1>1, Before, PagesAssumption
<1> QED
    BY <1>3, <1>4, <1>5, StaysInv, Before

\* No request more or less.
LEMMA ChangesInv ==
    ASSUME PagesInv, SameWatched, UNCHANGED <<mounted, query, loading>>,
           net' \in Seq(Requests), Len(net') = Len(net),
           \A k \in 1..Len(net) : net'[k].op = net[k].op,
           rows' \in RowsType
    PROVE  PagesInv'
<1>1. \A k \in 1..Len(net') : Owned(net'[k].op)
    BY Before
<1>2. loading' => \E k \in 1..Len(net') : net'[k].op \in ReadOps
    BY Before
<1> QED
    BY <1>1, <1>2, StaysInv, Before

\* The rows and the answers shown in place of them.
LEMMA RowsTypes ==
    ASSUME PagesInv
    PROVE  /\ Blank \in RowsType
           /\ \A loss \in Sights : RowsMiss(loss) \in RowsType
           /\ \A i \in DOMAIN net : Slipped(rows, i) \in RowsType
           /\ [rows EXCEPT !.slip = "lost"] \in RowsType
           /\ \A r \in Requests : r.sees # "unanswered" =>
                Shown(r) \in RowsType /\ Late(Shown(r)) \in RowsType
<1>1. "lost" \in Slips /\ "none" \in Slips /\ "old-controls" \in Slips /\ "all" \in Sights
    BY DEF Slips, Sights
<1>2. rows \in RowsType
    BY Before
<1>3. Blank \in RowsType
    BY <1>1 DEF Blank, RowsType
<1>4. \A x \in Slips : [rows EXCEPT !.slip = x] \in RowsType
    BY <1>2 DEF RowsType
<1>5. ASSUME NEW loss \in Sights PROVE RowsMiss(loss) \in RowsType
    <2>1. rows.sees \in Sights
        BY <1>2 DEF RowsType
    <2>2. Missing(rows.sees, loss) \in Sights
        BY <2>1, MissingOf
    <2> QED
        BY <1>2, <2>2 DEF RowsMiss, RowsType
<1>6. \A i \in DOMAIN net : Slipped(rows, i) \in RowsType
    BY <1>1, <1>2, <1>4 DEF Slipped
<1>7. ASSUME NEW r \in Requests, r.sees # "unanswered"
      PROVE  Shown(r) \in RowsType /\ Late(Shown(r)) \in RowsType
    <2>1. Shown(r) \in RowsType
        BY <1>7, RequestFields DEF Shown, RowsType
    <2> QED
        BY <1>1, <2>1 DEF Late, RowsType
<1> QED
    BY <1>1, <1>3, <1>4, <1>5, <1>6, <1>7

\* Controls: filters, pages and the search.
LEMMA ControlsInv ==
    ASSUME PagesInv, SameWatched, RefineRows \/ TurnPage \/ SearchRows
    PROVE  PagesInv'
<1>1. mounted /\ C.reads /\ UNCHANGED <<mounted, rows>>
    BY WatchedKind DEF RefineRows, TurnPage, SearchRows, Pager, Usable, Reader, Silent
<1>2. query \in Queries
    BY Before
<1>3. CASE RefineRows
    <2> DEFINE early == [query EXCEPT !.filter = 1 - @]
    <2>1. early \in Queries /\ query' \in Queries
        BY <1>2, <1>3 DEF RefineRows, Queries
    <2>2. Load(<<query'>>) \/ Load(<<early, query'>>)
        <3>1. CASE early = query'
            BY <1>3, <3>1 DEF RefineRows
        <3>2. CASE early # query'
            BY <1>3, <3>2 DEF RefineRows
        <3> QED
            BY <3>1, <3>2
    <2> HIDE DEF early
    <2>3. /\ <<query'>> \in Seq(Queries) /\ Len(<<query'>>) > 0
          /\ <<early, query'>> \in Seq(Queries) /\ Len(<<early, query'>>) > 0
        BY <2>1
    <2> QED
        BY <1>1, <2>1, <2>2, <2>3, LoadInv
<1>4. CASE TurnPage
    <2>1. query' \in Queries
        BY <1>2, <1>4 DEF TurnPage, Queries
    <2>2. <<query'>> \in Seq(Queries) /\ Len(<<query'>>) > 0
        BY <2>1
    <2>3. Load(<<query'>>)
        BY <1>4 DEF TurnPage
    <2> QED
        BY <1>1, <2>1, <2>2, <2>3, LoadInv
<1>5. CASE SearchRows
    <2>1. query' \in Queries
        BY <1>2, <1>5 DEF SearchRows, Queries
    <2>2. Load(<<query>>) \/ Load(<<query, query'>>)
        BY <1>5 DEF SearchRows
    <2>3. /\ <<query>> \in Seq(Queries) /\ Len(<<query>>) > 0
          /\ <<query, query'>> \in Seq(Queries) /\ Len(<<query, query'>>) > 0
        BY <1>2, <2>1
    <2> QED
        BY <1>1, <2>1, <2>2, <2>3, LoadInv
<1> QED
    BY <1>3, <1>4, <1>5

\* Requests and answers: what the server does, answers and errors.
LEMMA ServerInv ==
    ASSUME PagesInv, SameWatched, OthersWrite \/ \E i \in DOMAIN net : Answer(i)
    PROVE  PagesInv'
<1>1. "others-missed" \in Sights /\ "own-missed" \in Sights /\ "all" \in Sights
    BY DEF Sights
<1>2. CASE OthersWrite
    BY <1>1, <1>2, NetMissesOf, RowsTypes, ChangesInv, Before DEF OthersWrite
<1>3. ASSUME NEW i \in DOMAIN net, Answer(i), net[i].op \in ReadOps PROVE PagesInv'
    <2>1. /\ net' = [net EXCEPT ![i].sees = "all"]
          /\ UNCHANGED <<mounted, query, loading, rows>>
        BY <1>3 DEF Answer
    <2>2. i \in 1..Len(net) /\ net[i] \in Requests
        BY Before
    <2>3. [net[i] EXCEPT !.sees = "all"] \in Requests /\ [net[i] EXCEPT !.sees = "all"].op = net[i].op
        BY <1>1, <2>2, RequestFields
    <2>4. net' = [net EXCEPT ![i] = [net[i] EXCEPT !.sees = "all"]]
        BY <2>1
    <2>5. /\ net' \in Seq(Requests) /\ Len(net') = Len(net)
          /\ \A k \in 1..Len(net) :
                net'[k] = IF k = i THEN [net[i] EXCEPT !.sees = "all"] ELSE net[k]
        BY <2>2, <2>3, <2>4, ExceptSeq, Before
    <2> QED
        BY <2>1, <2>3, <2>5, ChangesInv, Before
<1>4. ASSUME NEW i \in DOMAIN net, Answer(i), net[i].op \notin ReadOps PROVE PagesInv'
    <2>1. /\ net' = Handled(i) /\ rows' = RowsMiss("own-missed")
          /\ UNCHANGED <<mounted, query, loading>>
        BY <1>4 DEF Answer, Handled
    <2> QED
        BY <1>1, <2>1, HandledOf, RowsTypes, ChangesInv, Before
<1> QED
    BY <1>2, <1>3, <1>4

LEMMA ReadEndsInv ==
    ASSUME PagesInv, SameWatched, NEW i \in DOMAIN net, ReadAnswered(i) \/ ReadFails(i)
    PROVE  PagesInv'
<1>1. /\ net' = Rest(i) /\ loading' = FALSE /\ UNCHANGED <<mounted, query>>
    BY DEF ReadAnswered, ReadFails
<1>2. rows' \in RowsType
    BY RowsTypes, Before DEF ReadAnswered, ReadFails
<1> QED
    BY <1>1, <1>2, RestOf, EndsInv, Before

LEMMA WriteFailsInv ==
    ASSUME PagesInv, SameWatched, NEW i \in DOMAIN net, WriteFails(i)
    PROVE  PagesInv'
<1>1. /\ net' = FailedRest(i) /\ rows' = Slipped(rows, i) /\ UNCHANGED <<mounted, query, loading>>
      /\ net[i].op \notin ReadOps
    BY DEF WriteFails, FailedRest
<1>2. i \in 1..Len(net) /\ \A j \in 1..(Len(net) - 1) : Was(i, j) \in 1..Len(net)
    BY Before, Renumbered
<1>3. ASSUME NEW j \in 1..(Len(net) - 1) PROVE net'[j].op = net[Was(i, j)].op
    <2>1. net'[j] = Slipped(net[Was(i, j)], i)
        BY <1>1, FailedRestOf, Before
    <2>2. net[Was(i, j)] \in Requests
        BY <1>2, Before
    <2> QED
        BY <2>1, <2>2, SlippedOf, Before
<1>4. net' \in Seq(Requests) /\ Len(net') = Len(net) - 1
    BY <1>1, FailedRestOf, Before
<1>5. rows' \in RowsType
    BY <1>1, RowsTypes
<1>6. loading' \in BOOLEAN /\ (loading' => loading /\ net[i].op \notin ReadOps)
    BY <1>1, Before
<1>7. UNCHANGED <<mounted, query>>
    BY <1>1
<1> QED
    BY <1>3, <1>4, <1>5, <1>6, <1>7, EndsInv

\* The read that a write awaits.
Reread(i) ==
    Late(Request(IF WriteOf(net[i].op).guarded THEN "reread" ELSE "read", net[i].query))

LEMMA RereadOf ==
    ASSUME PagesInv, NEW i \in DOMAIN net
    PROVE  /\ Reread(i) \in Requests /\ Reread(i).op \in ReadOps
           /\ Reread(i).sees = "unanswered"
           /\ Reread(i).slip = "none" => Reread(i).query = query
<1>1. net[i].query \in Queries
    BY RequestFields, Before
<1>2. PICK op \in {"read", "reread"} :
        Reread(i) = Late(Request(op, net[i].query))
    BY DEF Reread
<1>3. op \in Ops /\ op \in ReadOps
    BY DEF Ops, ReadOps
<1> DEFINE r == Request(op, net[i].query)
<1>4. /\ r \in Requests /\ r.op = op /\ r.query = net[i].query
      /\ r.sees = "unanswered" /\ r.slip = "none"
    BY <1>1, <1>3, NewRequest
<1> HIDE DEF r
<1>5. Late(r) = IF r.query = query THEN [r EXCEPT !.slip = "none"]
                ELSE [r EXCEPT !.slip = "old-controls"]
    BY <1>4 DEF Late
<1>6. "none" \in Slips /\ "old-controls" \in Slips
    BY DEF Slips
<1>7. /\ Late(r) \in Requests /\ Late(r).op = op /\ Late(r).sees = "unanswered"
      /\ Late(r).slip = "none" => Late(r).query = query
    <2>1. CASE r.query = query
        BY <1>4, <1>5, <1>6, <2>1, RequestFields
    <2>2. CASE r.query # query
        BY <1>4, <1>5, <1>6, <2>2, RequestFields
    <2> QED
        BY <2>1, <2>2
<1> QED
    BY <1>2, <1>3, <1>7 DEF r

\* The three ends of an answered write that does not navigate.
LEMMA WriteAnsweredCases ==
    ASSUME PagesInv, NEW i \in DOMAIN net, WriteAnswered(i)
    PROVE  /\ mounted /\ UNCHANGED <<mounted, query>>
           /\ net[i].op \notin ReadOps /\ net[i].sees # "unanswered"
           /\ \/ /\ C.reads /\ net' = Append(RemoveAt(net, i), Reread(i))
                 /\ loading' = (loading \/ SpinsAgain) /\ UNCHANGED rows
              \/ /\ C.reads /\ net' = Rest(i)
                 /\ rows' = Late(Shown(net[i])) /\ UNCHANGED loading
              \/ /\ ~C.reads /\ net' = RemoveAt(net, i) /\ UNCHANGED <<rows, loading>>
<1> DEFINE w == WriteOf(net[i].op)
<1>1. net[i].op \notin ReadOps \cup {"orphan"} /\ Owned(net[i].op)
    BY Before DEF WriteAnswered
<1>2. mounted /\ \E v \in C.writes : v.op = net[i].op
    BY <1>1, WatchedKind DEF Owned
<1>3. w \in C.writes /\ w.op = net[i].op
    BY <1>2 DEF WriteOf
<1>4. w.then \in {"reload", "show"} => C.reads
    BY <1>3, WatchedKind DEF Silent, Reader
<1>5. w.then = "stay" => ~C.reads
    BY <1>3, WatchedKind DEF Silent, Reader
<1>6. \/ w.then = "reload" /\ ThenReload(w, i)
      \/ /\ w.then = "show" /\ rows' = Late(Shown(net[i])) /\ net' = Rest(i) /\ UNCHANGED loading
      \/ w.then = "stay" /\ net' = RemoveAt(net, i) /\ UNCHANGED <<rows, loading>>
    BY DEF WriteAnswered
<1>7. ThenReload(w, i) => /\ net' = Append(RemoveAt(net, i), Reread(i))
                          /\ loading' = (loading \/ SpinsAgain) /\ UNCHANGED rows
    BY DEF ThenReload, Reread
<1> HIDE DEF w
<1> QED
    BY <1>1, <1>2, <1>4, <1>5, <1>6, <1>7 DEF WriteAnswered

LEMMA WriteAnsweredInv ==
    ASSUME PagesInv, SameWatched, NEW i \in DOMAIN net, WriteAnswered(i)
    PROVE  PagesInv'
<1>1. /\ mounted /\ UNCHANGED <<mounted, query>> /\ net[i].op \notin ReadOps
      /\ net[i].sees # "unanswered" /\ i \in 1..Len(net) /\ net[i] \in Requests
    BY WriteAnsweredCases, Before
<1>2. /\ RemoveAt(net, i) \in Seq(Requests) /\ Len(RemoveAt(net, i)) = Len(net) - 1
      /\ \A j \in 1..(Len(net) - 1) : RemoveAt(net, i)[j] = net[Was(i, j)]
    BY Removed, Before
<1>3. CASE /\ C.reads /\ net' = Append(RemoveAt(net, i), Reread(i))
           /\ loading' = (loading \/ SpinsAgain) /\ UNCHANGED rows
    <2>1. Reread(i) \in Requests /\ Reread(i).op \in ReadOps
        BY RereadOf
    <2>2. /\ net' \in Seq(Requests) /\ Len(net') = Len(net)
          /\ net'[Len(net)] = Reread(i)
          /\ \A j \in 1..(Len(net) - 1) : net'[j] = net[Was(i, j)]
        BY <1>2, <1>3, <2>1, Queued, Before
    <2>3. \A j \in 1..(Len(net) - 1) : Was(i, j) \in 1..Len(net)
        BY <1>1, Renumbered, Before
    <2>4. ASSUME NEW k \in 1..Len(net') PROVE Owned(net'[k].op)
        <3>1. CASE k = Len(net)
            BY <1>1, <1>3, <2>1, <2>2, <3>1, ReadIsOwned
        <3>2. CASE k # Len(net)
            <4>1. k \in 1..(Len(net) - 1)
                BY <2>2, <3>2, Before
            <4> QED
                BY <2>2, <2>3, <4>1, Before
        <3> QED
            BY <3>1, <3>2
    <2>5. \E k \in 1..Len(net') : net'[k].op \in ReadOps
        BY <1>1, <2>1, <2>2, Before
    <2>6. loading' \in BOOLEAN
        BY <1>3, Before DEF SpinsAgain
    <2> QED
        BY <1>1, <1>3, <2>2, <2>4, <2>5, <2>6, StaysInv, Before
<1>4. CASE C.reads /\ net' = Rest(i) /\ rows' = Late(Shown(net[i])) /\ UNCHANGED loading
    BY <1>1, <1>4, RestOf, RowsTypes, EndsInv, Before
<1>5. CASE ~C.reads /\ net' = RemoveAt(net, i) /\ UNCHANGED <<rows, loading>>
    BY <1>1, <1>2, <1>5, EndsInv, Before
<1> QED
    BY <1>3, <1>4, <1>5, WriteAnsweredCases

\* A component that appears, with its first read.
LEMMA AppearInv ==
    ASSUME PagesInv, SameWatched, Appear
    PROVE  PagesInv'
<1>1. /\ mounted' = TRUE /\ query' = First /\ rows' \in {rows, Blank}
      /\ loading' = (C.spin # "never")
    BY DEF Appear
<1>2. First \in Queries /\ rows' \in RowsType
    BY <1>1, Before DEF First, Queries, RowsType, Blank, Sights, Slips
<1>3. Navigator' <=> Navigator
    BY DEF Navigator, SameWatched
<1>4. \A op \in Ops : Owned(op) => Owned(op)'
    BY <1>1, <1>3 DEF Owned, SameWatched
<1>5. CASE C.reads
    <2>1. net' = Append(net, Request("read", First)) /\ Len(net) < MaxNet
        BY <1>5 DEF Appear
    <2>2. "read" \in Ops /\ "read" \in ReadOps
        BY DEF Ops, ReadOps
    <2>3. Request("read", First) \in Requests /\ Request("read", First).op = "read"
        BY <1>2, <2>2, NewRequest
    <2>4. Owned("read")'
        BY <1>1, <1>5 DEF Owned, SameWatched, ReadOps
    <2>5. /\ net' \in Seq(Requests) /\ Len(net') = Len(net) + 1
          /\ net'[Len(net) + 1].op = "read" /\ \A k \in 1..Len(net) : net'[k] = net[k]
        BY <2>1, <2>3, Queued, Before
    <2>6. ASSUME NEW k \in 1..Len(net') PROVE \E op \in Ops : net'[k].op = op /\ Owned(op)'
        <3>1. CASE k \in 1..Len(net)
            BY <1>4, <2>5, <3>1, Before DEF Requests
        <3>2. CASE k \notin 1..Len(net)
            BY <2>2, <2>4, <2>5, <3>2, Before
        <3> QED
            BY <3>1, <3>2
    <2>7. PagesTypeOK'
        BY <1>1, <1>2, <2>1, <2>5, Before, PagesAssumption DEF PagesTypeOK, RowsType
    <2>8. \E k \in 1..Len(net') : net'[k].op \in ReadOps
        BY <2>2, <2>5, Before
    <2> QED
        BY <1>1, <2>6, <2>7, <2>8 DEF PagesInv, SameWatched, Owned
<1>6. CASE ~C.reads
    <2>1. net' = net /\ loading' = FALSE
        BY <1>1, <1>6, WatchedKind DEF Appear, Reader, Silent
    <2>2. (\A k \in 1..Len(net) : Owned(net[k].op))'
        BY <1>3, <1>4, <2>1, Before DEF Requests, Owned, SameWatched
    <2>3. PagesTypeOK'
        BY <1>1, <1>2, <2>1, Before DEF PagesTypeOK, RowsType
    <2> QED
        BY <2>1, <2>2, <2>3 DEF PagesInv, SameWatched
<1> QED
    BY <1>5, <1>6

\* One that goes.
LEMMA DisappearInv ==
    ASSUME PagesInv, SameWatched, Disappear
    PROVE  PagesInv'
<1>1. /\ mounted' = FALSE /\ query' = First /\ rows' = Blank /\ loading' = FALSE
      /\ net' = Orphaned
    BY DEF Disappear
<1>2. First \in Queries /\ rows' \in RowsType
    BY <1>1, RowsTypes DEF First, Queries
<1>3. Navigator' <=> Navigator
    BY DEF Navigator, SameWatched
<1>4. /\ net' \in Seq(Requests) /\ Len(net') <= MaxNet
      /\ \A k \in 1..Len(net') : net'[k].op = "orphan" /\ Navigator
    BY <1>1, OrphanedOf, Before, PagesAssumption
<1>5. (\A k \in 1..Len(net) : Owned(net[k].op))'
    BY <1>1, <1>3, <1>4 DEF Owned, ReadOps
<1>6. PagesTypeOK'
    BY <1>1, <1>2, <1>4 DEF PagesTypeOK, RowsType
<1> QED
    BY <1>1, <1>5, <1>6 DEF PagesInv, SameWatched

\* One that goes on without being seen.
LEMMA StepBackInv ==
    ASSUME PagesInv, SameWatched, StepBack
    PROVE  PagesInv'
<1>1. UNCHANGED <<query, rows, loading, net>> /\ mounted' = FALSE /\ KeepsRows'
    BY DEF StepBack, SameWatched, KeepsRows
<1>2. Navigator' <=> Navigator
    BY DEF Navigator, SameWatched
<1>3. (\A k \in 1..Len(net) : Owned(net[k].op))'
    BY <1>1, <1>2, Before DEF Owned, SameWatched
<1> QED
    BY <1>1, <1>3, Before DEF PagesInv, PagesTypeOK, SameWatched

LEMMA ReloadInv ==
    ASSUME PagesInv, SameWatched, Reload
    PROVE  PagesInv'
<1>1. /\ mounted' = FALSE /\ query' = First /\ rows' = Blank /\ loading' = FALSE /\ net' = <<>>
    BY DEF Reload
<1>2. First \in Queries /\ rows' \in RowsType
    BY <1>1, RowsTypes DEF First, Queries
<1>3. net' \in Seq(Requests) /\ Len(net') = 0
    BY <1>1, EmptySeq
<1>4. Len(net') <= MaxNet
    BY <1>3, PagesAssumption
<1>5. PagesTypeOK'
    <2>1. mounted' \in BOOLEAN /\ loading' \in BOOLEAN /\ query' \in Queries
        BY <1>1, <1>2
    <2> QED
        BY <1>2, <1>3, <1>4, <2>1 DEF PagesTypeOK, RowsType
<1> QED
    BY <1>1, <1>3, <1>5 DEF PagesInv, SameWatched

\* A component that navigates does not spin.
LEMMA GoneInv ==
    ASSUME PagesInv, SameWatched, NEW i \in DOMAIN net, Gone(i)
    PROVE  PagesInv' /\ Navigator
<1>1. /\ Navigates(net[i].op) /\ UNCHANGED <<query, rows, loading>>
      /\ mounted' \in BOOLEAN /\ (mounted' => mounted)
      /\ net' = RemoveAt(IF mounted /\ ~mounted' THEN Orphaned ELSE net, i)
    BY Before DEF Gone, Goes
<1>2. Navigator
    BY <1>1, Before DEF Navigates, Navigator, Owned
<1>3. C.reads = FALSE /\ (Navigator' <=> Navigator) /\ (KeepsRows' <=> KeepsRows)
    BY <1>2, WatchedKind DEF Navigator, KeepsRows, SameWatched, Silent
<1>4. ~loading
    BY <1>3, Before DEF Owned
<1>5. PICK s \in {net, Orphaned} : s = IF mounted /\ ~mounted' THEN Orphaned ELSE net
    OBVIOUS
<1>6. /\ s \in Seq(Requests) /\ Len(s) = Len(net) /\ i \in DOMAIN s
    BY <1>2, <1>5, OrphanedOf, Elements, Before
<1>7. /\ net' \in Seq(Requests) /\ Len(net') = Len(net) - 1
      /\ \A j \in 1..(Len(net) - 1) : net'[j] = s[Was(i, j)] /\ Was(i, j) \in 1..Len(net)
    <2>1. net' = RemoveAt(s, i)
        BY <1>1, <1>5
    <2>2. \A j \in 1..(Len(net) - 1) : Was(i, j) \in 1..Len(net)
        BY Renumbered, Before
    <2> QED
        BY <1>6, <2>1, <2>2, Removed
<1>8. \A k \in 1..Len(net) : s[k].op = "orphan" \/ (mounted' = mounted /\ s[k].op = net[k].op)
    BY <1>1, <1>2, <1>5, OrphanedOf, Before
<1>9. (\A k \in 1..Len(net) : Owned(net[k].op))'
    <2>1. ASSUME NEW j \in 1..Len(net')
          PROVE  net'[j].op = "orphan" \/ (mounted' = mounted /\ Owned(net'[j].op))
        <3>1. j \in 1..(Len(net) - 1)
            BY <1>7
        <3>2. net'[j] = s[Was(i, j)] /\ Was(i, j) \in 1..Len(net)
            BY <1>7, <3>1
        <3> QED
            BY <1>8, <3>2, Before
    <2> QED
        BY <1>2, <1>3, <2>1 DEF Owned, SameWatched, ReadOps
<1>10. PagesTypeOK'
    BY <1>1, <1>7, Before, PagesAssumption DEF PagesTypeOK, RowsType
<1> QED
    BY <1>1, <1>2, <1>4, <1>9, <1>10 DEF PagesInv, SameWatched

LEMMA PagesInvInit == Init => PagesInv
<1> SUFFICES ASSUME Init PROVE PagesInv
    OBVIOUS
<1>1. /\ watched \in DOMAIN Catalog /\ mounted = FALSE /\ query = First /\ rows = Blank
      /\ loading = FALSE /\ net = <<>>
    BY DEF Init, PagesInit
<1>2. First \in Queries /\ Blank \in RowsType
    BY DEF First, Queries, Blank, RowsType, Sights, Slips
<1>3. net \in Seq(Requests) /\ Len(net) = 0
    BY <1>1, EmptySeq
<1>4. PagesTypeOK
    <2>1. mounted \in BOOLEAN /\ loading \in BOOLEAN /\ query \in Queries /\ rows \in RowsType
        BY <1>1, <1>2
    <2>2. Len(net) <= MaxNet
        BY <1>3, PagesAssumption
    <2> QED
        BY <1>3, <2>1, <2>2 DEF PagesTypeOK, RowsType
<1> QED
    BY <1>1, <1>3, <1>4 DEF PagesInv

LEMMA PagesInvStep ==
    ASSUME PagesInv, [Next]_vars
    PROVE  PagesInv'
<1>1. SameWatched
    BY SameComponent DEF SameWatched
<1>2. CASE UNCHANGED pageVars
    <2>1. UNCHANGED <<watched, mounted, query, rows, loading, net>>
        BY <1>2 DEF pageVars, viewVars
    <2> QED
        BY <2>1 DEF PagesInv, PagesTypeOK, Owned, Navigator, KeepsRows, C
<1>3. CASE mounted /\ (C.poll \/ C.told) /\ ReadAgain
    <2>1. C.reads
        BY <1>3, WatchedKind DEF Reader, Silent
    <2>2. Load(<<query>>) /\ UNCHANGED <<mounted, query, rows>>
        BY <1>3 DEF ReadAgain
    <2>3. query \in Queries /\ <<query>> \in Seq(Queries) /\ Len(<<query>>) > 0
        BY Before
    <2> QED
        BY <1>1, <1>3, <2>1, <2>2, <2>3, LoadInv
<1>4. CASE Disappear \/ StepBack \/ Reload \/ Appear
    BY <1>1, <1>4, DisappearInv, StepBackInv, ReloadInv, AppearInv
<1>5. CASE RefineRows \/ TurnPage \/ SearchRows
    BY <1>1, <1>5, ControlsInv
<1>6. CASE \E w \in C.writes : Submit(w)
    BY <1>1, <1>6, SubmitInv
<1>7. CASE OthersWrite \/ \E i \in DOMAIN net : Answer(i)
    BY <1>1, <1>7, ServerInv
<1>8. CASE \E i \in DOMAIN net : ReadAnswered(i) \/ ReadFails(i)
    BY <1>1, <1>8, ReadEndsInv
<1>9. CASE \E i \in DOMAIN net : WriteAnswered(i) \/ WriteFails(i) \/ Gone(i)
    BY <1>1, <1>9, WriteAnsweredInv, WriteFailsInv, GoneInv
<1> QED
    BY <1>2, <1>3, <1>4, <1>5, <1>6, <1>7, <1>8, <1>9, PageSteps

\* The types of what the tab has in flight, and who sent it: whatever the component,
\* and however many requests it has in flight.
THEOREM PagesInvariant == Spec => []PagesInv
<1>1. PagesInv /\ [Next]_vars => PagesInv'
    BY PagesInvStep
<1> QED
    BY PagesInvInit, <1>1, PTL DEF Spec

\* A spinner always has a read to wait for, whichever requests fail, are overtaken, or
\* end after their component is gone.
THEOREM SpinnersEnd == Spec => []SpinnerEnds
<1>1. PagesInv => SpinnerEnds
    BY Before DEF SpinnerEnds, Reads
<1> QED
    BY <1>1, PagesInvariant, PTL

--------------------------------------------------------------------------------
(* What is on the screen is what the controls say.                         *)

\* What the screen shows (0), and what the request i would have it show.
Seen(i) == IF i = 0 THEN rows ELSE net[i]

\* It misses a write of its own component, or answers controls of before, and does not
\* say why.
Stale(r) == r.sees = "own-missed" /\ r.slip = "none"

Astray(r) == r.query # query /\ r.slip = "none"

\* What will set that right: a read, or a write that the server has done.
Mends(r) == r.op \in ReadOps \/ r.sees # "unanswered"

ShowInv ==
    mounted /\ C.reads =>
        \A i \in 0..Len(net) :
            /\ Stale(Seen(i)) => \E j \in (i + 1)..Len(net) : Mends(net[j])
            /\ (i = 0 \/ net[i].op \in ReadOps) /\ Astray(Seen(i)) =>
                    \E j \in (i + 1)..Len(net) : net[j].op \in ReadOps

\* A read with the controls of now, sent last, sets everything right.
LEMMA LastReadMends ==
    ASSUME NEW n \in Nat, Len(net') = n + 1, net'[n + 1].op \in ReadOps,
           net'[n + 1].sees = "unanswered",
           net'[n + 1].slip = "none" => net'[n + 1].query = query'
    PROVE  ShowInv'
<1>1. \A i \in 0..Len(net') : i = n + 1 \/ n + 1 \in (i + 1)..Len(net')
    OBVIOUS
<1>2. ~Stale(net'[n + 1]) /\ Mends(net'[n + 1])
    BY DEF Stale, Mends
<1>3. n + 1 # 0
    OBVIOUS
<1> QED
    BY <1>1, <1>2, <1>3 DEF ShowInv, Seen, Stale, Mends, Astray

\* load(), if its last read has the controls of now.
LEMMA LoadShows ==
    ASSUME PagesInv, NEW qs \in Seq(Queries), Len(qs) > 0, Load(qs), qs[Len(qs)] = query'
    PROVE  ShowInv'
<1>1. Len(qs) \in Nat \ {0} /\ \A k \in 1..Len(qs) : qs[k] \in Queries
    BY Elements
<1>2. /\ Len(net') = Len(net) + Len(qs)
      /\ \A k \in 1..Len(qs) : net'[Len(net) + k] = Request("read", qs[k])
    BY Before, LoadOf
<1>3. net'[Len(net) + Len(qs)] = Request("read", query') /\ query' \in Queries
    BY <1>1, <1>2
<1>4. "read" \in Ops /\ "read" \in ReadOps
    BY DEF Ops, ReadOps
<1> DEFINE n == Len(net) + Len(qs) - 1
<1>5. n \in Nat /\ Len(net') = n + 1 /\ net'[n + 1] = Request("read", query')
    BY <1>1, <1>2, <1>3, Before
<1> HIDE DEF n
<1> QED
    BY <1>3, <1>4, <1>5, NewRequest, LastReadMends

\* ShowInv, taken apart.
LEMMA ShowsBefore ==
    ASSUME ShowInv, mounted, C.reads, NEW i \in 0..Len(net)
    PROVE  /\ Stale(Seen(i)) => \E j \in (i + 1)..Len(net) : Mends(net[j])
           /\ (i = 0 \/ net[i].op \in ReadOps) /\ Astray(Seen(i)) =>
                   \E j \in (i + 1)..Len(net) : net[j].op \in ReadOps
BY DEF ShowInv

\* Where nothing is added or ends, it is enough that what mends goes on to do so, and
\* that what has become stale is before something that mends.
LEMMA ChangesShow ==
    ASSUME PagesInv, ShowInv, SameWatched, UNCHANGED <<mounted, query>>,
           Len(net') = Len(net),
           \A k \in 1..Len(net) :
                /\ net'[k].op = net[k].op /\ net'[k].query = net[k].query
                /\ net'[k].slip = "none" => net[k].slip = "none"
                /\ net[k].sees # "unanswered" => net'[k].sees # "unanswered"
                /\ Stale(net'[k]) => \/ Stale(net[k])
                                     \/ \E j \in (k + 1)..Len(net) : Mends(net'[j]),
           rows'.query = rows.query, rows'.slip = "none" => rows.slip = "none",
           Stale(rows') => Stale(rows) \/ \E j \in 1..Len(net) : Mends(net'[j])
    PROVE  ShowInv'
<1> SUFFICES ASSUME mounted, C.reads, NEW i \in 0..Len(net)
             PROVE  /\ Stale(Seen(i)') => \E j \in (i + 1)..Len(net) : Mends(net'[j])
                    /\ (i = 0 \/ net[i].op \in ReadOps) /\ Seen(i)'.query # query
                            /\ Seen(i)'.slip = "none" =>
                            \E j \in (i + 1)..Len(net) : net'[j].op \in ReadOps
    BY Before DEF ShowInv, Stale, Astray, Mends, Seen, SameWatched
<1>1. Len(net) \in Nat /\ (i = 0 \/ i \in 1..Len(net))
    BY Before
<1>2. \A j \in (i + 1)..Len(net) : j \in 1..Len(net)
    BY <1>1
<1>3. \A j \in (i + 1)..Len(net) : Mends(net[j]) => Mends(net'[j])
    BY <1>2 DEF Mends
<1>4. Stale(Seen(i)') => Stale(Seen(i)) \/ \E j \in (i + 1)..Len(net) : Mends(net'[j])
    BY <1>1 DEF Seen
<1>5. Seen(i)'.query = Seen(i).query /\ (Seen(i)'.slip = "none" => Seen(i).slip = "none")
    BY <1>1 DEF Seen
<1>6. /\ Stale(Seen(i)) => \E j \in (i + 1)..Len(net) : Mends(net[j])
      /\ (i = 0 \/ net[i].op \in ReadOps) /\ Astray(Seen(i)) =>
              \E j \in (i + 1)..Len(net) : net[j].op \in ReadOps
    BY ShowsBefore
<1> QED
    BY <1>2, <1>3, <1>4, <1>5, <1>6 DEF Astray

\* Where request i ends, it is enough that what it leaves on the screen is what it
\* showed, and that those before it in the queue say so; or that it mended nothing.
LEMMA EndsShow ==
    ASSUME PagesInv, ShowInv, SameWatched, UNCHANGED <<mounted, query>>, NEW i \in DOMAIN net,
           Len(net') = Len(net) - 1,
           \A j \in 1..(Len(net) - 1) :
                /\ net'[j].op = net[Was(i, j)].op /\ net'[j].query = net[Was(i, j)].query
                /\ net'[j].sees = net[Was(i, j)].sees
                /\ net'[j].slip = "none" => net[Was(i, j)].slip = "none",
           \/ /\ \A j \in 1..(i - 1) : net'[j].slip # "none"
              /\ Stale(rows') => Stale(net[i])
              /\ rows'.query # query /\ rows'.slip = "none" =>
                    net[i].op \in ReadOps /\ Astray(net[i])
           \/ /\ net[i].op \notin ReadOps
              /\ net[i].sees # "unanswered" =>
                    /\ ~Stale(rows')
                    /\ \A j \in 1..(Len(net) - 1) : ~Stale(net'[j])
              /\ Stale(rows') => Stale(rows)
              /\ rows'.query = rows.query /\ (rows'.slip = "none" => rows.slip = "none")
    PROVE  ShowInv'
<1> SUFFICES ASSUME mounted, C.reads, NEW k \in 0..(Len(net) - 1)
             PROVE  /\ Stale(Seen(k)') => \E j \in (k + 1)..(Len(net) - 1) : Mends(net'[j])
                    /\ (k = 0 \/ net'[k].op \in ReadOps) /\ Seen(k)'.query # query
                            /\ Seen(k)'.slip = "none" =>
                            \E j \in (k + 1)..(Len(net) - 1) : net'[j].op \in ReadOps
    BY Before DEF ShowInv, Stale, Astray, Mends, Seen, SameWatched
<1>1. Len(net) \in Nat /\ i \in 1..Len(net)
    BY Before
<1>2. /\ \A j \in 1..(Len(net) - 1) : Was(i, j) \in 1..Len(net) /\ Was(i, j) # i
      /\ \A h \in (1..Len(net)) \ {i} : Now(i, h) \in 1..(Len(net) - 1) /\ Was(i, Now(i, h)) = h
      /\ \A j \in 1..(Len(net) - 1) : \A h \in (1..Len(net)) \ {i} :
            h > Was(i, j) => Now(i, h) > j
    BY <1>1, Renumbered
<1>3. \A h \in (1..Len(net)) \ {i} : /\ net'[Now(i, h)].op = net[h].op
                                     /\ Mends(net[h]) => Mends(net'[Now(i, h)])
    BY <1>2 DEF Mends
<1>4. CASE k # 0
    <2>1. k \in 1..(Len(net) - 1) /\ Was(i, k) \in 1..Len(net) /\ Seen(k)' = net'[k]
        BY <1>2, <1>4 DEF Seen
    <2>2. Seen(Was(i, k)) = net[Was(i, k)]
        BY <2>1 DEF Seen
    <2>3. /\ Stale(net[Was(i, k)]) => \E j \in (Was(i, k) + 1)..Len(net) : Mends(net[j])
          /\ net[Was(i, k)].op \in ReadOps /\ Astray(net[Was(i, k)]) =>
                  \E j \in (Was(i, k) + 1)..Len(net) : net[j].op \in ReadOps
        BY <2>1, <2>2, ShowsBefore
    <2>4. ASSUME NEW h \in (Was(i, k) + 1)..Len(net), h # i
          PROVE  Now(i, h) \in (k + 1)..(Len(net) - 1)
        <3>1. h \in (1..Len(net)) \ {i} /\ h > Was(i, k)
            BY <1>1, <2>1, <2>4
        <3>2. Now(i, h) \in 1..(Len(net) - 1) /\ Now(i, h) > k
            BY <1>2, <2>1, <3>1
        <3> QED
            BY <1>1, <2>1, <3>2
    <2>5. ASSUME Stale(net'[k]) PROVE \E j \in (k + 1)..(Len(net) - 1) : Mends(net'[j])
        <3>1. Stale(net[Was(i, k)])
            BY <2>1, <2>5 DEF Stale
        <3>2. PICK h \in (Was(i, k) + 1)..Len(net) : Mends(net[h])
            BY <2>3, <3>1
        <3>3. ASSUME h = i PROVE FALSE
            <4>1. k \in 1..(i - 1)
                BY <1>1, <2>1, <3>2, <3>3 DEF Was
            <4>2. net[i].op \in ReadOps \/ net[i].sees # "unanswered"
                BY <3>2, <3>3 DEF Mends
            <4> QED
                BY <2>1, <2>5, <4>1, <4>2 DEF Stale
        <3>4. h \in (1..Len(net)) \ {i} /\ h # i
            BY <1>1, <2>1, <3>2, <3>3
        <3>5. Now(i, h) \in (k + 1)..(Len(net) - 1)
            BY <2>4, <3>2, <3>4
        <3>6. Mends(net'[Now(i, h)])
            BY <1>3, <3>2, <3>4
        <3> QED
            BY <3>5, <3>6, Zenon
    <2>6. ASSUME net'[k].op \in ReadOps, net'[k].query # query, net'[k].slip = "none"
          PROVE  \E j \in (k + 1)..(Len(net) - 1) : net'[j].op \in ReadOps
        <3>1. net[Was(i, k)].op \in ReadOps /\ Astray(net[Was(i, k)])
            BY <2>1, <2>6 DEF Astray
        <3>2. PICK h \in (Was(i, k) + 1)..Len(net) : net[h].op \in ReadOps
            BY <2>3, <3>1
        <3>3. ASSUME h = i PROVE FALSE
            <4>1. k \in 1..(i - 1)
                BY <1>1, <2>1, <3>2, <3>3 DEF Was
            <4> QED
                BY <2>6, <3>2, <3>3, <4>1
        <3>4. h \in (1..Len(net)) \ {i} /\ h # i
            BY <1>1, <2>1, <3>2, <3>3
        <3>5. Now(i, h) \in (k + 1)..(Len(net) - 1)
            BY <2>4, <3>2, <3>4
        <3>6. net'[Now(i, h)].op \in ReadOps
            BY <1>3, <3>2, <3>4
        <3> QED
            BY <3>5, <3>6, Zenon
    <2> QED
        BY <1>4, <2>1, <2>5, <2>6
<1>5. CASE k = 0
    <2>1. Seen(k)' = rows' /\ Seen(0) = rows /\ i # 0 /\ Seen(i) = net[i]
        BY <1>1, <1>5 DEF Seen
    <2>2. /\ Stale(rows) => \E j \in 1..Len(net) : Mends(net[j])
          /\ Astray(rows) => \E j \in 1..Len(net) : net[j].op \in ReadOps
          /\ Stale(net[i]) => \E j \in (i + 1)..Len(net) : Mends(net[j])
          /\ net[i].op \in ReadOps /\ Astray(net[i]) =>
                \E j \in (i + 1)..Len(net) : net[j].op \in ReadOps
        BY <1>1, <2>1, ShowsBefore
    <2>3. ASSUME Stale(rows') PROVE \E j \in 1..(Len(net) - 1) : Mends(net'[j])
        <3>1. PICK h \in 1..Len(net) : Mends(net[h]) /\ h # i
            BY <1>1, <2>2, <2>3 DEF Mends
        <3> QED
            BY <1>2, <1>3, <3>1
    <2>4. ASSUME rows'.query # query, rows'.slip = "none"
          PROVE  \E j \in 1..(Len(net) - 1) : net'[j].op \in ReadOps
        <3>1. PICK h \in 1..Len(net) : net[h].op \in ReadOps /\ h # i
            BY <1>1, <2>2, <2>4 DEF Astray
        <3> QED
            BY <1>2, <1>3, <3>1
    <2> QED
        BY <1>5, <2>1, <2>3, <2>4
<1> QED
    BY <1>4, <1>5

\* One read, or one before it with other controls.
LEMMA OneOrTwoReads ==
    ASSUME PagesInv, query' \in Queries, NEW early \in Queries,
           Load(<<query'>>) \/ Load(<<early, query'>>)
    PROVE  ShowInv'
<1> DEFINE qs == <<query'>>
           rs == <<early, query'>>
<1>1. /\ qs \in Seq(Queries) /\ Len(qs) = 1 /\ qs[1] = query'
      /\ rs \in Seq(Queries) /\ Len(rs) = 2 /\ rs[2] = query'
      /\ Load(qs) \/ Load(rs)
    OBVIOUS
<1> HIDE DEF qs, rs
<1>2. CASE Load(qs)
    <2>1. Len(qs) > 0 /\ qs[Len(qs)] = query'
        BY <1>1
    <2> QED
        BY <1>1, <1>2, <2>1, LoadShows
<1>3. CASE Load(rs)
    <2>1. Len(rs) > 0 /\ rs[Len(rs)] = query'
        BY <1>1
    <2> QED
        BY <1>1, <1>3, <2>1, LoadShows
<1> QED
    BY <1>1, <1>2, <1>3

LEMMA ControlsShow ==
    ASSUME PagesInv, SameWatched, RefineRows \/ TurnPage \/ SearchRows
    PROVE  ShowInv'
<1>1. query \in Queries
    BY Before
<1>2. CASE RefineRows
    <2> DEFINE early == [query EXCEPT !.filter = 1 - @]
    <2>1. early \in Queries /\ query' \in Queries
        BY <1>1, <1>2 DEF RefineRows, Queries
    <2>2. Load(<<query'>>) \/ Load(<<early, query'>>)
        <3>1. CASE early = query'
            BY <1>2, <3>1 DEF RefineRows
        <3>2. CASE early # query'
            BY <1>2, <3>2 DEF RefineRows
        <3> QED
            BY <3>1, <3>2
    <2> HIDE DEF early
    <2> QED
        BY <2>1, <2>2, OneOrTwoReads
<1>3. CASE TurnPage
    <2>1. query' \in Queries
        BY <1>1, <1>3 DEF TurnPage, Queries
    <2>2. Load(<<query'>>)
        BY <1>3 DEF TurnPage
    <2> QED
        BY <2>1, <2>2, OneOrTwoReads
<1>4. CASE SearchRows
    <2>1. query' \in Queries
        BY <1>1, <1>4 DEF SearchRows, Queries
    <2>2. Load(<<query'>>) \/ Load(<<query, query'>>)
        <3>1. CASE query' = query
            BY <1>4, <3>1 DEF SearchRows
        <3>2. CASE query' # query
            BY <1>4, <3>2 DEF SearchRows
        <3> QED
            BY <3>1, <3>2
    <2> QED
        BY <1>1, <2>1, <2>2, OneOrTwoReads
<1> QED
    BY <1>2, <1>3, <1>4

LEMMA AppearShows ==
    ASSUME PagesInv, SameWatched, Appear
    PROVE  ShowInv'
<1>1. CASE C.reads
    <2>1. /\ net' = Append(net, Request("read", First)) /\ query' = First
        BY <1>1 DEF Appear
    <2>2. "read" \in Ops /\ "read" \in ReadOps /\ First \in Queries
        BY DEF Ops, ReadOps, First, Queries
    <2>3. /\ Request("read", First) \in Requests /\ Request("read", First).op = "read"
          /\ Request("read", First).sees = "unanswered" /\ Request("read", First).query = First
        BY <2>2, NewRequest
    <2>4. Len(net') = Len(net) + 1 /\ net'[Len(net) + 1] = Request("read", First)
        BY <2>1, <2>3, Queued, Before
    <2>5. /\ net'[Len(net) + 1].op \in ReadOps /\ net'[Len(net) + 1].sees = "unanswered"
          /\ net'[Len(net) + 1].query = query'
        BY <2>1, <2>2, <2>3, <2>4
    <2>6. Len(net) \in Nat
        BY Before
    <2> QED
        BY <2>4, <2>5, <2>6, LastReadMends
<1>2. CASE ~C.reads
    BY <1>2 DEF ShowInv, SameWatched
<1> QED
    BY <1>1, <1>2

LEMMA SubmitShows ==
    ASSUME PagesInv, ShowInv, SameWatched, NEW w \in C.writes, Submit(w)
    PROVE  ShowInv'
<1>1. /\ mounted /\ net' = Append(net, Request(w.op, query))
      /\ UNCHANGED <<mounted, query, rows>>
    BY DEF Submit, Usable, viewVars
<1>2. w.op \in Ops /\ w.op \notin ReadOps
    BY WatchedKind
<1>3. /\ Request(w.op, query) \in Requests /\ Request(w.op, query).op = w.op
      /\ Request(w.op, query).sees = "unanswered"
    BY <1>2, Before, NewRequest
<1>4. /\ Len(net') = Len(net) + 1
      /\ net'[Len(net) + 1] = Request(w.op, query) /\ \A k \in 1..Len(net) : net'[k] = net[k]
    BY <1>1, <1>3, Before, Queued
<1> SUFFICES ASSUME C.reads, NEW i \in 0..Len(net')
             PROVE  /\ Stale(Seen(i)') => \E j \in (i + 1)..Len(net') : Mends(net'[j])
                    /\ (i = 0 \/ net'[i].op \in ReadOps) /\ Astray(Seen(i)') =>
                            \E j \in (i + 1)..Len(net') : net'[j].op \in ReadOps
    BY <1>1 DEF ShowInv, Stale, Astray, Mends, Seen, SameWatched
<1>5. CASE i = Len(net) + 1
    <2>1. i # 0 /\ Seen(i)' = Request(w.op, query) /\ net'[i].op \notin ReadOps
        BY <1>2, <1>3, <1>4, <1>5, Before DEF Seen
    <2> QED
        BY <1>3, <2>1 DEF Stale
<1>6. CASE i # Len(net) + 1
    <2>1. i \in 0..Len(net) /\ (i = 0 \/ i \in 1..Len(net))
        BY <1>4, <1>6, Before
    <2>2. Seen(i)' = Seen(i) /\ (i # 0 => net'[i] = net[i])
        BY <1>1, <1>4, <2>1 DEF Seen
    <2>3. \A j \in (i + 1)..Len(net) : j \in (i + 1)..Len(net') /\ net'[j] = net[j]
        BY <1>4, <2>1, Before
    <2>4. /\ Stale(Seen(i)) => \E j \in (i + 1)..Len(net) : Mends(net[j])
          /\ (i = 0 \/ net[i].op \in ReadOps) /\ Astray(Seen(i)) =>
                  \E j \in (i + 1)..Len(net) : net[j].op \in ReadOps
        BY <1>1, <2>1, ShowsBefore
    <2>5. ASSUME Stale(Seen(i)') PROVE \E j \in (i + 1)..Len(net') : Mends(net'[j])
        BY <2>2, <2>3, <2>4, <2>5
    <2>6. ASSUME i = 0 \/ net'[i].op \in ReadOps, Astray(Seen(i)')
          PROVE  \E j \in (i + 1)..Len(net') : net'[j].op \in ReadOps
        <3>1. Astray(Seen(i)) /\ (i = 0 \/ net[i].op \in ReadOps)
            BY <1>1, <2>2, <2>6 DEF Astray
        <3> QED
            BY <2>3, <2>4, <3>1
    <2> QED
        BY <2>5, <2>6
<1> QED
    BY <1>5, <1>6

LEMMA ServerShows ==
    ASSUME PagesInv, ShowInv, SameWatched, OthersWrite \/ \E i \in DOMAIN net : Answer(i)
    PROVE  ShowInv'
<1>1. /\ "others-missed" \in Sights /\ "own-missed" \in Sights /\ "all" \in Sights
      /\ "unanswered" \notin Sights
    BY DEF Sights
<1>2. \A loss \in Sights : /\ RowsMiss(loss).query = rows.query /\ RowsMiss(loss).slip = rows.slip
                           /\ RowsMiss(loss).sees = Missing(rows.sees, loss)
    BY Before DEF RowsMiss, RowsType
<1>3. rows.sees \in Sights
    BY Before DEF RowsType
<1>4. CASE OthersWrite
    <2>1. /\ net' = NetMisses("others-missed") /\ rows' = RowsMiss("others-missed")
          /\ UNCHANGED <<mounted, query>>
        BY <1>4 DEF OthersWrite
    <2>2. ASSUME NEW k \in 1..Len(net)
          PROVE  /\ net'[k].op = net[k].op /\ net'[k].query = net[k].query
                 /\ net'[k].slip = "none" => net[k].slip = "none"
                 /\ net[k].sees # "unanswered" => net'[k].sees # "unanswered"
                 /\ Stale(net'[k]) => Stale(net[k])
        <3>1. /\ net'[k].op = net[k].op /\ net'[k].query = net[k].query
              /\ net'[k].slip = net[k].slip
              /\ net'[k].sees = Missing(net[k].sees, "others-missed")
            BY <1>1, <2>1, NetMissesOf, Before
        <3>2. net[k].sees \in Sights \cup {"unanswered"}
            BY RequestFields, Before
        <3>3. /\ net[k].sees # "unanswered" => net'[k].sees # "unanswered"
              /\ net'[k].sees = "own-missed" => net[k].sees = "own-missed"
            BY <1>1, <3>1, <3>2, MissingOf
        <3> QED
            BY <3>1, <3>3 DEF Stale
    <2>3. /\ rows'.query = rows.query /\ (rows'.slip = "none" => rows.slip = "none")
          /\ Stale(rows') => Stale(rows)
        BY <1>1, <1>2, <1>3, <2>1, MissingOf DEF Stale
    <2>4. Len(net') = Len(net)
        BY <1>1, <2>1, NetMissesOf, Before
    <2> QED
        BY <2>1, <2>2, <2>3, <2>4, ChangesShow
<1>5. ASSUME NEW i \in DOMAIN net, Answer(i), net[i].op \in ReadOps PROVE ShowInv'
    <2>1. /\ net' = [net EXCEPT ![i] = [net[i] EXCEPT !.sees = "all"]]
          /\ UNCHANGED <<mounted, query, rows>>
        BY <1>5 DEF Answer
    <2>2. i \in 1..Len(net) /\ net[i] \in Requests
        BY Before
    <2> DEFINE r == [net[i] EXCEPT !.sees = "all"]
    <2>3. /\ r \in Requests /\ r.op = net[i].op /\ r.query = net[i].query
          /\ r.slip = net[i].slip /\ r.sees = "all"
        BY <1>1, <2>2, RequestFields
    <2> HIDE DEF r
    <2>4. /\ Len(net') = Len(net)
          /\ \A k \in 1..Len(net) : net'[k] = IF k = i THEN r ELSE net[k]
        BY <2>1, <2>2, <2>3, ExceptSeq, Before DEF r
    <2>5. ASSUME NEW k \in 1..Len(net)
          PROVE  /\ net'[k].op = net[k].op /\ net'[k].query = net[k].query
                 /\ net'[k].slip = "none" => net[k].slip = "none"
                 /\ net[k].sees # "unanswered" => net'[k].sees # "unanswered"
                 /\ Stale(net'[k]) => Stale(net[k])
        BY <2>3, <2>4 DEF Stale
    <2> QED
        BY <2>1, <2>4, <2>5, ChangesShow
<1>6. ASSUME NEW i \in DOMAIN net, Answer(i), net[i].op \notin ReadOps PROVE ShowInv'
    <2>1. /\ net' = Handled(i) /\ rows' = RowsMiss("own-missed")
          /\ UNCHANGED <<mounted, query>>
        BY <1>6 DEF Answer, Handled
    <2>2. i \in 1..Len(net) /\ Mends(net'[i]) /\ Len(net') = Len(net)
        BY <2>1, HandledOf, Before DEF Mends
    <2>3. ASSUME NEW k \in 1..Len(net)
          PROVE  /\ net'[k].op = net[k].op /\ net'[k].query = net[k].query
                 /\ net'[k].slip = "none" => net[k].slip = "none"
                 /\ net[k].sees # "unanswered" => net'[k].sees # "unanswered"
                 /\ Stale(net'[k]) => \E j \in (k + 1)..Len(net) : Mends(net'[j])
        <3>1. /\ net'[k].op = net[k].op /\ net'[k].query = net[k].query
              /\ net'[k].slip = "none" => net[k].slip = "none"
              /\ net[k].sees # "unanswered" => net'[k].sees # "unanswered"
              /\ Stale(net'[k]) => k < i
            BY <2>1, HandledOf, Before DEF Stale
        <3>2. k < i => i \in (k + 1)..Len(net)
            BY <2>2, Before
        <3> QED
            BY <2>2, <3>1, <3>2
    <2>4. rows'.query = rows.query /\ (rows'.slip = "none" => rows.slip = "none")
        BY <1>1, <1>2, <2>1
    <2> QED
        BY <2>1, <2>2, <2>3, <2>4, ChangesShow
<1> QED
    BY <1>4, <1>5, <1>6

LEMMA ReadEndsShow ==
    ASSUME PagesInv, ShowInv, SameWatched, NEW i \in DOMAIN net, ReadAnswered(i) \/ ReadFails(i)
    PROVE  ShowInv'
<1>1. net' = Rest(i) /\ net[i].op \in ReadOps /\ UNCHANGED <<mounted, query>>
    BY DEF ReadAnswered, ReadFails
<1>2. /\ Len(net) \in Nat /\ i \in 1..Len(net) /\ rows \in RowsType
      /\ \A j \in 1..(i - 1) : j \in 1..(Len(net) - 1) /\ j < i
    BY Before
<1>3. /\ Len(net') = Len(net) - 1
      /\ \A j \in 1..(Len(net) - 1) :
            /\ net'[j].op = net[Was(i, j)].op /\ net'[j].query = net[Was(i, j)].query
            /\ net'[j].sees = net[Was(i, j)].sees
            /\ net'[j].slip = IF j < i THEN "overtaken" ELSE net[Was(i, j)].slip
    BY <1>1, RestOf, Before
<1>4. /\ \A j \in 1..(Len(net) - 1) : net'[j].slip = "none" => net[Was(i, j)].slip = "none"
      /\ \A j \in 1..(i - 1) : net'[j].slip # "none"
    BY <1>2, <1>3
<1>5. /\ Stale(rows') => Stale(net[i])
      /\ rows'.query # query /\ rows'.slip = "none" => Astray(net[i])
    <2>1. CASE ReadAnswered(i)
        BY <2>1 DEF ReadAnswered, Shown, Stale, Astray
    <2>2. CASE ReadFails(i)
        <3>1. rows'.slip = "lost"
            BY <1>2, <2>2 DEF ReadFails, RowsType
        <3> QED
            BY <3>1 DEF Stale
    <2> QED
        BY <2>1, <2>2
<1> QED
    BY <1>1, <1>3, <1>4, <1>5, EndsShow

LEMMA WriteFailsShow ==
    ASSUME PagesInv, ShowInv, SameWatched, NEW i \in DOMAIN net, WriteFails(i)
    PROVE  ShowInv'
<1>1. /\ net' = FailedRest(i) /\ rows' = Slipped(rows, i) /\ UNCHANGED <<mounted, query>>
      /\ net[i].op \notin ReadOps
    BY DEF WriteFails, FailedRest
<1>2. ASSUME NEW j \in 1..(Len(net) - 1)
      PROVE  /\ net'[j].op = net[Was(i, j)].op /\ net'[j].query = net[Was(i, j)].query
             /\ net'[j].sees = net[Was(i, j)].sees
             /\ net'[j].slip = "none" => net[Was(i, j)].slip = "none"
             /\ net[i].sees # "unanswered" => ~Stale(net'[j])
    <2>1. net'[j] = Slipped(net[Was(i, j)], i)
        BY <1>1, FailedRestOf, Before
    <2>2. Was(i, j) \in 1..Len(net)
        BY Renumbered, Before
    <2>3. net[Was(i, j)] \in Requests
        BY <2>2, Before
    <2> QED
        BY <2>1, <2>3, SlippedOf, Before DEF Stale
<1>3. Len(net') = Len(net) - 1
    BY <1>1, FailedRestOf, Before
<1>4. /\ rows'.query = rows.query /\ (rows'.slip = "none" => rows.slip = "none")
      /\ Stale(rows') => Stale(rows)
      /\ net[i].sees # "unanswered" => ~Stale(rows')
    <2>1. rows \in RowsType
        BY Before
    <2>2. [rows EXCEPT !.slip = "lost"].query = rows.query /\ [rows EXCEPT !.slip = "lost"].slip = "lost"
        BY <2>1 DEF RowsType
    <2> QED
        BY <1>1, <2>2 DEF Slipped, Stale
<1> QED
    BY <1>1, <1>2, <1>3, <1>4, EndsShow

LEMMA WriteAnsweredShow ==
    ASSUME PagesInv, ShowInv, SameWatched, NEW i \in DOMAIN net, WriteAnswered(i)
    PROVE  ShowInv'
<1>1. /\ UNCHANGED <<mounted, query>> /\ net[i].op \notin ReadOps
      /\ net[i].sees # "unanswered" /\ Len(net) \in Nat /\ i \in 1..Len(net)
      /\ net[i] \in Requests
    BY WriteAnsweredCases, Before
<1>2. CASE net' = Append(RemoveAt(net, i), Reread(i))
    <2>1. RemoveAt(net, i) \in Seq(Requests) /\ Len(RemoveAt(net, i)) = Len(net) - 1
        BY Removed, Before
    <2>2. /\ Reread(i) \in Requests /\ Reread(i).op \in ReadOps /\ Reread(i).sees = "unanswered"
          /\ Reread(i).slip = "none" => Reread(i).query = query
        BY RereadOf
    <2> DEFINE n == Len(net) - 1
    <2>3. n \in Nat /\ Len(net') = n + 1 /\ net'[n + 1] = Reread(i)
        BY <1>1, <1>2, <2>1, <2>2, Queued
    <2> HIDE DEF n
    <2> QED
        BY <1>1, <2>2, <2>3, LastReadMends
<1>3. CASE C.reads /\ net' = Rest(i) /\ rows' = Late(Shown(net[i]))
    <2>1. /\ Len(net') = Len(net) - 1
          /\ \A j \in 1..(Len(net) - 1) :
                /\ net'[j].op = net[Was(i, j)].op /\ net'[j].query = net[Was(i, j)].query
                /\ net'[j].sees = net[Was(i, j)].sees
                /\ net'[j].slip = IF j < i THEN "overtaken" ELSE net[Was(i, j)].slip
        BY <1>3, RestOf, Before
    <2>2. /\ \A j \in 1..(Len(net) - 1) : net'[j].slip = "none" => net[Was(i, j)].slip = "none"
          /\ \A j \in 1..(i - 1) : net'[j].slip # "none"
        BY <1>1, <2>1
    <2>3. /\ Stale(rows') => Stale(net[i])
          /\ ~(rows'.query # query /\ rows'.slip = "none")
        BY <1>3 DEF Late, Shown, Stale
    <2> QED
        BY <1>1, <2>1, <2>2, <2>3, EndsShow
<1>4. CASE ~C.reads
    BY <1>4 DEF ShowInv, SameWatched
<1> QED
    BY <1>2, <1>3, <1>4, WriteAnsweredCases

LEMMA ShowInvStep ==
    ASSUME PagesInv, ShowInv, [Next]_vars
    PROVE  ShowInv'
<1>1. SameWatched
    BY SameComponent DEF SameWatched
<1>2. CASE UNCHANGED pageVars
    <2>1. UNCHANGED <<watched, mounted, query, rows, loading, net>>
        BY <1>2 DEF pageVars, viewVars
    <2> QED
        BY <2>1 DEF ShowInv, Seen, Stale, Astray, Mends, C
<1>3. CASE mounted /\ (C.poll \/ C.told) /\ ReadAgain
    <2>1. Load(<<query>>) /\ query' = query /\ query \in Queries
        BY <1>3, Before DEF ReadAgain
    <2> QED
        BY <2>1, OneOrTwoReads
<1>4. CASE Disappear \/ StepBack \/ Reload
    BY <1>4 DEF Disappear, StepBack, Reload, ShowInv
<1>5. CASE Appear
    BY <1>1, <1>5, AppearShows
<1>6. CASE RefineRows \/ TurnPage \/ SearchRows
    BY <1>1, <1>6, ControlsShow
<1>7. CASE \E w \in C.writes : Submit(w)
    BY <1>1, <1>7, SubmitShows
<1>8. CASE OthersWrite \/ \E i \in DOMAIN net : Answer(i)
    BY <1>1, <1>8, ServerShows
<1>9. CASE \E i \in DOMAIN net : ReadAnswered(i) \/ ReadFails(i)
    BY <1>1, <1>9, ReadEndsShow
<1>10. CASE \E i \in DOMAIN net : WriteAnswered(i) \/ WriteFails(i)
    BY <1>1, <1>10, WriteAnsweredShow, WriteFailsShow
<1>11. CASE \E i \in DOMAIN net : Gone(i)
    <2>1. Navigator
        BY <1>1, <1>11, GoneInv
    <2>2. ~C'.reads
        BY <1>1, <2>1, WatchedKind DEF Silent, SameWatched
    <2> QED
        BY <2>2 DEF ShowInv
<1> QED
    BY <1>2, <1>3, <1>4, <1>5, <1>6, <1>7, <1>8, <1>9, <1>10, <1>11, PageSteps

\* At every moment, whatever the screen shows that is not what the controls say, or
\* misses what the page did itself, is about to be set right, or says why.
THEOREM ShowInvariant == Spec => []ShowInv
<1>1. Init => ShowInv
    BY DEF Init, PagesInit, ShowInv
<1>2. PagesInv /\ ShowInv /\ [Next]_vars => ShowInv'
    BY ShowInvStep
<1> QED
    BY <1>1, <1>2, PagesInvariant, PTL DEF Spec

\* A page at rest shows the rows of its filters and its page, and what it wrote, or
\* something got lost or overtaken on the way.
THEOREM ShowsWhatItSaysAlways == Spec => []ShowsWhatItSays
<1>1. ASSUME PagesInv, ShowInv, mounted, C.reads, net = <<>>
      PROVE  (rows.query = query /\ rows.sees # "own-missed") \/ rows.slip # "none"
    <2>1. Len(net) = 0
        BY <1>1, EmptySeq
    <2>2. ~Stale(Seen(0)) /\ ~Astray(Seen(0))
        BY <1>1, <2>1, ShowsBefore
    <2> QED
        BY <2>2 DEF Seen, Stale, Astray
<1>2. PagesInv /\ ShowInv => ShowsWhatItSays
    BY <1>1 DEF ShowsWhatItSays
<1> QED
    BY <1>2, PagesInvariant, ShowInvariant, PTL

--------------------------------------------------------------------------------
(* Routes.                                                                 *)

\* A route has one line in the table.
LEMMA OneEntry ==
    ASSUME NEW r, NEW q, NEW a, <<r, q, a>> \in RouteTable
    PROVE  Entry(r)[2] = q /\ Entry(r)[3] = a
<1> DEFINE e == <<r, q, a>>
<1>1. e \in RouteTable /\ e[1] = r /\ e[2] = q /\ e[3] = a
    OBVIOUS
<1>2. \A f, g \in RouteTable : f[1] = g[1] => f = g
    BY DEF RouteTable
<1> HIDE DEF e
<1>3. Entry(r) = e
    BY <1>1, <1>2 DEF Entry
<1> QED
    BY <1>1, <1>3

\* Every place is on a line of the table.
LEMMA PlaceEntry ==
    ASSUME NEW p \in Places
    PROVE  /\ Entry(p.route) \in RouteTable /\ Entry(p.route)[1] = p.route
           /\ Page(p) = Entry(p.route)[2] /\ Allowed(p) = Entry(p.route)[3]
<1>1. \E e \in RouteTable : e[1] = p.route
    BY DEF Places, RouteTable, At, TicketAt, CsatAt
<1> QED
    BY <1>1 DEF Entry, Page, Allowed

\* The place of a ticket has a ticket.
LEMMA PlaceIds ==
    ASSUME NEW p \in Places, p.route \in WithId
    PROVE  p.id \in Tickets
BY DEF Places, WithId, At, TicketAt, CsatAt

\* The places that redirects, the navigation bar and the forms go to.
NamedRoutes ==
    {"/", "/login", "/register", "/pending", "/tickets", "/tickets/new", "/csat", "/queue",
     "/my-escalations", "/settings", "/admin/monitor", "/admin/kanban", "/admin/timeline",
     "/admin/tickets", "/admin/tickets/new", "/admin/users", "/admin/tags", "/admin/csat",
     "/admin/config"}

LEMMA NamedPlaces ==
    /\ \A r \in NamedRoutes : At(r) \in Places
    /\ \A t \in Tickets : TicketAt(t) \in Places /\ CsatAt(t) \in Places
<1>1. ASSUME NEW r \in NamedRoutes PROVE \E e \in RouteTable : e[1] = r /\ r \notin WithId
    BY DEF NamedRoutes, RouteTable, WithId
<1>2. \A t \in Tickets : TicketAt(t) \in Places /\ CsatAt(t) \in Places
    BY DEF Places
<1> QED
    BY <1>1, <1>2 DEF Places

\* Who sees what: the lines of the table that the proofs need.
LEMMA WhoSees ==
    /\ \A r \in {"/login", "/register", "/pending", "*"} : Entry(r)[3] = Public
    /\ \A r \in {"/", "/settings", "/tickets/:id"} : Entry(r)[3] = Roles
    /\ \A r \in {"/tickets", "/tickets/new", "/csat", "/csat/:id"} : Entry(r)[3] = {"employee"}
    /\ \A r \in {"/queue", "/my-escalations"} : Entry(r)[3] = Technicians
    /\ \A r \in {"/admin/kanban", "/admin/timeline", "/admin/tickets", "/admin/tickets/new",
                 "/admin/users", "/admin/tags", "/admin/monitor", "/admin/config", "/admin/csat"} :
            Entry(r)[3] = {"admin"}
<1>1. \A r \in {"/login", "/register", "/pending", "*"} : \E q : <<r, q, Public>> \in RouteTable
    BY DEF RouteTable
<1>2. \A r \in {"/", "/settings", "/tickets/:id"} : \E q : <<r, q, Roles>> \in RouteTable
    BY DEF RouteTable
<1>3. \A r \in {"/tickets", "/tickets/new", "/csat", "/csat/:id"} :
            \E q : <<r, q, {"employee"}>> \in RouteTable
    BY DEF RouteTable
<1>4. \A r \in {"/queue", "/my-escalations"} : \E q : <<r, q, Technicians>> \in RouteTable
    BY DEF RouteTable
<1>5. \A r \in {"/admin/kanban", "/admin/timeline", "/admin/tickets", "/admin/tickets/new",
                "/admin/users", "/admin/tags", "/admin/monitor", "/admin/config", "/admin/csat"} :
            \E q : <<r, q, {"admin"}>> \in RouteTable
    BY DEF RouteTable
<1>6. \A r, q, a : <<r, q, a>> \in RouteTable => Entry(r)[3] = a
    BY OneEntry
<1>7. \A r \in {"/login", "/register", "/pending", "*"} : Entry(r)[3] = Public
    BY <1>1, <1>6, Zenon
<1>8. \A r \in {"/", "/settings", "/tickets/:id"} : Entry(r)[3] = Roles
    BY <1>2, <1>6, Zenon
<1>9. \A r \in {"/tickets", "/tickets/new", "/csat", "/csat/:id"} : Entry(r)[3] = {"employee"}
    BY <1>3, <1>6, Zenon
<1>10. \A r \in {"/queue", "/my-escalations"} : Entry(r)[3] = Technicians
    BY <1>4, <1>6, Zenon
<1>11. \A r \in {"/admin/kanban", "/admin/timeline", "/admin/tickets", "/admin/tickets/new",
                 "/admin/users", "/admin/tags", "/admin/monitor", "/admin/config",
                 "/admin/csat"} : Entry(r)[3] = {"admin"}
    BY <1>5, <1>6, Zenon
<1> QED
    BY <1>7, <1>8, <1>9, <1>10, <1>11

\* Only four routes are public, and a role is not a session without a user.
LEMMA Guards ==
    /\ "loading" \notin Roles /\ "nobody" \notin Roles
    /\ "loading" \in Public /\ Roles \subseteq Public
    /\ \A p : p.route \in {"/login", "/register", "/pending", "*"} => ~Protected(p)
    /\ \A p : Allowed(p) \in {Roles, {"employee"}, {"admin"}, Technicians} => Protected(p)
<1>1. "loading" \notin Roles /\ "nobody" \notin Roles
    BY RoutesAssumption DEF Technicians
<1>2. "loading" \in Public /\ Roles \subseteq Public
    BY DEF Public, Sessions
<1>3. /\ "loading" \notin {"employee"} /\ "loading" \notin {"admin"} /\ "loading" \notin Technicians
    BY DEF Technicians
<1>4. \A p : Allowed(p) \in {Roles, {"employee"}, {"admin"}, Technicians} => Protected(p)
    BY <1>1, <1>2, <1>3 DEF Protected
<1>5. \A p : p.route \in {"/login", "/register", "/pending", "*"} => ~Protected(p)
    BY WhoSees DEF Protected, Allowed
<1> QED
    BY <1>1, <1>2, <1>4, <1>5

\* The pages that only one route has.
LEMMA PageRoutes ==
    ASSUME NEW p \in Places
    PROVE  /\ Page(p) = "TicketDetailPage" => p.route = "/tickets/:id"
           /\ Page(p) = "CsatPage" => p.route = "/csat/:id"
           /\ Page(p) = "TicketListPage" => p.route = "/tickets"
<1>1. \A e \in RouteTable : e[2] = "TicketDetailPage" => e[1] = "/tickets/:id"
    BY DEF RouteTable
<1>2. \A e \in RouteTable : e[2] = "CsatPage" => e[1] = "/csat/:id"
    BY DEF RouteTable
<1>3. \A e \in RouteTable : e[2] = "TicketListPage" => e[1] = "/tickets"
    BY DEF RouteTable
<1> QED
    BY <1>1, <1>2, <1>3, PlaceEntry

\* The home of a role is one of its own places.
LEMMA Homes ==
    ASSUME NEW s \in Roles
    PROVE  /\ HomeOf(s) \in NamedRoutes \ {"/"}
           /\ s \in Entry(HomeOf(s))[3]
<1>1. s = "employee" \/ s \in Technicians \/ s = "admin"
    BY RoutesAssumption
<1>2. CASE s = "employee"
    BY <1>2, WhoSees DEF HomeOf, NamedRoutes
<1>3. CASE s \in Technicians
    BY <1>3, WhoSees DEF HomeOf, NamedRoutes, Technicians
<1>4. CASE s = "admin"
    BY <1>4, WhoSees DEF HomeOf, NamedRoutes, Technicians
<1> QED
    BY <1>1, <1>2, <1>3, <1>4

\* A redirect ends at a place.
LEMMA OnwardPlaces ==
    ASSUME NEW s \in Sessions, NEW p \in Places
    PROVE  Onward(s, p) \in Places
<1>1. At("/") \in Places /\ At("/login") \in Places
    BY NamedPlaces DEF NamedRoutes
<1>2. s \in Roles => At(HomeOf(s)) \in Places
    BY Homes, NamedPlaces
<1>3. s \in Roles \/ s = "loading" \/ s = "nobody"
    BY DEF Sessions
<1> QED
    BY <1>1, <1>2, <1>3 DEF Onward

\* A place that a role may see keeps it.
LEMMA Stays ==
    ASSUME NEW s \in Roles, NEW p, p.route # "*", p.route # "/",
           ~Protected(p) \/ s \in Allowed(p)
    PROVE  Onward(s, p) = p
BY Guards DEF Onward

\* The places that everybody with a role may see.
LEMMA OpenToAll ==
    ASSUME NEW s \in Roles
    PROVE  /\ \A t : Onward(s, TicketAt(t)) = TicketAt(t)
           /\ \A r \in {"/login", "/register", "/pending", "/settings"} :
                Onward(s, At(r)) = At(r)
<1>1. ASSUME NEW t PROVE Onward(s, TicketAt(t)) = TicketAt(t)
    <2>1. TicketAt(t).route = "/tickets/:id"
        BY DEF TicketAt
    <2>2. s \in Allowed(TicketAt(t))
        BY <2>1, WhoSees DEF Allowed
    <2> QED
        BY <2>1, <2>2, Stays
<1>2. ASSUME NEW r \in {"/login", "/register", "/pending", "/settings"}
      PROVE  Onward(s, At(r)) = At(r)
    <2>1. At(r).route = r /\ r # "*" /\ r # "/"
        BY DEF At
    <2>2. r = "/settings" => s \in Allowed(At(r))
        BY <2>1, WhoSees DEF Allowed
    <2>3. r # "/settings" => ~Protected(At(r))
        BY <2>1, Guards
    <2> QED
        BY <2>1, <2>2, <2>3, Stays
<1> QED
    BY <1>1, <1>2

\* A place of one's own.
LEMMA OpenToRole ==
    ASSUME NEW s \in Roles, NEW r, r # "*", r # "/", s \in Entry(r)[3]
    PROVE  Onward(s, At(r)) = At(r)
<1>1. At(r).route = r
    BY DEF At
<1>2. s \in Allowed(At(r))
    BY <1>1 DEF Allowed
<1> QED
    BY <1>1, <1>2, Stays

\* The navigation bar offers a role its own places.
LEMMA NavItemsLead ==
    ASSUME NEW s \in Roles, NEW q \in NavItems(s)
    PROVE  Onward(s, q) = q /\ q \in Places
<1>1. PICK r \in NamedRoutes \ {"/"} : q = At(r) /\ s \in Entry(r)[3]
    <2>1. s = "employee" \/ s \in Technicians \/ s = "admin"
        BY RoutesAssumption
    <2>2. CASE q = At("/settings")
        BY <2>2, WhoSees DEF NamedRoutes
    <2>3. CASE q # At("/settings") /\ s = "employee"
        <3>1. \E r \in {"/tickets", "/tickets/new", "/csat"} : q = At(r)
            BY <2>3 DEF NavItems
        <3> QED
            BY <2>3, <3>1, WhoSees DEF NamedRoutes
    <2>4. CASE q # At("/settings") /\ s \in Technicians
        <3>1. \E r \in {"/queue", "/my-escalations"} : q = At(r)
            BY <2>4 DEF NavItems, Technicians
        <3> QED
            BY <2>4, <3>1, WhoSees DEF NamedRoutes
    <2>5. CASE q # At("/settings") /\ s = "admin"
        <3>1. \E r \in {"/admin/monitor", "/admin/kanban", "/admin/timeline", "/admin/tickets",
                        "/admin/tickets/new", "/admin/users", "/admin/tags", "/admin/csat",
                        "/admin/config"} : q = At(r)
            BY <2>5 DEF NavItems, Technicians
        <3>2. \A r \in {"/admin/monitor", "/admin/kanban", "/admin/timeline", "/admin/tickets",
                        "/admin/tickets/new", "/admin/users", "/admin/tags", "/admin/csat",
                        "/admin/config"} : r \in NamedRoutes \ {"/"} /\ Entry(r)[3] = {"admin"}
            BY WhoSees DEF NamedRoutes
        <3> QED
            BY <2>5, <3>1, <3>2
    <2> QED
        BY <2>1, <2>2, <2>3, <2>4, <2>5
<1>2. r # "*" /\ r # "/"
    BY DEF NamedRoutes
<1> QED
    BY <1>1, <1>2, OpenToRole, NamedPlaces

\* The links of a page lead to places that those who see the page may see.
LEMMA PageLinksLead ==
    ASSUME NEW s \in Sessions, NEW p \in Places, ~Protected(p) \/ s \in Allowed(p),
           NEW q \in PageLinks(Page(p), s, p.id)
    PROVE  q \in Places /\ (s \in Roles => Onward(s, q) = q)
<1>1. CASE \E t \in Tickets : q = TicketAt(t)
    BY <1>1, NamedPlaces, OpenToAll
<1>2. CASE \E r \in {"/login", "/register", "/pending"} : q = At(r)
    <2>1. PICK r \in {"/login", "/register", "/pending"} : q = At(r)
        BY <1>2
    <2>2. r \in NamedRoutes
        BY DEF NamedRoutes
    <2> QED
        BY <2>1, <2>2, NamedPlaces, OpenToAll
<1>3. CASE q = At("/tickets/new") /\ Page(p) = "TicketListPage"
    <2>1. Allowed(p) = {"employee"}
        BY <1>3, PageRoutes, WhoSees DEF Allowed
    <2>2. s = "employee"
        BY <2>1, Guards
    <2>3. s \in Entry("/tickets/new")[3]
        BY <2>2, WhoSees
    <2>4. "/tickets/new" \in NamedRoutes
        BY DEF NamedRoutes
    <2> QED
        BY <1>3, <2>3, <2>4, NamedPlaces, OpenToRole
<1>4. CASE q = CsatAt(p.id) /\ Page(p) = "TicketDetailPage" /\ s = "employee"
    <2>1. p.id \in Tickets
        BY <1>4, PageRoutes, PlaceIds DEF WithId
    <2>2. q.route = "/csat/:id"
        BY <1>4 DEF CsatAt
    <2>3. s \in Allowed(q)
        BY <1>4, <2>2, WhoSees DEF Allowed
    <2> QED
        BY <1>4, <2>1, <2>2, <2>3, NamedPlaces, Stays
<1>5. CASE q = TicketAt(p.id) /\ Page(p) = "CsatPage"
    <2>1. p.id \in Tickets
        BY <1>5, PageRoutes, PlaceIds DEF WithId
    <2> QED
        BY <1>5, <2>1, NamedPlaces, OpenToAll
<1> QED
    BY <1>1, <1>2, <1>3, <1>4, <1>5
    DEF PageLinks, NewTicketLink, LoginLinks, RegisterLinks, PendingLinks, SurveyLinks, BackToTicket

\* Who may see the pages.
LEMMA Sight ==
    ASSUME NEW p \in Places
    PROVE  Allowed(p) \in {Public, Roles, {"employee"}, {"admin"}, Technicians}
<1>1. \A e \in RouteTable : e[3] \in {Public, Roles, {"employee"}, {"admin"}, Technicians}
    BY DEF RouteTable
<1> QED
    BY <1>1, PlaceEntry

\* A session that a place is kept for has a role.
LEMMA Sighted ==
    ASSUME NEW s \in Sessions, NEW p \in Places, Protected(p), s \in Allowed(p)
    PROVE  s \in Roles
<1>1. Allowed(p) \in {Roles, {"employee"}, {"admin"}, Technicians}
    BY Sight DEF Protected
<1>2. s # "loading" /\ s # "nobody"
    BY <1>1, Guards DEF Technicians
<1> QED
    BY <1>2 DEF Sessions

LEMMA LinksStay ==
    ASSUME NEW s \in Sessions, NEW p \in Places, NEW q \in Links(s, p)
    PROVE  q \in Places /\ (s \in Roles => Onward(s, q) = q)
<1>1. CASE ~Protected(p)
    BY <1>1, PageLinksLead DEF Links
<1>2. CASE Protected(p) /\ s \in Allowed(p)
    <2>1. s \in Roles /\ q \in NavItems(s) \cup PageLinks(Page(p), s, p.id)
        BY <1>2, Sighted DEF Links
    <2>2. CASE q \in NavItems(s)
        BY <2>1, <2>2, NavItemsLead
    <2>3. CASE q \in PageLinks(Page(p), s, p.id)
        BY <1>2, <2>3, PageLinksLead
    <2> QED
        BY <2>1, <2>2, <2>3
<1> QED
    BY <1>1, <1>2 DEF Links

\* The pages that handlers go to.
LEMMA TargetsStay ==
    ASSUME NEW q \in Targets
    PROVE  q \in Places /\ \A s \in Roles : Onward(s, q) = q
<1>1. CASE q = At("/pending")
    BY <1>1, NamedPlaces, OpenToAll DEF NamedRoutes
<1>2. CASE \E t \in Tickets : q = TicketAt(t)
    BY <1>2, NamedPlaces, OpenToAll
<1> QED
    BY <1>1, <1>2 DEF Targets

\* Two redirects at most, whoever is signed in and wherever the tab is; the login page,
\* the wildcard and the home page send nobody round in a circle.
THEOREM RedirectsSettle ==
    \A s \in Sessions : \A p \in Places :
        LET q == Onward(s, Onward(s, p)) IN Onward(s, q) = q
<1> SUFFICES ASSUME NEW s \in Sessions, NEW p \in Places
             PROVE  LET q == Onward(s, Onward(s, p)) IN Onward(s, q) = q
    OBVIOUS
<1>1. At("/").route = "/" /\ At("/login").route = "/login" /\ Entry("/")[3] = Roles
    BY WhoSees DEF At
<1>2. Protected(At("/")) /\ ~Protected(At("/login"))
    BY <1>1, Guards DEF Allowed
<1>3. s = "loading" => Onward(s, At("/")) = At("/")
    BY <1>1 DEF Onward
<1>4. Onward(s, At("/login")) = At("/login")
    BY <1>1, <1>2 DEF Onward
<1>5. s = "nobody" => Onward(s, At("/")) = At("/login")
    BY <1>1, <1>2 DEF Onward
<1>6. ASSUME s \in Roles
      PROVE  /\ Onward(s, At("/")) = At(HomeOf(s))
             /\ Onward(s, At(HomeOf(s))) = At(HomeOf(s))
    <2>1. s # "loading" /\ s # "nobody" /\ s \in Allowed(At("/"))
        BY <1>1, <1>6, Guards DEF Allowed
    <2>2. Onward(s, At("/")) = At(HomeOf(s))
        BY <1>1, <1>2, <2>1 DEF Onward
    <2>3. HomeOf(s) # "*" /\ HomeOf(s) # "/" /\ s \in Entry(HomeOf(s))[3]
        BY <1>6, Homes DEF NamedRoutes
    <2> QED
        BY <1>6, <2>2, <2>3, OpenToRole
<1>7. Onward(s, p) \in {p, At("/"), At("/login")} \/ (s \in Roles /\ Onward(s, p) = At(HomeOf(s)))
    BY DEF Onward, Sessions
<1>8. s = "loading" \/ s = "nobody" \/ s \in Roles
    BY DEF Sessions
<1> QED
    BY <1>3, <1>4, <1>5, <1>6, <1>7, <1>8

--------------------------------------------------------------------------------
(* The ticket page.                                                        *)

\* A step that takes the tab elsewhere, or changes who is signed in.
Travels ==
    \/ Follow \/ Redirect \/ SignedOff \/ LoggedOut
    \/ \E p \in PlacesOf[watched] \cup {At("/")} : GoTo(p)
    \/ \E role \in Roles : SignedIn(role)
    \/ \E s \in Sessions : Known(s)

\* A step of the ticket page or of the backend behind it.
TicketStep ==
    \/ OnTicket /\ (ReadTicket(place.id) \/ RunAction(place.id, Staff(session)))
    \/ \E t \in beats : Beat(t)
    \/ \E i \in DOMAIN calls : Delivered(i, place.id, Staff(session)) \/ Lost(i)
    \/ \E t \in Tickets : ChangedByOthers(t)
    \/ \E t : Lapses(t)

\* A step that leaves the tab where it is, and the ticket page alone.
PageStep ==
    /\ UNCHANGED <<routeVars, ticketVars>>
    /\ mounted' = mounted \/ (~mounted' /\ watched # "TicketDetailPage")

\* Every step, as far as the place and the ticket page are concerned.
LEMMA TabSteps ==
    ASSUME [Next]_vars
    PROVE  \/ Travels /\ Rerender
           \/ Reload
           \/ Enter
           \/ \E i \in DOMAIN net : Gone(i)
           \/ PageStep
           \/ UNCHANGED <<routeVars, pageVars>> /\ TicketStep
<1>1. CASE UNCHANGED vars \/ CalmDown
    BY <1>1 DEF vars, CalmDown, PageStep, pageVars, viewVars
<1>2. CASE \/ FollowLink \/ Redirected \/ UserKnown \/ Logout \/ UserLost
           \/ \E role \in Roles : Login(role)
    BY <1>2 DEF FollowLink, Redirected, UserKnown, Logout, UserLost, Login, Travels
<1>3. CASE \E p \in PlacesOf[watched] \cup {At("/")} : GoBack(p)
    BY <1>3 DEF GoBack, Travels
<1>4. CASE Hide
    BY <1>4 DEF Hide, Disappear, StepBack, KeepsRows, PageStep
<1>5. CASE ClickControl \/ ClickWrite \/ Poll \/ Tell \/ ServerChanges
    BY <1>5
    DEF ClickControl, ClickWrite, Poll, PollTick, Tell, Told, ServerChanges, OnPage, PageStep,
        RefineRows, TurnPage, SearchRows, Submit, ReadAgain, OthersWrite, viewVars
<1>6. CASE \E i \in DOMAIN net : ServerAnswers(i) \/ Arrives(i) \/ Fails(i)
    BY <1>6
    DEF ServerAnswers, Arrives, Fails, OnPage, PageStep, Answer, ReadAnswered, WriteAnswered,
        ReadFails, WriteFails
<1>7. CASE \/ ReadTicketAgain \/ KeepLock \/ ClickAction \/ TicketChanges
           \/ \E i \in DOMAIN calls : CallAnswered(i) \/ CallFails(i)
           \/ \E t \in Tickets \ beats : LockLapses(t)
           \/ \E t \in beats : LockLapses(t)
    BY <1>7
    DEF ReadTicketAgain, KeepLock, ClickAction, TicketChanges, CallAnswered, CallFails, LockLapses,
        OnTicketPage, TicketStep
<1> QED
    BY <1>1, <1>2, <1>3, <1>4, <1>5, <1>6, <1>7 DEF Next, Step, Disturbance, Mount, ShowEvents

\* The place, the ticket page, and which ticket it keeps locked.
TabInv ==
    /\ RoutesTypeOK
    /\ TicketTypeOK
    /\ mounted => watched \in OnScreen[session][place]
    /\ calls # <<>> => OnTicket
    /\ \A t \in beats : OnTicket /\ place.id = t

\* A place with the ticket page has a ticket.
LEMMA TicketPlace ==
    ASSUME NEW s \in Sessions, NEW p \in Places, "TicketDetailPage" \in OnScreen[s][p]
    PROVE  p.id \in Tickets
<1>1. "TicketDetailPage" \in ShellParts \/ "TicketDetailPage" \in Inside(Page(p))
    BY DEF OnScreen
<1>2. Page(p) = "TicketDetailPage"
    BY <1>1 DEF ShellParts, Inside
<1> QED
    BY <1>2, PageRoutes, PlaceIds DEF WithId

\* A call sent, or an answer gone.
LEMMA CallsOf ==
    ASSUME NEW s \in Seq(CallRecords), Len(s) <= MaxCalls
    PROVE  /\ Len(s) \in Nat
           /\ \A c \in CallRecords :
                Append(s, c) \in Seq(CallRecords) /\ Len(Append(s, c)) = Len(s) + 1
           /\ \A i \in DOMAIN s :
                /\ s[i] \in CallRecords
                /\ RemoveAt(s, i) \in Seq(CallRecords) /\ Len(RemoveAt(s, i)) = Len(s) - 1
BY AppendProperties, Elements, Removed

LEMMA AnsweredType ==
    ASSUME status \in [Tickets -> Statuses], NEW t \in Tickets, NEW op \in {"get", "lock", "act"}
    PROVE  Answered(op, t) \in CallRecords
BY DEF Answered, CallRecords

\* What the effect of the lock leaves behind.
LEMMA LockEffectTypes ==
    ASSUME status \in [Tickets -> Statuses], held \subseteq Tickets,
           NEW keep \in SUBSET Tickets, NEW answers \in Seq(CallRecords),
           LockEffect(keep, answers)
    PROVE  /\ beats' = keep
           /\ held' \subseteq Tickets
           /\ calls' \in Seq(CallRecords) /\ Len(calls') <= Len(answers) + 1
           /\ Len(answers) \in Nat /\ Len(calls') \in Nat
<1>1. PICK left \in Released(beats \ keep), granted \in SUBSET (keep \ beats) :
            held' = left \cup granted /\ calls' = answers \o Each("lock", granted)
    BY DEF LockEffect
<1>2. beats' = keep
    BY DEF LockEffect
<1>3. held' \subseteq Tickets
    BY <1>1 DEF Released
<1>4. Each("lock", granted) \in Seq(CallRecords) /\ Len(Each("lock", granted)) <= 1
    <2> DEFINE e == Each("lock", granted)
               n == IF granted = {} THEN 0 ELSE 1
    <2>1. n \in {0, 1} /\ (n = 1 => granted # {})
        OBVIOUS
    <2>2. e = [k \in 1..n |-> Answered("lock", CHOOSE t \in granted : TRUE)]
        BY DEF Each
    <2>3. n = 1 => (CHOOSE t \in granted : TRUE) \in Tickets
        BY <1>1
    <2>4. n = 1 => Answered("lock", CHOOSE t \in granted : TRUE) \in CallRecords
        BY <2>3, AnsweredType
    <2> HIDE DEF e, n
    <2>5. e = [k \in 1..n |-> e[k]] /\ \A k \in 1..n : e[k] \in CallRecords
        BY <2>1, <2>2, <2>4
    <2>6. e \in Seq(CallRecords) /\ Len(e) = n
        BY <2>1, <2>5, Mapped
    <2> QED
        BY <2>1, <2>6 DEF e
<1>5. /\ Len(answers) \in Nat /\ Len(Each("lock", granted)) \in Nat
      /\ calls' \in Seq(CallRecords)
      /\ Len(calls') = Len(answers) + Len(Each("lock", granted))
    BY <1>1, <1>4, ConcatProperties, LenProperties
<1> QED
    BY <1>2, <1>3, <1>4, <1>5

LEMMA TabInvInit == Init => TabInv
<1> SUFFICES ASSUME Init PROVE TabInv
    OBVIOUS
<1>1. /\ session = "loading" /\ place \in Places /\ mounted = FALSE
      /\ shown = None /\ failed = FALSE /\ beats = {} /\ calls = <<>>
      /\ status = [t \in Tickets |-> "open"] /\ held = {}
    BY DEF Init, RoutesInit, PagesInit, TicketInit
<1>2. RoutesTypeOK
    BY <1>1 DEF RoutesTypeOK, Sessions
<1>3. calls \in Seq(CallRecords) /\ Len(calls) <= MaxCalls
    BY <1>1, EmptySeq, TicketPageAssumption
<1>4. status \in [Tickets -> Statuses]
    BY <1>1 DEF Statuses
<1>5. TicketTypeOK
    BY <1>1, <1>3, <1>4 DEF TicketTypeOK
<1> QED
    BY <1>1, <1>2, <1>5 DEF TabInv

\* Whatever moves the tab leads to a place.
LEMMA TravelsTypes ==
    ASSUME RoutesTypeOK, watched \in DOMAIN Catalog, Travels
    PROVE  RoutesTypeOK'
<1>1. session \in Sessions /\ place \in Places /\ Roles \subseteq Sessions /\ "nobody" \in Sessions
    BY DEF RoutesTypeOK, Sessions
<1>2. At("/") \in Places
    BY NamedPlaces DEF NamedRoutes
<1>3. CASE Follow
    BY <1>1, <1>3, LinksStay DEF Follow, RoutesTypeOK
<1>4. CASE Redirect
    BY <1>1, <1>4, OnwardPlaces DEF Redirect, RoutesTypeOK
<1>5. CASE SignedOff \/ \E s \in Sessions : Known(s)
    BY <1>1, <1>5 DEF SignedOff, Known, RoutesTypeOK
<1>6. CASE LoggedOut
    <2>1. At("/login") \in Places
        BY NamedPlaces DEF NamedRoutes
    <2> QED
        BY <1>1, <1>6, <2>1 DEF LoggedOut, RoutesTypeOK
<1>7. CASE \E role \in Roles : SignedIn(role)
    BY <1>1, <1>2, <1>7 DEF SignedIn, RoutesTypeOK
<1>8. CASE \E p \in PlacesOf[watched] \cup {At("/")} : GoTo(p)
    <2>1. PICK p \in PlacesOf[watched] \cup {At("/")} : GoTo(p)
        BY <1>8
    <2>2. PlacesOf[watched] \subseteq Places
        BY DEF PlacesOf
    <2> QED
        BY <1>1, <1>2, <2>1, <2>2 DEF GoTo, RoutesTypeOK
<1> QED
    BY <1>3, <1>4, <1>5, <1>6, <1>7, <1>8 DEF Travels

\* A step to another place, or of the session.
LEMMA TravelsTab ==
    ASSUME TabInv, watched \in DOMAIN Catalog, watched' = watched, mounted \in BOOLEAN,
           Travels, Rerender
    PROVE  TabInv'
<1>1. RoutesTypeOK'
    BY TravelsTypes DEF TabInv
<1>2. session' \in Sessions /\ place' \in Places
    BY <1>1 DEF RoutesTypeOK
<1>3. CASE watched \notin OnScreen[session'][place']
    <2>1. mounted' = FALSE
        BY <1>3 DEF Rerender, Disappear
    <2>2. CASE OnTicket
        <3>1. Disappears(session' # "nobody")
            BY <1>3, <2>2 DEF Rerender
        <3>2. /\ calls' = <<>> /\ beats' = {} /\ shown' = None /\ failed' = FALSE /\ status' = status
              /\ held' \subseteq held
            BY <3>1 DEF Disappears, Released
        <3>3. calls' \in Seq(CallRecords) /\ Len(calls') <= MaxCalls
            BY <3>2, EmptySeq, TicketPageAssumption
        <3>4. TicketTypeOK'
            BY <3>2, <3>3 DEF TabInv, TicketTypeOK
        <3> QED
            BY <1>1, <2>1, <3>2, <3>4 DEF TabInv
    <2>3. CASE ~OnTicket
        <3>1. UNCHANGED <<shown, failed, beats, calls, status, held>>
            BY <1>3, <2>3 DEF Rerender, ticketVars, pageState, serverState
        <3>2. calls = <<>> /\ beats = {}
            BY <2>3 DEF TabInv
        <3>3. TicketTypeOK'
            BY <3>1 DEF TabInv, TicketTypeOK
        <3> QED
            BY <1>1, <2>1, <3>1, <3>2, <3>3 DEF TabInv
    <2> QED
        BY <2>2, <2>3
<1>4. CASE watched \in OnScreen[session'][place']
    <2>1. mounted' = mounted /\ (OnTicket' <=> OnTicket)
        BY <1>4 DEF Rerender, pageVars, viewVars, OnTicket
    <2>2. CASE ~(OnTicket /\ place'.id # place.id)
        <3>1. UNCHANGED <<shown, failed, beats, calls, status, held>>
            BY <1>4, <2>2 DEF Rerender, ticketVars, pageState, serverState
        <3>2. TicketTypeOK'
            BY <3>1 DEF TabInv, TicketTypeOK
        <3>3. (calls # <<>> => OnTicket)'
            BY <2>1, <3>1 DEF TabInv
        <3>4. (\A t \in beats : OnTicket /\ place.id = t)'
            BY <2>1, <2>2, <3>1 DEF TabInv
        <3> QED
            BY <1>1, <1>4, <3>2, <3>3, <3>4 DEF TabInv
    <2>3. CASE OnTicket /\ place'.id # place.id
        <3> DEFINE keep == Keep(place'.id, Staff(session'), shown)
                   answers == Append(calls, Answered("get", place'.id))
        <3>1. AnotherTicket(place'.id, Staff(session'))
            BY <1>4, <2>3 DEF Rerender
        <3>2. /\ LockEffect(keep, answers) /\ Len(calls') <= MaxCalls
              /\ UNCHANGED <<shown, failed, status>>
            BY <3>1 DEF AnotherTicket
        <3>3. place'.id \in Tickets
            BY <1>2, <1>4, <2>3, TicketPlace DEF OnTicket
        <3>4. keep \subseteq Tickets /\ \A t \in keep : t = place'.id
            BY <3>3 DEF Keep
        <3>5. Answered("get", place'.id) \in CallRecords
            BY <3>3, AnsweredType DEF TabInv, TicketTypeOK
        <3>6. answers \in Seq(CallRecords)
            BY <3>5, CallsOf DEF TabInv, TicketTypeOK
        <3> HIDE DEF keep, answers
        <3>7. beats' = keep /\ held' \subseteq Tickets /\ calls' \in Seq(CallRecords)
            BY <3>2, <3>4, <3>6, LockEffectTypes DEF TabInv, TicketTypeOK
        <3>8. TicketTypeOK'
            BY <3>2, <3>4, <3>7 DEF TabInv, TicketTypeOK
        <3> QED
            BY <1>1, <1>4, <2>1, <2>3, <3>4, <3>7, <3>8 DEF TabInv
    <2> QED
        BY <2>2, <2>3
<1> QED
    BY <1>3, <1>4

\* The page is loaded again, or the component appears.
LEMMA ReloadTab ==
    ASSUME TabInv, Reload
    PROVE  TabInv'
<1>1. session' = "loading" /\ place' = place /\ mounted' = FALSE
    BY DEF Reload, Reloaded
<1>2. RoutesTypeOK'
    BY <1>1 DEF TabInv, RoutesTypeOK, Sessions
<1>3. /\ calls' = <<>> /\ beats' = {} /\ shown' = None /\ failed' = FALSE /\ status' = status
      /\ held' \subseteq held
    BY DEF Reload, Disappears, Released
<1>4. calls' \in Seq(CallRecords) /\ Len(calls') <= MaxCalls
    BY <1>3, EmptySeq, TicketPageAssumption
<1>5. TicketTypeOK'
    BY <1>3, <1>4 DEF TabInv, TicketTypeOK
<1> QED
    BY <1>1, <1>2, <1>3, <1>5 DEF TabInv

LEMMA MountTab ==
    ASSUME TabInv, Enter
    PROVE  TabInv'
<1>1. /\ watched \in OnScreen[session][place] /\ ~mounted /\ mounted' = TRUE /\ watched' = watched
      /\ session' = session /\ place' = place
    BY DEF Enter, Appear, routeVars
<1>2. RoutesTypeOK' /\ (mounted => watched \in OnScreen[session][place])'
    BY <1>1 DEF TabInv, RoutesTypeOK
<1>3. calls = <<>> /\ beats = {}
    BY <1>1 DEF TabInv, OnTicket
<1>4. CASE watched = "TicketDetailPage"
    <2>1. /\ calls' = <<Answered("get", place.id)>>
          /\ shown' = None /\ failed' = FALSE /\ UNCHANGED <<beats, status, held>>
        BY <1>4 DEF Enter, Appears, serverState
    <2>2. place.id \in Tickets
        BY <1>1, <1>4, TicketPlace DEF TabInv, RoutesTypeOK
    <2>3. Answered("get", place.id) \in CallRecords
        BY <2>2, AnsweredType DEF TabInv, TicketTypeOK
    <2>4. calls' \in Seq(CallRecords) /\ Len(calls') <= MaxCalls
        BY <2>1, <2>3, TicketPageAssumption
    <2>5. TicketTypeOK'
        BY <2>1, <2>4 DEF TabInv, TicketTypeOK
    <2>6. OnTicket'
        BY <1>1, <1>4 DEF OnTicket
    <2> QED
        BY <1>2, <1>3, <2>1, <2>5, <2>6 DEF TabInv
<1>5. CASE watched # "TicketDetailPage"
    <2>1. UNCHANGED <<shown, failed, beats, calls, status, held>>
        BY <1>5 DEF Enter, ticketVars, pageState, serverState
    <2>2. TicketTypeOK'
        BY <2>1 DEF TabInv, TicketTypeOK
    <2> QED
        BY <1>2, <1>3, <2>1, <2>2 DEF TabInv
<1> QED
    BY <1>4, <1>5

\* A handler of another component moves the tab.
LEMMA GoneTab ==
    ASSUME PagesInv, SameWatched, TabInv, NEW i \in DOMAIN net, Gone(i)
    PROVE  TabInv'
<1>1. watched # "TicketDetailPage"
    <2>1. Catalog["TicketDetailPage"].writes = {}
        BY DEF Catalog, TicketDetailPage, Once
    <2> QED
        BY <2>1, GoneInv DEF Navigator, C
<1>2. PICK p \in Targets : GoTo(p) /\ mounted' = (mounted /\ watched \in OnScreen[session][p])
    BY DEF Gone
<1>3. session' = session /\ place' = p /\ p \in Places /\ watched' = watched
    BY <1>2, TargetsStay DEF GoTo, Gone
<1>4. RoutesTypeOK'
    BY <1>3 DEF TabInv, RoutesTypeOK
<1>5. UNCHANGED <<shown, failed, beats, calls, status, held>>
    BY DEF Gone, ticketVars, pageState, serverState
<1>6. TicketTypeOK'
    BY <1>5 DEF TabInv, TicketTypeOK
<1>7. calls = <<>> /\ beats = {}
    BY <1>1 DEF TabInv, OnTicket
<1> QED
    BY <1>2, <1>3, <1>4, <1>5, <1>6, <1>7 DEF TabInv

LEMMA PageStepTab ==
    ASSUME TabInv, watched' = watched, PageStep
    PROVE  TabInv'
<1>1. UNCHANGED <<session, place, shown, failed, beats, calls, status, held>>
    BY DEF PageStep, routeVars, ticketVars, pageState, serverState
<1>2. RoutesTypeOK' /\ TicketTypeOK'
    BY <1>1 DEF TabInv, RoutesTypeOK, TicketTypeOK
<1>3. (mounted => watched \in OnScreen[session][place])'
    BY <1>1 DEF TabInv, PageStep
<1>4. OnTicket => OnTicket'
    BY DEF OnTicket, PageStep
<1> QED
    BY <1>1, <1>2, <1>3, <1>4 DEF TabInv

\* A step of the ticket page: an answer is about its ticket, and so is a lock it sets
\* out to keep.
LEMMA TicketStepTab ==
    ASSUME TabInv, UNCHANGED <<routeVars, pageVars>>, TicketStep
    PROVE  TabInv'
<1>1. UNCHANGED <<session, place, watched, mounted>>
    BY DEF routeVars, pageVars, viewVars
<1>2. /\ RoutesTypeOK' /\ (mounted => watched \in OnScreen[session][place])'
      /\ (OnTicket' <=> OnTicket)
    BY <1>1 DEF TabInv, RoutesTypeOK, OnTicket
<1>3. OnTicket => place.id \in Tickets
    BY TicketPlace DEF TabInv, RoutesTypeOK, OnTicket
<1>4. /\ shown \in [id : Tickets, status : Statuses] \cup {None} /\ failed \in BOOLEAN
      /\ calls \in Seq(CallRecords) /\ Len(calls) <= MaxCalls
      /\ status \in [Tickets -> Statuses] /\ held \subseteq Tickets /\ beats \subseteq Tickets
    BY DEF TabInv, TicketTypeOK
<1>5. SUFFICES /\ shown' \in [id : Tickets, status : Statuses] \cup {None} /\ failed' \in BOOLEAN
               /\ calls' \in Seq(CallRecords) /\ Len(calls') <= MaxCalls
               /\ status' \in [Tickets -> Statuses] /\ held' \subseteq Tickets
               /\ beats' = beats \/ beats' \subseteq {place.id}
               /\ calls' # <<>> \/ beats' # {} => OnTicket
    <2>1. beats' \subseteq Tickets
        BY <1>3, <1>4, <1>5
    <2>2. TicketTypeOK'
        BY <1>5, <2>1 DEF TicketTypeOK
    <2>3. (\A t \in beats : OnTicket /\ place.id = t)'
        BY <1>1, <1>2, <1>5 DEF TabInv
    <2> QED
        BY <1>2, <1>5, <2>2, <2>3 DEF TabInv
<1>6. ASSUME OnTicket, NEW c \in CallRecords, Send(c)
      PROVE  /\ UNCHANGED <<shown, failed, beats>>
             /\ calls' \in Seq(CallRecords) /\ Len(calls') <= MaxCalls
    <2>1. /\ calls' = Append(calls, c) /\ Len(calls) + 1 < MaxCalls
          /\ UNCHANGED <<shown, failed, beats>>
        BY <1>6 DEF Send
    <2> QED
        BY <1>4, <1>6, <2>1, CallsOf, TicketPageAssumption
<1>7. CASE OnTicket /\ ReadTicket(place.id)
    <2>1. Answered("get", place.id) \in CallRecords
        BY <1>3, <1>4, <1>7, AnsweredType
    <2>2. Send(Answered("get", place.id)) /\ UNCHANGED <<status, held>>
        BY <1>7 DEF ReadTicket, serverState
    <2> QED
        BY <1>4, <1>6, <1>7, <2>1, <2>2
<1>8. CASE OnTicket /\ RunAction(place.id, Staff(session))
    <2>1. PICK s \in Statuses :
            /\ Send([op |-> "act", id |-> place.id, status |-> "open"])
            /\ status' = [status EXCEPT ![shown.id] = s] /\ held' = held
        BY <1>8 DEF RunAction
    <2>2. [op |-> "act", id |-> place.id, status |-> "open"] \in CallRecords
        BY <1>3, <1>8 DEF CallRecords, Statuses
    <2>3. status' \in [Tickets -> Statuses]
        BY <1>4, <2>1
    <2> QED
        BY <1>4, <1>6, <1>8, <2>1, <2>2, <2>3
<1>9. CASE \E t \in beats : Beat(t)
    <2>1. PICK t \in beats : Beat(t)
        BY <1>9
    <2>2. OnTicket /\ Answered("lock", t) \in CallRecords
        BY <1>4, AnsweredType DEF TabInv
    <2>3. Send(Answered("lock", t)) /\ UNCHANGED <<status, held>>
        BY <2>1 DEF Beat, serverState
    <2> QED
        BY <1>4, <1>6, <2>2, <2>3
<1>10. ASSUME NEW i \in DOMAIN calls, Delivered(i, place.id, Staff(session)) \/ Lost(i)
       PROVE  /\ OnTicket /\ calls[i] \in CallRecords
              /\ RemoveAt(calls, i) \in Seq(CallRecords)
              /\ Len(RemoveAt(calls, i)) + 1 <= MaxCalls /\ Len(RemoveAt(calls, i)) \in Nat
    <2>1. calls # <<>>
        BY <1>10
    <2>2. /\ calls[i] \in CallRecords /\ RemoveAt(calls, i) \in Seq(CallRecords)
          /\ Len(RemoveAt(calls, i)) = Len(calls) - 1 /\ Len(RemoveAt(calls, i)) \in Nat
        BY <1>4, CallsOf, Elements
    <2> QED
        BY <1>4, <2>1, <2>2, TicketPageAssumption DEF TabInv
<1>11. ASSUME NEW i \in DOMAIN calls, Delivered(i, place.id, Staff(session)), calls[i].op = "act"
       PROVE  /\ UNCHANGED <<shown, failed, beats, status, held>>
              /\ calls' \in Seq(CallRecords) /\ Len(calls') <= MaxCalls /\ OnTicket
    <2>1. /\ calls' = Append(RemoveAt(calls, i), Answered("get", calls[i].id))
          /\ UNCHANGED <<shown, failed, beats, status, held>>
        BY <1>11 DEF Delivered
    <2>2. calls[i].id \in Tickets
        BY <1>10, <1>11 DEF CallRecords
    <2>3. Answered("get", calls[i].id) \in CallRecords
        BY <1>4, <2>2, AnsweredType
    <2> QED
        BY <1>10, <1>11, <2>1, <2>3, AppendProperties
<1>12. ASSUME NEW i \in DOMAIN calls, Delivered(i, place.id, Staff(session)), calls[i].op # "act"
       PROVE  /\ shown' \in [id : Tickets, status : Statuses] /\ UNCHANGED <<failed, status>>
              /\ held' \subseteq Tickets /\ beats' \subseteq {place.id}
              /\ calls' \in Seq(CallRecords) /\ Len(calls') <= MaxCalls /\ OnTicket
    <2>1. /\ shown' = [id |-> calls[i].id, status |-> calls[i].status]
          /\ LockEffect(Keep(place.id, Staff(session), shown'), RemoveAt(calls, i))
          /\ UNCHANGED <<failed, status>>
        BY <1>12 DEF Delivered
    <2>2. shown' \in [id : Tickets, status : Statuses]
        BY <1>10, <1>12, <2>1 DEF CallRecords
    <2>3. /\ Keep(place.id, Staff(session), shown') \subseteq Tickets
          /\ Keep(place.id, Staff(session), shown') \subseteq {place.id}
        BY <1>3, <1>10, <1>12 DEF Keep
    <2>4. /\ beats' = Keep(place.id, Staff(session), shown') /\ held' \subseteq Tickets
          /\ calls' \in Seq(CallRecords) /\ Len(calls') <= Len(RemoveAt(calls, i)) + 1
          /\ Len(calls') \in Nat
        BY <1>4, <1>10, <1>12, <2>1, <2>3, LockEffectTypes
    <2>5. Len(calls') <= MaxCalls
        BY <1>10, <1>12, <2>4, TicketPageAssumption
    <2> QED
        BY <1>10, <1>12, <2>1, <2>2, <2>3, <2>4, <2>5
<1>13. CASE \E i \in DOMAIN calls : Delivered(i, place.id, Staff(session))
    BY <1>4, <1>11, <1>12, <1>13
<1>14. CASE \E i \in DOMAIN calls : Lost(i)
    <2>1. PICK i \in DOMAIN calls : Lost(i)
        BY <1>14
    <2>2. /\ calls' = RemoveAt(calls, i) /\ failed' = (failed \/ calls[i].op = "get")
          /\ UNCHANGED <<shown, beats, status, held>>
        BY <2>1 DEF Lost, serverState
    <2>3. Len(calls') <= MaxCalls
        BY <1>10, <2>1, <2>2, TicketPageAssumption
    <2> QED
        BY <1>4, <1>10, <2>1, <2>2, <2>3
<1>15. CASE (\E t \in Tickets : ChangedByOthers(t)) \/ \E t : Lapses(t)
    <2>1. UNCHANGED <<shown, failed, beats, calls>>
        BY <1>15 DEF ChangedByOthers, Lapses, pageState
    <2>2. status' \in [Tickets -> Statuses]
        BY <1>4, <1>15 DEF ChangedByOthers, Lapses, Statuses
    <2>3. held' \subseteq Tickets
        BY <1>4, <1>15 DEF ChangedByOthers, Lapses
    <2> QED
        BY <1>4, <2>1, <2>2, <2>3 DEF TabInv
<1> QED
    BY <1>7, <1>8, <1>9, <1>13, <1>14, <1>15 DEF TicketStep

\* Where the tab is, what the ticket page has in flight, and the locks it keeps: the
\* calls under way are those of a ticket page on the screen, and a timer refreshes the
\* lock of no ticket but the one of the address, wherever the tab goes and whatever is
\* answered late.
THEOREM TabInvariant == Spec => []TabInv
<1>1. PagesInv /\ TabInv /\ [Next]_vars => TabInv'
    <2> SUFFICES ASSUME PagesInv, TabInv, [Next]_vars PROVE TabInv'
        OBVIOUS
    <2>1. watched \in DOMAIN Catalog /\ mounted \in BOOLEAN
        BY DEF PagesInv, PagesTypeOK
    <2>2. SameWatched
        BY SameComponent DEF SameWatched
    <2>3. watched' = watched
        BY <2>2 DEF SameWatched
    <2> QED
        BY <2>1, <2>2, <2>3, TabSteps, TravelsTab, ReloadTab, MountTab, GoneTab, PageStepTab,
            TicketStepTab
<1> QED
    BY TabInvInit, <1>1, PagesInvariant, PTL DEF Spec

\* The types of everything in the tab, for any tickets and any number of calls under way.
THEOREM TypesHold == Spec => []TypeOK
<1>1. PagesInv /\ TabInv => TypeOK
    BY DEF PagesInv, TabInv, TypeOK
<1> QED
    BY <1>1, PagesInvariant, TabInvariant, PTL

\* No link of a page and no handler leads anyone to a place that sends him on, from
\* wherever the tab can be.
THEOREM LinksLeadAlways == Spec => []LinksLead
<1>1. RoutesTypeOK => LinksLead
    BY LinksStay, TargetsStay DEF RoutesTypeOK, LinksLead
<1>2. TabInv => LinksLead
    BY <1>1 DEF TabInv
<1> QED
    BY <1>2, TabInvariant, PTL

\* A lock is new to the tab only if it is that of its address, on the ticket page of
\* somebody who may have it, and the ticket shown is open.
TakesOnlyItsOwn ==
    [][\A t \in held' \ held :
         OnTicket' /\ place'.id = t /\ Staff(session') /\ shown' # None /\ shown'.status = "open"]_vars

\* The effect of the lock takes no other lock than the one to keep.
LEMMA LockEffectTakes ==
    ASSUME NEW id, NEW staff, NEW ticket, NEW answers,
           LockEffect(Keep(id, staff, ticket), answers)
    PROVE  \A t \in held' \ held : t = id /\ staff /\ ticket # None /\ ticket.status = "open"
<1>1. held' \subseteq held \cup Keep(id, staff, ticket)
    BY DEF LockEffect, Released
<1> QED
    BY <1>1 DEF Keep

\* Wherever the tab goes and whichever answers come late, it takes no lock but that of
\* its address.
THEOREM TakesOnlyItsOwnAlways == Spec => TakesOnlyItsOwn
<1>1. ASSUME PagesInv, TabInv, [Next]_vars, NEW t \in held' \ held
      PROVE  /\ OnTicket' /\ place'.id = t /\ Staff(session')
             /\ shown' # None /\ shown'.status = "open"
    <2>1. held' # held
        BY <1>1
    <2>2. CASE Travels /\ Rerender
        <3>1. watched \in OnScreen[session'][place']
            BY <1>1, <2>2 DEF Rerender, Disappears, Released, ticketVars, serverState
        <3>2. OnTicket /\ AnotherTicket(place'.id, Staff(session')) /\ UNCHANGED pageVars
            BY <2>1, <2>2, <3>1 DEF Rerender, ticketVars, serverState
        <3>3. /\ LockEffect(Keep(place'.id, Staff(session'), shown),
                            Append(calls, Answered("get", place'.id)))
              /\ shown' = shown
            BY <3>2 DEF AnotherTicket
        <3>4. t = place'.id /\ Staff(session') /\ shown # None /\ shown.status = "open"
            BY <1>1, <3>3, LockEffectTakes
        <3>5. OnTicket'
            BY <3>2 DEF OnTicket, pageVars, viewVars
        <3> QED
            BY <3>3, <3>4, <3>5 DEF Staff
    <2>3. CASE Reload
        BY <1>1, <2>3 DEF Reload, Disappears, Released
    <2>4. CASE Enter \/ PageStep \/ \E i \in DOMAIN net : Gone(i)
        BY <2>1, <2>4 DEF Enter, Appears, PageStep, Gone, ticketVars, serverState
    <2>5. CASE UNCHANGED <<routeVars, pageVars>> /\ TicketStep
        <3>1. PICK i \in DOMAIN calls : Delivered(i, place.id, Staff(session))
            BY <1>1, <2>1, <2>5
            DEF TicketStep, ReadTicket, RunAction, Beat, Lost, ChangedByOthers, Lapses, serverState
        <3>2. LockEffect(Keep(place.id, Staff(session), shown'), RemoveAt(calls, i))
            BY <2>1, <3>1 DEF Delivered
        <3>3. t = place.id /\ Staff(session) /\ shown' # None /\ shown'.status = "open"
            BY <1>1, <3>2, LockEffectTakes
        <3>4. OnTicket
            BY <1>1, <3>1 DEF TabInv
        <3>5. OnTicket' /\ place' = place /\ session' = session
            BY <2>5, <3>4 DEF OnTicket, pageVars, viewVars, routeVars
        <3> QED
            BY <3>3, <3>5 DEF Staff
    <2> QED
        BY <1>1, <2>2, <2>3, <2>4, <2>5, TabSteps
<1>2. PagesInv /\ TabInv /\ [Next]_vars =>
        \A t \in held' \ held :
          OnTicket' /\ place'.id = t /\ Staff(session') /\ shown' # None /\ shown'.status = "open"
    BY <1>1
<1> QED
    BY <1>2, PagesInvariant, TabInvariant, PTL DEF Spec, TakesOnlyItsOwn
================================================================================
