# A formal model of the Sam Loc socket engine

TLA+ modules, TLC runs and TLAPS proofs about the program under `src/`: a
server for the Vietnamese card game Sâm Lốc (C++, one `poll` loop, SQLite) and
its SFML client. `PROJECT.json` lists components, runs, mutants, the lines each
definition models, findings, hazards and theorems.

## 1. Inventory of the system

| Part | Where | State | Operations |
|---|---|---|---|
| Room game | `server/logic/game` | seats in a vector with flags and hands, phase, turn index, trick owner, table, countdown | `addPlayer`, `removePlayer`, `setPlayerReady`, `playCards`, `passTurn`, `onPlayerDisconnect`, `update` |
| Game handler | `server/handler/game`, `room_repository` | `games`, `userRoomMap`; tables `rooms`, `room_players` | join, ready, play, pass, leave, disconnect, update loop |
| Connections and sessions | `server/main.cpp`, `server/handler/connection`, `server/handler/session` | handlers by descriptor, `boundUserId`, `SessionManager::sessions` | accept, read, bind, dispatch, close |
| Authentication | `server/logic/auth`, `server/handler/auth` | tables `players`, `sessions` | signup, login, logout, balance |
| Friends | `server/logic/friend`, `friend_repository` | tables `friend_requests`, `friends` | send, accept, decline, remove, lists |
| Chat | `server/logic/chat`, `server/handler/chat` | table `private_chats` | direct message, room message, history |
| Challenges, private rooms | `server/logic/challenge`, `server/logic/private_room` | table `rooms` | create a room, notify a friend |
| Lucky wheel | `server/logic/lucky_wheel` | `players.balance`, spin history | spin |
| Ranking | `server/logic/rank` | none | one query |
| Database | `server/db` | SQLite file, `migrations` | statements, migrations |
| Client core | `client/core`, `client/net`, `client/main.cpp` | socket, receiver thread, event queue | connect, receive, push, drain |
| Client handlers | `client/handlers`, `client/logic` | `ClientSession`, pending callbacks, acknowledgement timer | one handler per message type |
| Client screens | `client/ui` | current screen, pending transition, popups, what was last shown | events, update, draw |

**Interaction.** The server is single-threaded: each round of the loop in
`server/main.cpp` first calls `GameHandler::updateLoop` (timers), then reads every
readable socket, and each complete message is handled to its end before the
next. So handlers are atomic with respect to each other, and all concurrency is
in the *order* in which messages, broken connections and timers are
handled. State is shared between the parts by user id (`SessionManager`,
`userRoomMap`, seats), by room id and by the database. The client has two
threads, the receiver that pushes messages into a queue and the drawing loop that
drains it, and one more for each chat message that waits for its acknowledgement.
Message handlers of the client call the screens through callbacks that the
screens set when they are entered, and that some of them clear when they are left.

**What is hard.** A seat given up in the middle of a hand under an index that is not
adjusted; a connection that breaks during the player's own turn; timers against late
messages; the end of a hand reached from three handlers; balances that other rooms and
the wheel change during a hand; a connection whose user changes (logout, login) while
the server keeps the first binding; two connections of one user; tables that have to
follow the maps in memory; several statements without a transaction, each of which may
fail, mostly without anybody looking; answers that arrive at another screen than the one
that asked; threads that share one flag; a thread that is joined while it is blocked; a
balance with three writers; scripts that are run again from their beginning.

**What makes each part correct.** Room: one place for each card, the turn with somebody
who can move, tricks that end, hands that end when opponents are missing, payments that
add up and are covered by what the room has asked for. Handler: a seat, its mapping and
its row agree. Sessions: no reference to a deleted connection, a binding that traces
back to a login. Friends: symmetric friendship, consent, lists that follow. Chat: an
acknowledgement for the message it belongs to, a wait that ends, a window that shows the
table. Wheel: the balance of the client's session is the row's. Migrations: refused only
where something was cut off before. Client: no callback into a screen that is gone, the
screen of the seat the server has, a program that ends.

## 2. Modules

| Module | Models | Correspondence |
|---|---|---|
| `SamLocRules` | `analyzeHand`, `canBeat` | a combination is a set of cards; the sorted array is replaced by values and a greatest value |
| `MCRules` | one trick, for TLC | any legal combination leads, any that beats the table follows; `SortedType` is the code's loop over the sorted cards, each at the place that the number of cards before it gives, as reference |
| `TurnOrder` | what a room promises about turns | players in a ring; no indices, no cards, no money |
| `SamLocGame` | class `SamLocGame` and the calls `GameHandler` makes into one room | one action per method; `vector<Player>` becomes `seats` and one set per flag; `players.balance` is `wallet`, each UPDATE of which may fail; other rooms and the wheel change it too |
| `MCGame` | small rooms for TLC | a deck, balances, what is won and lost elsewhere, symmetry |
| `RoomStates` | a game as `GameHandler` sees it | a record: who is seated, who of them is disconnected, the phase |
| `Room` | the life of one room in those terms | implemented by `SamLocGame` |
| `GameHandler` | `userRoomMap`, `games`, table `room_players`, over several rooms | one action per message type that changes them; each game is a record of `RoomStates` |
| `MCGameHandler` | symmetry of users and rooms, for TLC | |
| `Sessions`, `MCSessions` | `main`'s connections, `boundUserId`, `SessionManager`, login and logout with the client side of both | messages under way are sequences per connection; one action per handler or click; the second module is symmetry for TLC |
| `Friendship` | what the server promises: asked first, then friends, parted on both sides at once | couples and who has asked |
| `Friends` | `FriendLogic`, `FriendRepository` | tables are sets of directed rows; an acceptance is one action per statement; statements may fail |
| `FriendsScreen` | the server's `FriendHandler`, the client's handler and `FriendsState` | one action per click, per message the server handles, per answer |
| `RoomService` | `GameHandler` with its messages, as one user's client sees it | the user's entry in `userRoomMap`, and a record for the room: phase, the user's flag, the number of others and whether all of them are ready |
| `RoomScreens` | `GameManager` and the screens from the lobby to the result, `RoomHandler`, `RoomSender`, `ChallengeHandler` of the client | one action per button, one dispatch per message type, a table of the callbacks |
| `ClientNetwork` | `NetworkClient`, `ThreadSafeQueue`, `ClientSocket` | the receiver thread, the queue, the descriptor, and the connection's other end |
| `ChatService` | the server's `ChatHandler`, `PrivateChatRepository` | the table is a bag of rows; a row may fail to be saved, a history to be read in full |
| `PrivateChat` | `PrivateChatState`, the client's `ChatHandler` with its timer threads | clicks, answers, and per thread the looks at the flag |
| `LuckyWheel` | both ends of the wheel, the balance in lobby and table | one action per click, per answer, and for the end of the animation |
| `Migrations` | `Database::initSchemaFromFile`, `applyMigrations`, `loadSampleDataFromFile`, the `main` of `init_db` and the server's | a script is the sequence of its commits, the database a set of things |
| `MCMigrations` | the repository's SQL files | each statement with what it needs, is refused for, gives and drops |
| `SamLocGame_proofs`, `GameHandler_proofs`, `Sessions_proofs`, `Friends_proofs`, `RoomScreens_proofs`, `PrivateChat_proofs`, `LuckyWheel_proofs`, `Migrations_proofs` | the theorems | each about the module it is named for |

**Who composes whom.** `SamLocGame` extends `SamLocRules` and instantiates `TurnOrder`
(as `Turns`) and `Room` (as `AsRoom`) with refinement mappings. `GameHandler` extends
`RoomStates`, which `Room` also extends: because a game implements `Room`, `GameHandler`
may keep three fields in place of a game. In the other direction `GameHandler_proofs`
shows that whatever the handler does with a room is what `Room` allows, and
`SamLocGame_proofs` instantiates `MCRules` with the deck of any room. `FriendsScreen`
extends `Friends`, which instantiates `Friendship`. `RoomScreens` extends `RoomService`.
`PrivateChat` extends `ChatService`, which extends `ClientNetwork`, as `LuckyWheel`
does. A module with a server and a client in it puts two queues of messages between
them, one per direction.

Decisions in `SamLocGame` a reader should know:

- A method, with all it calls, is one action: `playCards` contains
  `nextTurnIndex` or `handleWin`, `onPlayerDisconnect` contains the pass and the
  settlement it causes. In `onPlayerDisconnect` the pass made before a
  settlement is not visible: `handleWin` overwrites everything it changed.
- `removePlayer` in a running hand leaves `currentPlayerIndex` alone. When the
  index is then beyond the end of the vector, `players[currentPlayerIndex].id` reads
  an erased element; the comparison in `passTurn` and `onPlayerDisconnect` may
  come out either way (`MayHoldTurn`). `playCards` finds no cards there (the hand
  was moved out of the erased element) and changes nothing.
- When the last seat is given up, `GameHandler` erases the game; a later join
  constructs a new one, so the room is back in its initial state (`ClearTable`).
  After a settlement in `playCards` the object stays, in state FINISHED with no
  seats.
- Time is abstract: the countdown (`GAME_READY_DELAY_SECONDS`) and the turn timer
  (`GAME_TURN_TIMEOUT_SECONDS`) may expire at any moment after they are set.
- `handleWin` commits one UPDATE per seat and looks at no result: any set of those it
  reaches may take effect (`booked`), the winner receives the full amount all the same,
  and the process may end after any of them (`reached`: the losers in the order of the
  vector, the winner last). Then, as when it ends between two calls (`Crash`), there is
  no room any more.
- `PlayElsewhere` is the wheel, or the settlement of another room, at any moment: the
  handler seats a player of a running hand in a second room, or one whose connection
  has broken, and each room checks the whole balance. `OtherAmounts` is what may be won
  or lost at a time.
- History variables: `unsettled` (dealt into the last hand, and no UPDATE for it has
  taken effect), `refused` (whose UPDATE has failed), and `elsewhere` (what a balance
  has changed by outside since its player took a seat here).
- Left out: names, texts, the log table, the cached `Player::balance` (display),
  the value BIDDING (never assigned), and duplicate card ids in one message (the client
  sends a set).

In `GameHandler`:

- C_JOIN_ROOM is `JoinRefused` or `JoinAccepted`. Both begin with `AfterLeaving`:
  the seat in another room that is still waiting is given up before anything is
  known about the new room. After the checks the user is mapped and recorded
  whatever `addPlayer` answers, so a seat is one of two outcomes; and it stays mapped
  when the INSERT of the record fails, which a `catch (...)` and an unused result hide.
  `unrecorded`, a history variable, has the users whose last INSERT failed.
- C_LEAVE_ROOM and a broken connection share `GiveUpSeat`, which erases an
  emptied game. Passing, playing other than the last cards, and the ready flags
  change nothing here, and a countdown may end whenever two seats are taken.
- A DELETE may fail as well, and `Crash` loses the maps and keeps the table.
- `games.erase` and `handleWin` leave alike what a later join can see; `SamLocGame` has
  one operator for both (`ClearTable`), so that an erased game differs in nothing from
  one that was emptied is assumed there, not shown.
- Left out: `rooms.current_players`, which nothing reads back, and the room list.

In `Sessions`:

- A connection delivers whole messages in order; `closeConnection` may happen at
  any moment and loses what is under way. A client process has one connection.
- `processIncomingMessage` binds the sender, then handles the message: a login
  makes a row, and the *next* message makes the entry in `SessionManager`.
- Tokens are 64 digits; `setToken` keeps 32 (`HeaderToken`).
- `granted` is a history variable: the logins the server has accepted on a
  connection, until it closes.
- The DELETE of a logout may fail; that is answered with an error, which leaves the
  client logged in, and the connection stays bound either way.
- Left out: passwords (a login may be refused at any time), the expiry of
  tokens, which no code that runs looks at, and signup. Its answer sets the user id of
  the client's session (client `auth_handler.cpp` 74-77), but not the one `AuthSender`
  puts into headers, and nothing else sends before a login, which sets both.

In `Friends` and `FriendsScreen`:

- `acceptFriendRequest` deletes the request, then inserts one row, then the other,
  each in a statement of its own; `accepting` says how far it has come. The server
  handles nothing else meanwhile, but its process may end (`Crash`, which loses all
  messages and closes the client). Declining and removing are one statement.
- Every statement may fail. A change that fails is answered with an error; of the two
  INSERTs of an acceptance either may fail, and the other stays. A query that fails or
  breaks off gives fewer rows and is answered like any other, so `found` is any subset of
  what there is; the checks of a request pass when they find nothing (`Reads`).
- An acceptance does not look for a request. What another user can accept is
  therefore bounded by what was ever asked (`OthersAct`): their clients show nothing
  else.
- `cut`, `asked`, `agreed`, `outdated` are history variables: pairs whose acceptance a
  crash has interrupted or an INSERT has failed for with the row missing, who ever asked
  whom, who ever agreed to whom, and whether the last list was not read in full or
  somebody else has changed a row since.

In `RoomService` and `RoomScreens`:

- The user's room is followed while the user is seated in it; a join finds any
  state of the room it goes to (`JoinableTables`), so one room's record suffices.
- A callback is "none", "set", or "gone" when the screen that set it was
  destroyed without clearing it. A call of one that is gone is undefined behaviour:
  the program ends, or the callback still does its work. `calledGone` keeps the
  first such call; the properties that speak about the screen exclude what comes
  after it.
- `strayed` marks a user who has clicked away from a join under way: backing out of
  the list then leaves a seat nobody sees.
- A run ends at the screen for logging in: the server refuses a second login on a
  bound connection (`Sessions`).

In `ClientNetwork`, `PrivateChat` and `LuckyWheel`:

- The sockets are those of Linux, marked external: closing a descriptor does not
  wake a `recv` that is blocked on it in another thread; a send to a peer that has
  closed is lost, fails or raises SIGPIPE, which the client does not ignore.
- Timer threads look at the shared flag `Polls` times and once more; the flag is
  down between an acknowledgement and the next message only. Setting the flag down and
  up again inside `startAckTimer` is one step: a thread would have to look within
  these two assignments.
- `private_chats` is a bag: `sent_at` orders rows by the second only, and the texts
  are numbers. A failed INSERT changes nothing of the acknowledgement. A history is
  answered with any part of the rows, none included: an exception and an SQL error both
  end in a short list that says nothing of it (`found`).
- `blot`, a history variable, marks a window that need not show the table: a bubble was
  not sent, or typed before the history came; a message was not saved; the history
  was not read in full.
- The wheel's rewards are amounts; the angles of the wheel are left out, and its
  slowing down ends at any moment after the answer (`Stop`). A balance read by the
  lobby is taken modulo `Width` (2^32 in the code), one read by the wheel is not.

In `Migrations`:

- `sqlite3_exec` commits statement by statement, except between BEGIN and COMMIT.
  A statement may fail because of what is there (`Works`) or because another program
  holds the database (`IsBusy`). A file that cannot be read is an empty script.
- The server runs schema and sample data, not the migrations, when its database is
  new, and goes on to the sample data when the schema has failed.

## 3. Runs

| Run | Bounds | Shows |
|---|---|---|
| `rules` | 14 cards: four threes, three fours and fives, a six, a king, an ace, a two | classification agrees with the sorted-array reading; every trick ends |
| `turn_order` | 4 seats | a connected player who keeps the seat gets the turn again |
| `game` | 3 players, 2 cards each, pay by card, entry balance just what is asked for, UPDATEs that fail, crashes anywhere | the invariants of the room, a hand makes no money, seated losers pay, every move brings everybody's turn nearer, refinement of `TurnOrder` and `Room` |
| `pay` | 2 players, 3 cards each, flat bet of 1, entry balance 2 as asked for, one bet won or lost elsewhere at any moment, failing UPDATEs, crashes | nobody is below zero by more than was lost elsewhere; refinement of the *fair* `TurnOrder` |
| `rooms` | 3 users, 2 rooms of 3 seats, failing INSERTs and DELETEs, restarts | seats, map and table agree through joins, refused joins, departures, hands, but for a failed INSERT |
| `sessions` | 2 connections, 2 users, 2 messages under way per connection | no entry leads to a deleted handler; bindings trace back to accepted logins |
| `friends` | the user and one other, clicks while fewer than 2 messages are under way, every statement may fail, crashes | friendship is symmetric unless cut, by consent, shown as it was read, and implements `Friendship` |
| `screens` | 2 rooms, up to 2 others in the user's room, clicks and others' steps while fewer than 2 messages are under way | callbacks, seat, table, ready button and popups agree with the server; a countdown leads to the game |
| `chat` | 2 peers of whom one writes once, 2 messages typed, one look at the flag and the last, clicks while fewer than 2 messages are under way | acknowledgements and timers belong to their message, the window shows the table when all of it was read, a wait ends, the program ends |
| `wheel` | 3 spins, cost 2, rewards 1 and 3, a loss of 3, width 4, start with 1 or 5 | the balance of the client's session is the row's; the wheel turns to the reward of its own spin |
| `migrations` | the repository's five scripts and its sample data, any number of starts and cuts | a migration is refused only after a cut, and otherwise whole |
| `stuck_countdown` | as `screens` | violated: a countdown that was stopped stays on the screen |

*Why the bounds are enough.* Three seats are the least with which a turn can skip
somebody, a trick can be won by its owner, an index can be beyond the vector while two
seats remain, and the disconnection of one of two opponents ends a hand; the abstract
order is checked with the four seats of the code. The short deck has pairs, an ace and a
two; sequences and four of a kind are in the deck of `rules`. In `pay` two seats are
enough for what the fair order adds: after a departure in the middle of a hand the index
points beyond the vector, and the timer must still hand on the turn. The initial
balances are just what `addPlayer` asks for. In the flat room of `pay` that is two bets,
and two bets is the worst loss (the bet, and one more for a broken connection), so the
room spends all it has asked for, and an overdraft of one would show. What is won or
lost elsewhere (`OtherAmounts`) may bring a player in or keep one out, and be spent
before the settlement or after; more of it at a time (`MaxElsewhere`) or more money in
all (`MaxMoney`) would shift the same sums. Two rooms are what a join of another room
needs, three users what a hand that outlives a disconnection needs. Two connections of
two users, with two messages under way, give a double login, a change of user on a
connection and a request sent before the answer to a login is read.

`friends` has the crossings there are between two users: crossed requests, an
acceptance against a removal, a second acceptance of the same request, answers that
arrive after the screen was closed. `screens` has room changes, a player who comes
during the countdown, and updates between two clicks of the ready button; handlers
send up to three messages at once, so queues grow beyond the bound on clicks. `chat`
has a thread of an earlier message beside one of a later one, an acknowledgement
after the timeout, and two histories under way. In `wheel` the three spins give a
failure, a win and a third that overlaps with either, and with start 1 the balance
goes below zero. `migrations` has no bound at all: things, records and cuts are
finite sets. What is proved holds without these bounds. Players, connections
and users are interchangeable (symmetry) in `game`, `sessions` and `rooms`; runs with a
liveness property use no symmetry.

*Fairness.* `FairSpec` of `SamLocGame` assumes weak fairness of `startPlayingPhase`
and `TurnTimeout` only: `main` calls `updateLoop` in every round, with a poll
timeout of 50 ms, and a deadline once passed stays passed. No player is assumed to
send anything. `RoomScreens` assumes that the server handles what has come, the
client's loop takes up what has come, and the countdown runs off; nothing of users
and other players. `PrivateChat` assumes weak fairness of the receiver thread, of
the join at the end and of each timer thread, and nothing of the server, the user
or the drawing loop: a thread is scheduled, a recv that can return does. The other
modules have safety properties only.

*Deadlock* is checked except where the system may stop: in `rules` a trick, in
`screens`, `chat` and `wheel` a program that has ended or has spent its bounds.

## 4. Proofs

| Module | Theorems `Spec => []P` and refinements | Inductive invariant |
|---|---|---|
| `SamLocGame_proofs` | `TypeOK`, `NoCardTwice`, `TurnHolderCanMove`, `OwnerIsNotAsked`, `NobodyPlaysWithoutCards`, `HandHasOpponents`, `CountdownHasPlayers`, `NobodyIsOverdrawn`, `MoneyIsConserved`, `EverySeatedLoserPays`, `TurnComesNearer`, `WaitIsBounded`, `ImplementsRoom`, `ImplementsTurnOrder`; of the rules `TypeIsReadOff`, `TypeMatchesSortedReading` (of `MCRules`), `BeatingIsBounded`, `TableGetsStronger` | `IInv` |
| `GameHandler_proofs` | `WaitingSeatIsMapped`, `MappedIsRecorded`; that every room is a `Room` | `IInv` |
| `Sessions_proofs` | `NoDanglingSession`, `BindingIsGranted` | `IInv` |
| `Friends_proofs` | `SymmetricUnlessCut`, `FriendsByConsent`, `OwnChangesAreShown`, `ImplementsFriendship` | `Tables`, `Messages`, `ListComes` |
| `RoomScreens_proofs` | `RoomCallsReachTheirScreen`, `SeatIsShown`, `DealtInSeesTheTable`, `ReadyButtonAgrees`, `InvitePopupWasAsked`; `OnlyAStoppedCountdownHangs`, `CountdownIsNotLost` | `TypeOK`, `CallbacksOK`, `ClosedOK`, `PipeOK`, and `AnnouncedOK` |
| `PrivateChat_proofs` | `AckIsForTheAwaited`, `TimeoutIsOwn`, `WindowShowsTable`; `WaitingHasItsTimer`, `WaitingGetsShorter`, `StopIsNotHeldUp` | `TypeOK`, `OneAnswer`, `OwnTimers`, `WindowOK`, and `TimerRuns`, `Stopping` |
| `LuckyWheel_proofs` | `TargetIsOwn`, `BalanceShown` | `TypeOK`, `SpinsOnScreen`, `OneOwnSpin`, `SpinIsLast`, `BalanceReaches` |
| `Migrations_proofs` | `WholeUnlessCut` | `TypeOK`, `Control`, `InOrder`, `NothingTooEarly`, `NothingLost`, `RefusedOnlyIfCut` |

They hold for every finite set of players or users, every set of rooms,
connections and peers, two to four seats, any deck, hands of up to ten cards, both
kinds of room, every bet, all initial balances, any cost and rewards of a spin, and
any number of clicks, timers and messages under way. What the constants are assumed
to be is a named `ASSUME` in the module that declares them, which TLC evaluates in
the runs. One of them says more than types: `OrderAssumption` of `Migrations`, that
the scripts fit one another (nothing drops what a migration gives, nothing of a
migration is there before it, and what a statement needs comes from the schema, an
earlier migration or the same one). TLC evaluates it on the repository's own scripts.

*The room.* `TurnHolderCanMove` needs that seats are distinct, that disconnected players
have passed, and that between hands the flags are empty; `NobodyIsOverdrawn` counts
without what the player has won or lost elsewhere since taking the seat, which no room
looks at; it needs that everybody seated before or in a hand still has the entry balance
in that reckoning (`SeatedCanPay`), which covers `HandSize` cards plus one bet;
`NoCardTwice` needs that between hands nobody holds cards. `IInv` is the conjunction of
these. The heart is `NextTurn`: the circular walk, wherever it starts, ends at a
connected seat that has not passed if one is connected. The settlement is bounded in
`LossIsCovered`.

*The money.* `MoneyIsConserved` is about `MapThenSumSet`, a fold of the community
modules whose recursion is over a finite set. The library's induction theorems take an
operator and can not be cited, but induction for a *set* of naturals can be proved
(`NaturalsBySteps`, from the well-foundedness of `<`), and so for subsets of a finite
set (`SubsetsBySteps`). `SumFacts` then gives the sum's recursion, `TransferKeepsSum`
that what one has less and another more leaves it alone, and `SettleKeepsTotal` that a
settlement in which every UPDATE takes effect is a transfer from each of the at most
four seats to the winner. A settlement cut off by the end of the process is the whole
one without some of its payments, the winner's among them, since the winner is paid
last: so everybody has at most what a whole one without the winner's gain would leave
(`SumOfLess`, `WinMakesNoMoney`), and money may be lost but not made. A failed UPDATE of
a loser does make money, and that of the winner loses it; the property says nothing of a
settlement with one.

*The refinement of `Room`.* Each action of `SamLocGame` is a step of `Room` or
leaves the record alone. It rests on `IInv`: the vector has as many elements as
players (`SeatsCounted`, because seats are distinct), a countdown has two seats, and
between hands nobody is disconnected.

*The refinement of `TurnOrder`.* The ring of `TurnOrder` is the image of the vector.
k steps from the turn, the loop of `nextTurnIndex` looks at the seat at distance k,
and at every other seat before it is back (`Walk`); so the first candidate it meets
is the nearest of the ring (`FirstFoundIsNearest`), and meeting none means there is
none. When a departure has left the index beyond the vector, the turn is nobody's
in `TurnOrder`; the walk from there still ends at a seat (`LostTurnIsFound`), which
is all that is promised.

*The wait for the turn.* `Wait` is how far a player is from the next turn: in the
trick, the seats in between; after a pass, the degrees of strength and the passes that
are left until the trick ends; behind a lost turn, more than either. While the seats
stay, every move, timeout and broken connection lowers it for every player in the hand
(`TurnComesNearer`), and it starts at `3 * MaxPlayers + 31` at most (`WaitIsBounded`):
43 for the four seats of the code. So nobody is passed over more often than that, with
no fairness assumed; what fairness adds is that somebody moves.

*The rules.* The loop of `analyzeHand` and the models' definition by sets agree for
every deck, and however cards of one value are sorted (`TypeIsReadOff`; no induction is
needed, since a sorted list with no value twice has no value between neighbours). Of the
cards as `MCRules` sorts them this gives `TypeMatchesSortedReading` for every deck of
numbered cards (`SortedReadingAgrees`): ranks by the number of cards before are distinct
and fill an interval (`RanksGrow`, `RanksAreTaken`), so each place of the list has one
card. A measure of twenty-eight degrees grows with whatever `canBeat` admits
(`BeatingIsBounded`), so a step of a room clears the table, leaves it, or makes it
stronger (`TableGetsStronger`): the part of `TrickEnds` that is not liveness.

*The handler.* A user is mapped before the INSERT that records it, whose failure nobody
sees; `unrecorded` has who has lost a record so, and `MappedIsRecorded` is about the
others. Joining elsewhere gives up the old seat only when the game is found
in `games` and waiting. So `IInv` adds `SeatsHaveGame` (a room with seats has an
entry) and `FinishedIsEmpty` (a finished hand has left no seats).

*The two models of a room.* `SamLocGame` implements `Room`, for one room in all its
detail; `EveryRoomIsARoom` says that every room of `GameHandler`, among any number of
users and rooms, implements `Room` too. So both keep to one description of a room's
life, and the handler never takes a record where that description does not go. That
the handler's model has every step a game can make of it is for the reader to compare.

*Sessions.* A user id travels from an accepted login through the answer into the
client's identity, from there into headers and from a header into the binding.
`TracesToLogin` says each of the four stages is covered by `granted`.

*Friends.* The rows are in pairs but for a couple that was cut, by a crash or by an
INSERT that failed while its row was missing, and for the couple between the two INSERTs
of an acceptance (`RowSound`). An acceptance can only be of somebody who asked:
`Messages` follows the sender's id from the row of the table through the list of
requests and the click back to the server. `ListComes` says that the list on the screen
is that of the tables, or a list that is, or a request for one, is under way behind the
answer that changed them; a list that was not read in full is excepted (`outdated`), and
so is a user of a couple that was cut. The same invariant gives the refinement of
`Friendship`, whose couples are those of the rows: the first INSERT is the step of
`Friendship`, the second is invisible.

*Screens.* The invariant relates the two sides by what is between them. There is at
most one join under way, and nothing the waiting room asks for is behind it; a stay
begins at the join's success, and what is in the queue behind that brings the screen
to the phase of the room (`PipeOK`) and the button to the user's flag. The attempt to
prove an earlier form of `InvitePopupWasAsked` failed for a good reason: with enough
clicks under way (a join crossed by another click, then a second room), the
list of friends asked for in one waiting room arrives in a later one, which
opens the popup of invitations there. The run did not see it because fewer than two
messages are under way when a button is pressed. The property now
speaks of users whose clicks do not cross a join (`Sound`), as the other properties do.
For the countdown the invariant adds that a hand that has begun or is over is announced
in the queue to whoever sees the room or its countdown (`Announced`). So a countdown on
the screen runs, or its game is on the way, or the server has stopped it: the finding
below is the only way to be left there.

*Chat.* While a chat waits there is one message or one answer under way, and while it
is idle none (`OneAnswer`); a thread that outlives its acknowledgement ends when it
looks next (`OwnTimers`). For the window, what the client has received and what is
on its way are one queue: a row is in the table or on its way there if and only if
it is in the last list of that queue, or in the window when there is none, or in a
message behind that (`WindowOK`); this ends with a message that was not saved or a list
that was not read in full (`blot`). While the chat waits the thread of its message is
alive and the flag is up (`TimerRuns`): the flag goes down with an acknowledgement only,
and that ends the waiting. At the end of the program the socket is closed before the
join (`Stopping`), so whatever wakes the receiver makes it end.

*Wheel.* Unless the wheel was left with a spin under way, the three queues hold at
most one spin, and it is the current one (`OneOwnSpin`). The last answer that bears
a balance, or else what the client holds, is the row's (`BalanceReaches`).

*Migrations.* Of a migration that was not cut, nor any before it, nothing is there
until it is recorded, its own run excepted (`NothingTooEarly`), so none of its
statements is refused for what it gives; and what schema and recorded migrations gave
stays until a migration drops it (`NothingLost`), so every statement finds what it needs.

*Only model-checked.* Every invariant and every action property of a run is proved,
and so is every refinement but the fair one. What is left to TLC is what has to
happen eventually, which rests on fairness and so on ENABLED. Its safety half is
proved for each:

| Only model-checked | What is proved of it |
|---|---|
| `TrickEnds` | what beats the table is of a higher degree, of twenty-eight: `BeatingIsBounded`, `TableGetsStronger` |
| `EveryoneGetsTheTurn`, `ImplementsFairTurnOrder` | the steps are those of the order, `ImplementsTurnOrder`; the wait is lowered by every move and bounded: `TurnComesNearer`, `WaitIsBounded` |
| `CountdownLeadsToGame` | no step loses a countdown that runs: `CountdownIsNotLost` |
| `WaitingEnds` | the thread that ends the wait is alive, and each of its steps shortens its time: `WaitingHasItsTimer`, `WaitingGetsShorter` |
| `StopReturns` | what the receiver returns for is not taken away, and its next step is its last: `StopIsNotHeldUp` |

## 5. Findings

`stuck_countdown`: `doc.txt` 66 has a countdown end with the hand. The countdown
screen takes no events and has no callback for updates of the room, so when the
server has stopped the countdown, because somebody left or withdrew, the screen
stays, with no button, over a room that waits for READY. Who waits there can only
close the window.

Seen while modelling, and not made a run: each is plain from one place of the code,
or from two side by side.

*Server, money.* In a room with a stake `doc.txt` 117-122 has the last pay the stake,
the third three quarters of it and the second nothing; `handleWin` (`sam_loc_game.cpp`
414-437) has every loser pay all of it. To enter, `doc.txt` 103-106 asks for the stake
and 50k, `addPlayer` (line 166) for twice the stake. The fee of `doc.txt` 158 is never
taken. The results of a settlement's UPDATEs are not looked at (424, 435): a loser's
failed one makes money, since the winner is paid all the same, and a process that ends
between them loses what was paid so far. A player of a running hand may take a seat in
another room, or spin, with the same balance (`game_handler.cpp` 81-102): each place
covers its own losses, together they may take a balance below zero. Whoever leaves in
the middle of a hand pays nothing (`removePlayer`), though `doc.txt` 127-128 has them
pay the bet.

*Server, rooms.* After a hand `isJoinAllowed` is false until a former player sends READY
or gives up the room, though `doc.txt` 49 lets players enter. When the last connected
players of a hand leave rather than disconnect, nobody is left to end it. Idle players
are passed by the timer for ever, with each new trick led by the first seat. Joining
another room keeps the row of `room_players`, which `chat_logic.cpp` 67 takes for the
members in the room: room chat reaches former members; when the INSERT of a join fails,
which `game_handler.cpp` 103 ignores, the user plays and gets no room chat. A player who
joins during the countdown does not stop it.

*Sessions.* A logout deletes no row, since the header has room for half of the token,
and does not clear `SessionManager` (`IMPLEMENTATION_GUIDE.md` 126-127 says both). Two
clients that log in as one user before either sends anything else are both accepted
(`auth_logic.cpp` 221-223). After a logout and a login on one connection the second
user's requests are handled, but the user can not be reached (`boundUserId` is set
once).

*Friends.* When the process ends between the two INSERTs of an acceptance, one user has
a friend who does not have them (`friend_repository.cpp` 179 says bidirectional); the
same when the second INSERT fails, which is answered as an error of the whole (186-195).
An acceptance looks for no request (162-188): one that was on its way while the other
removed the friendship, made by an acceptance before it, makes it again. A list whose
query fails is answered as a short one (`friend_logic.cpp` 112). The removal dialog
keeps an index while lists go on arriving, so with three users Yes may remove another
friend than the question names.

*Screens.* Leaving the list of rooms with a join under way takes a seat that no
screen shows. The callbacks of logout, of creating a room, of challenges and of their
results are not cleared, nor are those of chat and wheel: an answer that comes after
the screen was left runs on freed memory. After a logout a login on the same
connection is refused.

*Chat and wheel.* Nothing leads out of CHAT_FAILED: after one timeout or failed send,
every further direct message is refused as if the chat were busy (client
`chat_handler.cpp` 13-16), until the program ends. A timer thread looks at the flag at
intervals; when an acknowledgement and the next message come between two looks, it runs
on, and may fail the chat for that later message (`overtaken`). A history that could not
be read empties the window or leaves it short (server `chat_handler.cpp` 136-164). A
bubble is shown for a message that was refused because the chat was busy. A message is
acknowledged whether or not it was saved. Closing the window waits for the server: the
descriptor is closed under a thread that is blocked in `recv`. A spin that could not be
sent spins for ever, and one left under way may be answered to the next. The answer to a
spin does not depend on the success of its UPDATE. The lobby asks for the balance and
writes its text in the same function (`lobby_state.cpp` 123-127), so it shows what the
session held before, and does not write it again when the answer comes.

*Migrations.* When `init_db` ends after the first ALTER of
`003_auth_and_challenges.sql`, or after the transaction of
`003_rename_chats_and_add_private_chats.sql` or of
`004_add_status_to_private_and_room_chats.sql` and before its record, every later run
fails at that file: ADD COLUMN and RENAME are refused the second time. A file that could
not be read is recorded as applied. A database the server has made lacks the tables of
the migrations, so no login succeeds until `init_db` has run. The sample players have no
password when the migrations run before them. Sample data cut off after the players are
refused from then on, and the rooms stay missing.

## 6. Not modelled, and what is left

- Ranking, the card table and the game log: they read, or only append.
- Framing (`onReadable`, `receiveMessage`): a header, then as many bytes as it says, in
  the order TCP keeps; each message is whole in the models. What is lost is the hazard
  of a message that `sendAll` cuts short.
- Signup, passwords, and the verification of tokens, which no code calls.
- Room chat, which forwards and keeps nothing.
- The failure of the INSERT of a private room.
- Two programs that set up a database at the same time.
- Conversions that matter at odd inputs only: a history is searched for quotation marks
  and not parsed (`chat_handler.cpp` 208), and a balance of 1e15 or more is printed with
  an exponent that `stoll` does not read (`lucky_wheel_repository.cpp` 18).
- Drawing, layout, texts, and the vendored SQLite and JSON libraries.

Nothing of the plan for the proofs is open. What could come next are models of the parts
above, in the order of the hazards that have no property: `sendAll` on a full socket
buffer, the rows of `room_players`, and a third user in the dialog that removes a
friend.
