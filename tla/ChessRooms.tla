------------------------------ MODULE ChessRooms ------------------------------
(***************************************************************************)
(* The chess relay (gateway/src/chess-rooms.ts, wallet/src/chess.ts): a room  *)
(* is a file of signed messages, each naming the ones before it by hash.  A   *)
(* message is appended if the history with it replays, and if the wager on    *)
(* the settlement chain has the players it claims.  Appends are queued; reads *)
(* are not.  The wager moves on while an append waits.                       *)
(*                                                                          *)
(* One room: rooms share nothing but the queue.  A move is legal or not by    *)
(* chess.js; it is "move" or, if it ends the game, "mate".                   *)
(***************************************************************************)
EXTENDS Naturals, Sequences, SequencesExt

CONSTANTS
  Creator, Opponent, Stranger,   \* wallets
  Slot,                          \* appends in flight
  Signed,                        \* what the wallets sign
  MaxMessages,
  MaxStops

Action == {"create", "join", "move", "mate", "resign", "draw-offer", "draw-accept"}

ASSUME SignedAssumption == Signed \subseteq [actor : {Creator, Opponent, Stranger}, action : Action]

VARIABLES
  room,      \* the file, as last renamed
  wager,     \* the contract's record: [phase, opponent]; phase 9 is none
  work,      \* slot -> append in flight
  tail,      \* slots in the order they were called
  roomDisk,  \* what a power failure may leave of it: its contents since the last directory sync
  settled,   \* the history last answered to an append from a synced file ...
  doubtful,  \* ... and from one that a power failure could still undo
  stops

roomVars == <<room, wager, work, tail, roomDisk, settled, doubtful, stops>>

NoWork == [at |-> "none"]
NoOne == "no one"

RoomsInit ==
  /\ room = <<>>
  /\ wager = [phase |-> "none", opponent |-> NoOne]
  /\ work = [s \in Slot |-> NoWork]
  /\ tail = <<>> /\ stops = 0
  /\ roomDisk = {<<>>} /\ settled = <<>> /\ doubtful = <<>>

-----------------------------------------------------------------------------
(* replayChess: the game after a history; `valid` is FALSE where it throws.  *)
Start == [valid |-> TRUE, white |-> NoOne, black |-> NoOne, turn |-> "white",
          result |-> "", drawOffer |-> NoOne]

Other(game, actor) == IF actor = game.white THEN game.black ELSE game.white
ToMove(game) == IF game.turn = "white" THEN game.white ELSE game.black

Play(game, m) ==
  CASE m.action \in {"move", "mate"} /\ m.actor = ToMove(game) ->
         [game EXCEPT !.turn = IF @ = "white" THEN "black" ELSE "white",
                      !.drawOffer = NoOne,
                      !.result = IF m.action = "mate" THEN m.actor ELSE ""]
    [] m.action = "resign" -> [game EXCEPT !.result = Other(game, m.actor)]
    [] m.action = "draw-offer" -> [game EXCEPT !.drawOffer = m.actor]
    [] m.action = "draw-accept" /\ game.drawOffer \notin {NoOne, m.actor} ->
         [game EXCEPT !.result = "draw"]
    [] OTHER -> [game EXCEPT !.valid = FALSE]

ReplayNext(game, m, sequence) ==
  CASE sequence = 0 -> [game EXCEPT !.white = m.actor, !.valid = m.action = "create"]
    [] sequence > 0 /\ m.action = "join" ->
         [game EXCEPT !.black = m.actor,
                      !.valid = game.black = NoOne /\ m.actor # game.white /\ sequence = 1]
    [] OTHER -> IF /\ game.black # NoOne /\ m.actor \in {game.white, game.black}
                   /\ game.result = ""
                THEN Play(game, m)
                ELSE [game EXCEPT !.valid = FALSE]

Replay(messages) ==
  LET after[n \in 0 .. Len(messages)] ==
        IF n = 0 THEN Start
        ELSE IF after[n - 1].valid THEN ReplayNext(after[n - 1], messages[n], n - 1)
        ELSE after[n - 1]
  IN after[Len(messages)]

-----------------------------------------------------------------------------
(* An envelope is a message and the history its hash chain names: the one     *)
(* its signer saw, which another message may have extended since.            *)
CallAppend(s, m, after) ==
  /\ work[s] = NoWork /\ Len(after) < MaxMessages
  /\ work' = [work EXCEPT ![s] = [at |-> "queued", m |-> m, after |-> after]]
  /\ tail' = Append(tail, s)
  /\ UNCHANGED <<room, wager, roomDisk, settled, doubtful, stops>>

\* (mutant: appends do not wait for each other)
TurnOfAnyone(s) == TRUE

Turn(s) == tail # <<>> /\ Head(tail) = s

Leave(s) == work' = [work EXCEPT ![s] = NoWork] /\ tail' = Tail(tail)

(* The file is read, which may not be durable: the process that renamed it     *)
(* may have failed to sync it, or not have come to it.                       *)
AnswerFromFile ==
  IF roomDisk = {room} THEN settled' = room /\ UNCHANGED doubtful
  ELSE doubtful' = room /\ UNCHANGED settled

(* The history is read.  A message that is there already is answered again;  *)
(* one that does not replay on it is refused.                               *)
ReadHistory(s) ==
  LET w == work[s]  sequence == Len(w.after) IN
  /\ w.at = "queued" /\ Turn(s)
  /\ LET known == sequence < Len(room) /\ SubSeq(room, 1, sequence + 1) = Append(w.after, w.m)
         fits  == w.after = room /\ Replay(Append(room, w.m)).valid
     IN CASE known -> Leave(s) /\ AnswerFromFile
          [] ~known /\ fits -> /\ work' = [work EXCEPT ![s] = [at |-> "wager", m |-> w.m,
                                                               history |-> room]]
                               /\ UNCHANGED <<tail, settled, doubtful>>
          [] OTHER -> Leave(s) /\ UNCHANGED <<settled, doubtful>>
  /\ UNCHANGED <<room, wager, roomDisk, stops>>

(* The wager must have the players, and be at the right phase. *)
Backed(m, history) ==
  LET game == Replay(Append(history, m)) IN
  /\ CASE m.action = "create" -> m.actor = Creator /\ wager.phase \in {"open", "active"}
       [] m.action = "join"   -> wager.phase = "active" /\ wager.opponent = m.actor
       [] OTHER -> wager.phase = "active" /\ m.actor \in {Creator, wager.opponent}
  /\ game.white = Creator
  /\ game.black \in {NoOne, wager.opponent}

ReadWager(s) ==
  /\ work[s].at = "wager"
  /\ IF Backed(work[s].m, work[s].history)
     THEN work' = [work EXCEPT ![s].at = "write"] /\ UNCHANGED tail
     ELSE Leave(s)
  /\ UNCHANGED <<room, wager, roomDisk, settled, doubtful, stops>>

(* The new file is written and synced, and then renamed over the old one. *)
RenameFile(s) ==
  /\ work[s].at = "write"
  /\ room' = Append(work[s].history, work[s].m)
  /\ roomDisk' = roomDisk \cup {room'}
  /\ work' = [work EXCEPT ![s] = [at |-> "sync"]]
  /\ UNCHANGED <<wager, tail, settled, doubtful, stops>>

SyncDirectory(s) ==
  /\ work[s].at = "sync"
  /\ roomDisk' = {room} /\ settled' = room /\ doubtful' = <<>>
  /\ Leave(s)
  /\ UNCHANGED <<room, wager, stops>>

(* A file operation or a call to the node fails. *)
AppendFails(s) ==
  /\ work[s].at \in {"wager", "write", "sync"}
  /\ Leave(s)
  /\ UNCHANGED <<room, wager, roomDisk, settled, doubtful, stops>>

(* The process stops, and the file is as it was, durable or not ...           *)
RelayStops ==
  /\ stops < MaxStops
  /\ stops' = stops + 1
  /\ work' = [s \in Slot |-> NoWork] /\ tail' = <<>>
  /\ UNCHANGED <<wager, settled>>

RelayProcessStops == RelayStops /\ UNCHANGED <<room, roomDisk, doubtful>>

(* ... or the power fails, and the renames since the last sync may be undone.   *)
RelayPowerFails ==
  /\ RelayStops
  /\ room' \in roomDisk /\ roomDisk' = {room'} /\ doubtful' = <<>>

(* The contract: created, joined by any other wallet, settled or cancelled. *)
WagerMoves ==
  /\ wager' \in CASE wager.phase = "none" -> {[wager EXCEPT !.phase = "open"]}
                  [] wager.phase = "open" ->
                       {[phase |-> "active", opponent |-> Opponent],
                        [wager EXCEPT !.phase = "over"]}
                  [] wager.phase = "active" -> {[wager EXCEPT !.phase = "over"]}
                  [] OTHER -> {}
  /\ UNCHANGED <<room, work, tail, roomDisk, settled, doubtful, stops>>

RoomsNext ==
  \/ \E s \in Slot :
       \/ \E m \in Signed, late \in 0 .. 1 :
            late <= Len(room) /\ CallAppend(s, m, SubSeq(room, 1, Len(room) - late))
       \/ ReadHistory(s) \/ ReadWager(s) \/ RenameFile(s) \/ SyncDirectory(s)
       \/ AppendFails(s)
  \/ RelayProcessStops \/ RelayPowerFails
  \/ WagerMoves

(***************************************************************************)
(* What an append answered is the history of its room stays a part of it,     *)
(* whichever appends overlap, fail or are cut off, and the room replays, with *)
(* the players of the wager.  The exception: after a sync that failed or that  *)
(* its process did not live to, the same message sent again is answered from  *)
(* the file (chess-rooms.ts:61), which a power failure may still undo         *)
(* (`doubtful`); a process stop does not.                                    *)
(***************************************************************************)
RoomHistorySurvives ==
  /\ IsPrefix(settled, room) /\ IsPrefix(doubtful, room)
  /\ \A left \in roomDisk : IsPrefix(settled, left)
  /\ room # <<>> =>
       LET game == Replay(room) IN
       game.valid /\ game.white = Creator /\ game.black \in {NoOne, wager.opponent}
=============================================================================
