------------------------------ MODULE RecvCtx ------------------------------
(***************************************************************************)
(* The receive context of network/ws.cpp (RecvCtx, RecvInfo): a list of    *)
(* the frames received and not consumed yet, in the order of their ids,    *)
(* and a cursor into the frame that is being consumed.  The context is     *)
(* used in two ways:                                                       *)
(*                                                                         *)
(*   stream mode  WebSocketIO consumes the payloads as one byte stream,    *)
(*                frame after frame in the order of the ids (`info');      *)
(*   chunk mode   the proxy client looks one frame up by its id.           *)
(*                                                                         *)
(* A frame is a record of its id and its payload, a sequence of bytes.     *)
(* `info' without a RecvInfo (a null pointer in the code) is the cursor    *)
(* the code creates on the first frame: not valid, prev = 0.               *)
(***************************************************************************)
EXTENDS Naturals, SequencesExt

MinOf(a, b) == IF a < b THEN a ELSE b

Info(data, offset, prev, valid) ==
    [data |-> data, offset |-> offset, prev |-> prev, valid |-> valid]

EmptyRecvCtx == [list |-> <<>>, info |-> Info(<<>>, 0, 0, FALSE)]

(* Sorted insertion: before the first frame with a larger id, so that a    *)
(* frame goes behind the frames with its own id.                           *)
InsertById(list, frame) ==
    LET larger == {i \in DOMAIN list : frame.id < list[i].id}
    IN  IF larger = {} THEN Append(list, frame)
                       ELSE InsertAt(list, Min(larger), frame)

(* Faulty variants of the definitions below, used to see that the checked  *)
(* properties can fail: an offset that is not reset, a put that does not   *)
(* look at the cursor, a copy that is not cut to the caller's length.      *)
ValidateKeepingOffset(info, list) ==
    IF ~info.valid /\ list # <<>> /\ info.prev + 1 = Head(list).id
    THEN Info(Head(list).data, info.offset, info.prev, TRUE)
    ELSE info

PutWithoutValidate(ctx, frame) == [ctx EXCEPT !.list = InsertById(@, frame)]

TakenWholeFrame(ctx, len) ==
    SubSeq(ctx.info.data, ctx.info.offset + 1, Len(ctx.info.data))

(* The cursor moves onto the head of the list only when no frame is being  *)
(* consumed and the head is the successor of the last one consumed.        *)
Validate(info, list) ==
    IF /\ ~info.valid
       /\ list # <<>>
       /\ info.prev + 1 = Head(list).id
    THEN Info(Head(list).data, 0, info.prev, TRUE)
    ELSE info

(* PutToRecvCtx in stream mode, and in chunk mode.                         *)
PutToRecvCtx(ctx, frame) ==
    LET list == InsertById(ctx.list, frame)
    IN  [list |-> list, info |-> Validate(ctx.info, list)]

PutChunk(ctx, frame) == [ctx EXCEPT !.list = InsertById(ctx.list, frame)]

(* What RecvFromRecvCtx copies out of the current frame for a caller that  *)
(* asks for len bytes: never more than the rest of this one frame.         *)
Taken(ctx, len) ==
    LET info == ctx.info
    IN  SubSeq(info.data, info.offset + 1,
               info.offset + MinOf(Len(info.data) - info.offset, len))

(* The context after it.  A frame that is used up leaves the list, its id  *)
(* becomes `prev', and the cursor moves on if the successor is there.      *)
RecvFromRecvCtx(ctx, len) ==
    LET info   == ctx.info
        offset == info.offset + Len(Taken(ctx, len))
        used   == info.offset < Len(info.data) /\ offset = Len(info.data)
        list   == IF used THEN Tail(ctx.list) ELSE ctx.list
        moved  == IF used THEN Info(info.data, offset, Head(ctx.list).id, FALSE)
                          ELSE Info(info.data, offset, info.prev, info.valid)
    IN  [list |-> list, info |-> Validate(moved, list)]

(* Chunk mode: the positions that hold the frame with this id, and the     *)
(* context without the first of them.                                      *)
ChunkAt(ctx, id) == {i \in DOMAIN ctx.list : ctx.list[i].id = id}

RemoveChunk(ctx, id) == [ctx EXCEPT !.list = RemoveAt(@, Min(ChunkAt(ctx, id)))]
=============================================================================
