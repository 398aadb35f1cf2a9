----------------------------- MODULE ActionSpace -----------------------------
(***************************************************************************)
(* What goes into the interactive engines and what comes out: the camera   *)
(* images that make up the model's input, the denoising loops of a chunk,  *)
(* the actions, decoded from the space of the model to the units of the    *)
(* robot, and, for LingBot-VA, encoded back when they were executed.       *)
(*                                                                         *)
(* A normalised action is a whole number of 1/Unit.  The quantiles of a    *)
(* channel are chosen such that the arithmetic is exact; what float32      *)
(* rounds off is left out.                                                 *)
(***************************************************************************)
EXTENDS Integers, Sequences, FiniteSets, SequencesExt

CONSTANTS Unit, Tasks, Blocks, Bins, Cameras

VARIABLE sample  \* the input that is computed

\* 1e-6 of the LingBot lineage; the others have none.
Eps == 2 * Unit

\* The formula that the ports share, and its inverse.
Denormalize(a, ch, eps) == ch.q01 + ((a + Unit) * (ch.q99 - ch.q01 + eps)) \div (2 * Unit)
Normalize(x, ch, eps) == ((x - ch.q01) * 2 * Unit) \div (ch.q99 - ch.q01 + eps) - Unit

(***************************************************************************)
(* LingBot-VA.  A task says which channels of the model it uses, in which  *)
(* order, and the quantiles of every channel.  A chunk is a function of    *)
(* channel, latent frame and step within the frame.                        *)
(***************************************************************************)
Tensor(t, frames) == (0..(t.dim - 1)) \X (0..(frames - 1)) \X (0..(t.perFrame - 1))

\* used_action_dim, which the pipeline takes from the task.
WireDim(t) == Len(t.used)

\* The actions of channels that the task does not use are zero, and at frame
\* 0 so are those of the first frame, which is the observation.
Masked(t, x, a) == IF x[1] \in ToSet(t.used) THEN a ELSE 0
Clamped(t, x, a) == IF t.first /\ x[2] = 0 THEN 0 ELSE a

\* With guidance the batch is doubled: the prompt first, then no prompt.
RepeatForCfg(t, prompt, none) ==
    IF t.guidance > 1 \/ t.videoGuidance > 1 THEN <<prompt, none>> ELSE <<prompt>>

Guided(scale, pred) == IF scale > 1 THEN pred[2] + scale * (pred[1] - pred[2]) ELSE pred[1]

\* The action loop: one step for every noise level, and a last pass, which
\* writes into the cache what the loop returns.
InferChunk(t, noise) ==
    LET pred == RepeatForCfg(t, 2, 1)
        input(x, a) == Masked(t, x, Clamped(t, x, a))
        loop(x) == LET after[i \in 0..t.levels] ==
                           IF i = 0 THEN noise[x]
                           ELSE Clamped(t, x, input(x, after[i - 1]) + Guided(t.guidance, pred))
                   IN  after[t.levels]
    IN  [cached |-> [x \in DOMAIN noise |-> input(x, loop(x))],
         actions |-> [x \in DOMAIN noise |-> Masked(t, x, Clamped(t, x, input(x, loop(x))))]]

\* One row for every step of every frame, one column for every used channel.
DenormalizeActions(t, a) ==
    [k \in 1..(t.frames * t.perFrame) |->
        [j \in 1..WireDim(t) |->
            LET c == t.used[j]
            IN  Denormalize(a[<<c, (k - 1) \div t.perFrame, (k - 1) % t.perFrame>>],
                            t.stats[c], Eps)]]

(* Mutant: the quantiles of the first channels, not of the used ones.      *)
FirstQuantiles(t, j) == t.stats[j - 1]

Quantiles(t, j) == t.stats[t.used[j]]

\* The executed rows as the model's own frames; anything but whole frames
\* does not have the shape, and raises.
Recondition(t, rows) ==
    LET frames == Len(rows) \div t.perFrame
        at(x) == rows[x[2] * t.perFrame + x[3] + 1]
        column(c) == CHOOSE j \in 1..WireDim(t) : t.used[j] = c
    IN  IF frames = 0 \/ frames * t.perFrame # Len(rows)
        THEN [raises |-> TRUE, actions |-> << >>]
        ELSE [raises |-> FALSE,
              actions |-> [x \in Tensor(t, frames) |->
                  IF x[1] \notin ToSet(t.used) THEN 0
                  ELSE LET j == column(x[1]) IN Normalize(at(x)[j], Quantiles(t, j), Eps)]]

(***************************************************************************)
(* DreamZero: the quantiles of the keys, one after another, belong to the  *)
(* first channels of the padded register.                                  *)
(***************************************************************************)
ActionKeys == <<"joint_position", "gripper_position">>

LoadActionStats(meta) == FlattenSeq([i \in 1..Len(ActionKeys) |-> meta[ActionKeys[i]]])

DenormalizeBlock(row, stats, used) ==
    [j \in 1..used |-> Denormalize(row[j], stats[j], 0)]

(***************************************************************************)
(* Cosmos 3: denormalize_quantile refuses quantiles of another width.      *)
(***************************************************************************)
DenormalizeQuantile(row, stats) ==
    IF Len(row) # Len(stats) THEN [raises |-> TRUE, values |-> << >>]
    ELSE [raises |-> FALSE,
          values |-> [j \in 1..Len(row) |-> Denormalize(row[j], stats[j], 0)]]

(***************************************************************************)
(* Token models: a channel is cut into bins.                               *)
(***************************************************************************)
Least(a, b) == IF a < b THEN a ELSE b
Most(a, b) == IF a < b THEN b ELSE a
Clip(x, low, high) == Least(Most(x, low), high)

\* torch.round: half to even.
RoundHalfEven(n, d) ==
    LET q == n \div d
        r == 2 * (n % d)
    IN  IF r < d \/ (r = d /\ q % 2 = 0) THEN q ELSE q + 1

SafeSpan(low, high) == IF high = low THEN 1 ELSE high - low

DiscretizeActions(x, low, high, bins) ==
    Clip(RoundHalfEven((Clip(x, low, high) - low) * (bins - 1), SafeSpan(low, high)), 0, bins - 1)

\* In units of 1/(bins - 1).
UndiscretizeActions(token, low, high, bins) == low * (bins - 1) + token * (high - low)

\* OpenVLA counts its tokens down from the end of the vocabulary, and has one
\* centre between every two edges; a channel that is not masked in keeps the
\* centre.  In units of 1/(2 * (bins - 1)).
Detokenize(token, vocab, low, high, bins, masked) ==
    LET disc == Clip(vocab - token - 1, 0, bins - 2)
        centre == 2 * disc + 1 - (bins - 1)
    IN  IF masked THEN (centre + (bins - 1)) * (high - low) + low * 2 * (bins - 1)
                  ELSE centre * 2

(***************************************************************************)
(* Cameras.  A pixel is the camera it comes from and its place there.      *)
(***************************************************************************)
Pixel(camera, y, x) == [camera |-> camera, y |-> y, x |-> x]
Area(height, width) == (0..(height - 1)) \X (0..(width - 1))

\* The wrist camera twice as wide above the two others.
LoadGridFrame(h, w) ==
    [p \in Area(2 * h, 2 * w) |->
        CASE p[1] < h               -> Pixel("wrist", p[1], p[2] \div 2)
          [] p[1] >= h /\ p[2] < w  -> Pixel("left", p[1] - h, p[2])
          [] p[1] >= h /\ p[2] >= w -> Pixel("right", p[1] - h, p[2] - w)]

BottomHeight(h) == h - h \div 2

\* The same layout; each camera is fitted to its tile.
ConditioningCanvas(h, w) ==
    LET top == h \div 2
        half == w \div 2
        tile(y, x, height, width, p) == p[1] \in y..(y + height - 1) /\ p[2] \in x..(x + width - 1)
    IN  [p \in Area(h, w) |->
            CASE tile(0, 0, top, w, p)                     -> Pixel("wrist", p[1], p[2])
              [] tile(top, 0, BottomHeight(h), half, p)    -> Pixel("left", p[1] - top, p[2])
              [] tile(top, half, BottomHeight(h), half, p) -> Pixel("right", p[1] - top, p[2] - half)
              [] OTHER                                     -> Pixel("black", 0, 0)]

\* LingBot-VA's cameras are encoded one by one and put side by side.
EncodeObsDir(cameras, h, w) ==
    [p \in Area(h, w * Len(cameras)) |->
        Pixel(cameras[p[2] \div w + 1], p[1], p[2] % w)]

\* The latents travel as one row per frame.
FlattenLatent(latent, c, t, h, w) ==
    [f \in 0..(t - 1) |-> [i \in 0..(c * h * w - 1) |->
        latent[<<i \div (h * w), f, (i \div w) % h, i % w>>]]]

UnflattenLatent(flat, c, t, h, w) ==
    [x \in (0..(c - 1)) \X (0..(t - 1)) \X (0..(h - 1)) \X (0..(w - 1)) |->
        flat[x[2]][(x[1] * h + x[3]) * w + x[4]]]

(***************************************************************************)
(* The inputs: one state each.                                             *)
(***************************************************************************)
NoSample == [kind |-> "none", of |-> << >>]

Samples ==
    [kind : {"lingbot"}, of : Tasks] \cup [kind : {"block"}, of : Blocks]
        \cup [kind : {"token"}, of : Bins] \cup [kind : {"camera"}, of : Cameras]

(***************************************************************************)
(* Properties.                                                             *)
(***************************************************************************)

\* Every entry of a chunk another number.
Noise(t) ==
    [x \in Tensor(t, t.frames) |->
        1 + (x[1] * t.frames + x[2]) * t.perFrame + x[3] - Unit]

(* A chunk that is executed as it was proposed comes back to the model as  *)
(* what the model wrote into its own cache: every value in its channel,    *)
(* frame and step, and nothing in the channels that the task does not use; *)
(* also when only the first frames of it were executed.                    *)
ExecutedAsProposed ==
    sample.kind = "lingbot" =>
        LET t == sample.of
            chunk == InferChunk(t, Noise(t))
            rows == DenormalizeActions(t, chunk.actions)
        IN  \A n \in 1..Len(rows) :
                LET back == Recondition(t, SubSeq(rows, 1, n))
                IN  IF n % t.perFrame # 0 THEN back.raises
                    ELSE /\ ~back.raises
                         /\ \A x \in DOMAIN back.actions : back.actions[x] = chunk.cached[x]

(* What a model can say within its own range is decoded within the range   *)
(* of that channel of the robot, from end to end: through the quantiles,   *)
(* whatever the order of the keys, and through tokens, where an action     *)
(* survives the round trip up to half a bin and one out of range ends at   *)
(* the end that is nearer.                                                 *)
DecodedInRange ==
    /\ sample.kind = "block" =>
          LET b == sample.of
              stats == LoadActionStats(b.meta)
              keys == [j \in 1..Len(stats) |->
                          IF j <= Len(b.meta["joint_position"])
                          THEN b.meta["joint_position"][j]
                          ELSE b.meta["gripper_position"][j - Len(b.meta["joint_position"])]]
              said == [j \in 1..b.dim |-> b.row[((j - 1) % Len(b.row)) + 1]]
              right(values) ==
                  \A j \in 1..Len(stats) :
                      /\ values[j] \in keys[j].q01..keys[j].q99
                      /\ said[j] = -Unit => values[j] = keys[j].q01
                      /\ said[j] = Unit => values[j] = keys[j].q99
          IN  /\ right(DenormalizeBlock(said, stats, Len(stats)))
              /\ LET cosmos == DenormalizeQuantile(said, stats)
                 IN  IF b.dim = Len(stats) THEN right(cosmos.values) ELSE cosmos.raises
    /\ sample.kind = "token" =>
          LET s == sample.of
              token == DiscretizeActions(s.x, s.low, s.high, s.bins)
              decoded == UndiscretizeActions(token, s.low, s.high, s.bins)
              meant == Clip(s.x, s.low, s.high) * (s.bins - 1)
              said == Detokenize(s.vocab - token - 1, s.vocab, s.low, s.high, s.bins, TRUE)
          IN  /\ token \in 0..(s.bins - 1)
              /\ 2 * Most(decoded - meant, meant - decoded) <= s.high - s.low
              /\ said >= 2 * (s.bins - 1) * s.low /\ said <= 2 * (s.bins - 1) * s.high

(* Every pixel of the model's input is one of a camera, every pixel of a   *)
(* camera's tile is there, once or, for the wrist of DreamZero, doubled,   *)
(* and what is flattened for the wire comes back as it was.                *)
CanvasWhole ==
    sample.kind = "camera" =>
        LET s == sample.of
            width == s.w * Len(s.cameras)
            shown(canvas, camera) == {<<canvas[p].y, canvas[p].x>> :
                                        p \in {q \in DOMAIN canvas : canvas[q].camera = camera}}
            grid == LoadGridFrame(s.h, s.w)
            canvas == ConditioningCanvas(s.h, 2 * s.w)
            strip == EncodeObsDir(s.cameras, s.h, s.w)
            latent == [x \in (0..1) \X (0..1) \X (0..(s.h - 1)) \X (0..(width - 1)) |->
                          <<x[1], x[2], strip[<<x[3], x[4]>>]>>]
        IN  /\ \A c \in {"wrist", "left", "right"} : shown(grid, c) = Area(s.h, s.w)
            /\ shown(canvas, "black") = {}
            /\ shown(canvas, "wrist") = Area(s.h \div 2, 2 * s.w)
            /\ \A c \in {"left", "right"} : shown(canvas, c) = Area(s.h - s.h \div 2, s.w)
            /\ \A c \in ToSet(s.cameras) : shown(strip, c) = Area(s.h, s.w)
            /\ UnflattenLatent(FlattenLatent(latent, 2, 2, s.h, width), 2, 2, s.h, width) = latent

(* What the cameras see reaches the model and what the model says reaches  *)
(* the robot, and comes back, as it was meant: whole, in range, in place.  *)
ArrivesAsMeant == ExecutedAsProposed /\ DecodedInRange /\ CanvasWhole

=============================================================================
