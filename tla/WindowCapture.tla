--------------------------- MODULE WindowCapture ---------------------------
(***************************************************************************)
(* Native screenshots: crates/victauri-plugin/src/screenshot.rs.           *)
(*                                                                         *)
(* On Windows a capture first goes to Windows.Graphics.Capture, whose work *)
(* runs as a job on one shared COM thread; the caller waits a bounded time *)
(* for the job's answer and then falls back to GDI.  A job whose caller    *)
(* has gone stays in the queue and is still done.  macOS and Linux make    *)
(* the picture in the call itself.  Meanwhile the window is repainted and  *)
(* resized: each engine reads the size in one step and the pixels in a     *)
(* later one.                                                              *)
(*                                                                         *)
(* A pixel is the window, the paint and the place it shows; colours and    *)
(* the arithmetic of alpha are left out, channel order with them.          *)
(***************************************************************************)
EXTENDS Integers, Sequences

CONSTANTS Captures,      \* the calls
          Shown,         \* the window (a positive number) each call is to capture
          Geometries,    \* [w, h: client area; left, top: borders; pad: row padding]
          MaxPaints,     \* bound: repainting ends with a window's paint of this number
          MaxResizes,    \* bound: resizing ends with a window resized as often
          NoImage

VARIABLES platform,      \* "windows", "macos" or "linux"
          composited,    \* GDI cannot see what the windows show
          working,       \* the COM thread could be started
          geo, paint, resizes,   \* per window
          captureAt,     \* where each call is
          crop,          \* the size a call, or its job, has read
          jobs, job,     \* the COM thread's queue and the job in hand
          mail,          \* what a job has sent to its own caller
          begun, answer  \* when a call began; what it returned

captureVars == <<platform, composited, working, geo, paint, resizes, captureAt, crop, jobs, job,
                 mail, begun, answer>>

windows == <<geo, paint, resizes>>
setting == <<platform, composited, working>>
Seen == {Shown[c] : c \in Captures}

Failed == [failed |-> TRUE]

CaptureInit ==
    /\ platform \in {"windows", "macos", "linux"}
    /\ composited \in (IF platform = "windows" THEN BOOLEAN ELSE {FALSE})
    /\ working \in (IF platform = "windows" THEN BOOLEAN ELSE {TRUE})
    /\ geo \in [Seen -> Geometries]
    /\ paint \in [Seen -> 0..1]
    /\ resizes = [v \in Seen |-> 0]
    /\ captureAt = [c \in Captures |-> "idle"]
    /\ crop = [c \in Captures |-> NoImage]
    /\ jobs = <<>>
    /\ job = NoImage
    /\ mail = [c \in Captures |-> NoImage]
    /\ begun = [c \in Captures |-> NoImage]
    /\ answer = [c \in Captures |-> NoImage]

----------------------------------------------------------------------------
(* The window: a window not painted yet is uniformly white. *)
Blank == <<0, 0, 0, 0>>       \* white
Void == <<0, 0, 0, 1>>        \* nothing was drawn here
Border == <<0, 0, 0, 2>>      \* the window's frame
Padding == <<0, 0, 0, 3>>     \* the end of a buffer's row
Pixel(v, x, y) == IF paint[v] = 0 THEN Blank ELSE <<v, paint[v], x, y>>

ClientPixel(v, x, y) ==
    IF x \in 0..(geo[v].w - 1) /\ y \in 0..(geo[v].h - 1) THEN Pixel(v, x, y) ELSE Void

FrameWidth(g) == 2 * g.left + g.w
FrameHeight(g) == g.top + g.h
FramePixel(v, x, y) ==
    IF ClientPixel(v, x - geo[v].left, y - geo[v].top) = Void THEN Border
    ELSE ClientPixel(v, x - geo[v].left, y - geo[v].top)

Repaint(v) ==
    /\ \A u \in Seen : paint[u] < MaxPaints
    /\ paint' = [paint EXCEPT ![v] = @ + 1]
    /\ UNCHANGED <<setting, geo, resizes, captureAt, crop, jobs, job, mail, begun, answer>>

Resize(v, g) ==
    /\ \A u \in Seen : resizes[u] < MaxResizes
    /\ g # geo[v]
    /\ geo' = [geo EXCEPT ![v] = g]
    /\ resizes' = [resizes EXCEPT ![v] = @ + 1]
    /\ UNCHANGED <<setting, paint, captureAt, crop, jobs, job, mail, begun, answer>>

----------------------------------------------------------------------------
(* A buffer is rows of `pitch` pixels one after another. *)
Buffer(pitch, height, Of(_, _)) ==
    [k \in 1..(pitch * height) |-> Of((k - 1) % pitch, (k - 1) \div pitch)]

(* A mistaken RowStart: rows are taken to follow each other without padding. *)
IgnoresThePitch(row, pitch, x, frame_w) == row * frame_w + x

(* The first pixel of a row of the crop. *)
RowStart(row, pitch, x, frame_w) == row * pitch + x

convert_bgra_frame(data, pitch, frame_w, frame_h, x, y, w, h) ==
    LET wide == IF w < frame_w - x THEN w ELSE frame_w - x
        high == IF h < frame_h - y THEN h ELSE frame_h - y
        start(row) == RowStart(row, pitch, x, frame_w)
    IN  IF x >= frame_w \/ y >= frame_h \/ start(y + high - 1) + wide > Len(data) THEN Failed
        ELSE [w |-> wide, h |-> high,
              pixels |-> [k \in 1..(wide * high) |->
                            data[start(y + (k - 1) \div wide) + ((k - 1) % wide) + 1]]]

(* A uniform white or empty picture, which a failed copy looks like. *)
blank_frame_reason(pixels) ==
    /\ pixels # <<>>
    /\ \E none \in {Blank, Void} : \A k \in DOMAIN pixels : pixels[k] = none

(* The rows written to the PNG: whole ones only (chunks_exact). *)
encode_png(picture) ==
    [w |-> picture.w, h |-> picture.h,
     rows |-> [r \in 1..(Len(picture.pixels) \div picture.w) |->
                 SubSeq(picture.pixels, (r - 1) * picture.w + 1, r * picture.w)]]

----------------------------------------------------------------------------
(* The caller.  An answer is kept with the state of the window during the call. *)
Return(c, picture) ==
    /\ captureAt' = [captureAt EXCEPT ![c] = "done"]
    /\ answer' = [answer EXCEPT ![c] =
                    [png |-> IF picture = Failed THEN Failed ELSE encode_png(picture),
                     steady |-> begun[c].resizes = resizes[Shown[c]],
                     geo |-> geo[Shown[c]],
                     from |-> begun[c].paint, to |-> paint[Shown[c]]]]

(* capture_window_raw: on Windows the job is queued, unless there is no worker. *)
Begin(c) ==
    /\ captureAt[c] = "idle"
    /\ begun' = [begun EXCEPT ![c] = [paint |-> paint[Shown[c]], resizes |-> resizes[Shown[c]]]]
    /\ IF platform = "windows" /\ working
       THEN /\ jobs' = Append(jobs, c)
            /\ captureAt' = [captureAt EXCEPT ![c] = "waiting"]
       ELSE /\ captureAt' = [captureAt EXCEPT ![c] = platform]
            /\ UNCHANGED jobs
    /\ UNCHANGED <<setting, windows, crop, job, mail, answer>>

(* The job's answer: a picture that shows something is returned, anything else goes to GDI. *)
Receive(c) ==
    /\ captureAt[c] = "waiting"
    /\ mail[c] # NoImage
    /\ IF mail[c] # Failed /\ ~blank_frame_reason(mail[c].pixels)
       THEN Return(c, mail[c])
       ELSE /\ captureAt' = [captureAt EXCEPT ![c] = "windows"]
            /\ UNCHANGED answer
    /\ UNCHANGED <<setting, windows, crop, jobs, job, mail, begun>>

(* COM_JOB_TIMEOUT: the caller goes on, its job does not know. *)
GiveUp(c) ==
    /\ captureAt[c] = "waiting"
    /\ mail[c] = NoImage
    /\ captureAt' = [captureAt EXCEPT ![c] = "windows"]
    /\ UNCHANGED <<setting, windows, crop, jobs, job, mail, begun, answer>>

----------------------------------------------------------------------------
(* The COM thread: one job at a time, in order. *)
TakeJob ==
    /\ job = NoImage
    /\ jobs # <<>>
    /\ job' = [of |-> Head(jobs), stage |-> "rects"]
    /\ jobs' = Tail(jobs)
    /\ UNCHANGED <<setting, windows, captureAt, crop, mail, begun, answer>>

(* The job's own channel: nobody hears it when the caller has gone. *)
Send(result) ==
    /\ mail' = [mail EXCEPT ![job.of] = IF captureAt[job.of] = "waiting" THEN result ELSE @]
    /\ job' = NoImage

(* The client area inside the frame, read before the frame is captured. *)
ReadCrop ==
    /\ job # NoImage
    /\ job.stage = "rects"
    /\ geo[Shown[job.of]].w > 0
    /\ crop' = [crop EXCEPT ![job.of] = geo[Shown[job.of]]]
    /\ job' = [job EXCEPT !.stage = "item"]
    /\ UNCHANGED <<setting, windows, captureAt, jobs, mail, begun, answer>>

(* The capture item's size fixes the frame's; the session starts. *)
StartCapture ==
    /\ job # NoImage
    /\ job.stage = "item"
    /\ geo[Shown[job.of]].w > 0
    /\ job' = [of |-> job.of, stage |-> "frame", size |-> geo[Shown[job.of]]]
    /\ UNCHANGED <<setting, windows, captureAt, crop, jobs, mail, begun, answer>>

(* The first frame, mapped, converted and cropped. *)
ReadFrame ==
    /\ job # NoImage
    /\ job.stage = "frame"
    /\ LET v == Shown[job.of]
           c == crop[job.of]
           frame_w == FrameWidth(job.size)
           frame_h == FrameHeight(job.size)
           pitch == frame_w + job.size.pad
           shown(x, y) == IF x >= frame_w THEN Padding ELSE FramePixel(v, x, y)
       IN Send(convert_bgra_frame(Buffer(pitch, frame_h, shown), pitch, frame_w, frame_h,
                                  c.left, c.top, c.w, c.h))
    /\ UNCHANGED <<setting, windows, captureAt, crop, jobs, begun, answer>>

(* A failed call, no client area, no frame within WGC_FIRST_FRAME_TIMEOUT, or a panic, *)
(* which the job catches: the thread goes on.                                          *)
JobFails ==
    /\ job # NoImage
    /\ Send(Failed)
    /\ UNCHANGED <<setting, windows, captureAt, crop, jobs, begun, answer>>

----------------------------------------------------------------------------
(* GDI: the client area is measured, then drawn into a bitmap of that size. *)
GdiMeasure(c) ==
    /\ captureAt[c] = "windows"
    /\ crop' = [crop EXCEPT ![c] = geo[Shown[c]]]
    /\ IF geo[Shown[c]].w > 0
       THEN captureAt' = [captureAt EXCEPT ![c] = "drawing"] /\ UNCHANGED answer
       ELSE Return(c, Failed)
    /\ UNCHANGED <<setting, windows, jobs, job, mail, begun>>

GdiDraw(c) ==
    /\ captureAt[c] = "drawing"
    /\ LET g == crop[c]
           shown(x, y) == IF composited THEN Blank ELSE ClientPixel(Shown[c], x, y)
           pixels == Buffer(g.w, g.h, shown)
       IN Return(c, IF blank_frame_reason(pixels) THEN Failed
                    ELSE [w |-> g.w, h |-> g.h, pixels |-> pixels])
    /\ UNCHANGED <<setting, windows, crop, jobs, job, mail, begun>>

(* PrintWindow and BitBlt, or GetDIBits, fail: the guard gives the handles back. *)
GdiFails(c) ==
    /\ captureAt[c] = "drawing"
    /\ Return(c, Failed)
    /\ UNCHANGED <<setting, windows, crop, jobs, job, mail, begun>>

(* CoreGraphics gives the whole window as one image, which is drawn into the call's own *)
(* buffer of the image's size.                                                          *)
CgCapture(c) ==
    /\ captureAt[c] = "macos"
    /\ LET g == geo[Shown[c]]
           whole(x, y) == FramePixel(Shown[c], x, y)
       IN \/ Return(c, Failed)
          \/ /\ g.w > 0
             /\ Return(c, [w |-> FrameWidth(g), h |-> FrameHeight(g),
                           pixels |-> Buffer(FrameWidth(g), FrameHeight(g), whole)])
    /\ UNCHANGED <<setting, windows, crop, jobs, job, mail, begun>>

(* X11: the geometry, then the image of that size, which the server refuses when the *)
(* window has become smaller.                                                        *)
X11Geometry(c) ==
    /\ captureAt[c] = "linux"
    /\ crop' = [crop EXCEPT ![c] = geo[Shown[c]]]
    /\ IF geo[Shown[c]].w > 0
       THEN captureAt' = [captureAt EXCEPT ![c] = "image"] /\ UNCHANGED answer
       ELSE Return(c, Failed)
    /\ UNCHANGED <<setting, windows, jobs, job, mail, begun>>

X11Image(c) ==
    /\ captureAt[c] = "image"
    /\ LET g == crop[c]
           client(x, y) == ClientPixel(Shown[c], x, y)
       IN IF geo[Shown[c]].w >= g.w /\ geo[Shown[c]].h >= g.h
          THEN Return(c, [w |-> g.w, h |-> g.h, pixels |-> Buffer(g.w, g.h, client)])
          ELSE Return(c, Failed)
    /\ UNCHANGED <<setting, windows, crop, jobs, job, mail, begun>>

CaptureNext ==
    \/ \E v \in Seen : Repaint(v) \/ \E g \in Geometries : Resize(v, g)
    \/ \E c \in Captures : Begin(c) \/ Receive(c) \/ GiveUp(c)
    \/ TakeJob \/ ReadCrop \/ StartCapture \/ ReadFrame \/ JobFails
    \/ \E c \in Captures : GdiMeasure(c) \/ GdiDraw(c) \/ GdiFails(c)
    \/ \E c \in Captures : CgCapture(c) \/ X11Geometry(c) \/ X11Image(c)

----------------------------------------------------------------------------
(* What the picture of a window of steady size is to be, at one of its paints. *)
True(c, p) ==
    LET g == answer[c].geo
        whole == platform = "macos"
        w == IF whole THEN FrameWidth(g) ELSE g.w
        h == IF whole THEN FrameHeight(g) ELSE g.h
        left == IF whole THEN g.left ELSE 0
        top == IF whole THEN g.top ELSE 0
        shown(x, y) == IF x \in 0..(g.w - 1) /\ y \in 0..(g.h - 1)
                       THEN IF p = 0 THEN Blank ELSE <<Shown[c], p, x, y>>
                       ELSE Border
    IN [w |-> w, h |-> h,
        rows |-> [r \in 1..h |-> [k \in 1..w |-> shown(k - 1 - left, r - 1 - top)]]]

(* Whatever engine took it, and whatever jobs other callers left on the COM thread, a   *)
(* returned picture is of the call's own window and of one paint shown during the call, *)
(* pixel for pixel, unless the window was resized under it; even then every row the PNG *)
(* header promises is there, and on Windows it is never a blank that hides a failed     *)
(* copy (screenshot.rs capture_window_raw, convert_bgra_frame, encode_png).             *)
PicturesAreTrue ==
    \A c \in Captures :
        answer[c] # NoImage /\ answer[c].png # Failed =>
            LET png == answer[c].png IN
            /\ png.w > 0 /\ png.h > 0
            /\ Len(png.rows) = png.h
            /\ answer[c].steady => \E p \in answer[c].from..answer[c].to : png = True(c, p)
            /\ platform = "windows" =>
                  \E r \in DOMAIN png.rows : ~blank_frame_reason(png.rows[r])
============================================================================
