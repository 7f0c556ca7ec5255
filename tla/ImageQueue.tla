----------------------------- MODULE ImageQueue -----------------------------
(***************************************************************************)
(* The image queue of one index of CMainProcess. Every function holds the  *)
(* lock of the index (Synchronized) from its first access to its last, so  *)
(* each is one step, of whatever thread. Assumed: somebody has filled the  *)
(* vectors of locks and queues, which nothing in the repository does.      *)
(***************************************************************************)
EXTENDS Naturals, Sequences, BoundedQueues

CONSTANTS MAX_VEC_IMAGE_NUM,
          MaxImages             \* bound: images pushed

ASSUME ImageAssumption == MAX_VEC_IMAGE_NUM \in Nat /\ MaxImages \in Nat

VARIABLES images,    \* List_TotalImage[Index], images numbered as they come
          pushed,    \* images pushed so far
          given,     \* those Image_Fifo_Get has returned a copy of, in order
          mats,      \* cv::Mat objects that were handed over and not deleted
          length     \* what Image_Fifo_Length returned last

imgVars == <<images, pushed, given, mats, length>>

ImgInit ==
    /\ images = << >> /\ pushed = 0 /\ given = << >> /\ mats = {} /\ length = 0

(* size() > MAX_VEC_IMAGE_NUM: the queue grows to one more than the name says *)
MostImages == MAX_VEC_IMAGE_NUM + 1

Image_Fifo_Push ==
    LET x == pushed + 1
    IN  /\ pushed < MaxImages
        /\ pushed' = x
        /\ images' = PushDropOldest(images, x, MostImages)
        /\ mats' = (mats \cup {x}) \ IF Len(images) >= MostImages THEN {Head(images)} ELSE {}
        /\ UNCHANGED <<given, length>>

(* The caller gets a clone, the image is deleted *)
Image_Fifo_Get ==
    /\ images # << >>
    /\ given' = Append(given, Head(images))
    /\ images' = Tail(images)
    /\ mats' = mats \ {Head(images)}
    /\ UNCHANGED <<pushed, length>>

Image_Fifo_Length == length' = Len(images) /\ UNCHANGED <<images, pushed, given, mats>>

(* Pointers are erased, the images they point to stay *)
Image_Fifo_Init == images' = << >> /\ UNCHANGED <<pushed, given, mats, length>>

ImgNext == Image_Fifo_Push \/ Image_Fifo_Get \/ Image_Fifo_Length \/ Image_Fifo_Init

ImgSpec == ImgInit /\ [][ImgNext]_imgVars

-----------------------------------------------------------------------------
(* Types; no image of the queue has been deleted, and what is in it came after
   what has left it. *)
ImgTypeOK ==
    /\ pushed \in 0 .. MaxImages /\ mats \subseteq 1 .. pushed
    /\ images \in Seq(mats) /\ given \in Seq(1 .. pushed)
    /\ Len(images) <= MostImages /\ length \in 0 .. MostImages

Images == INSTANCE LossyFifo WITH Item <- 1 .. MaxImages, items <- images, taken <- given

(* Emptied by Image_Fifo_Init alone, the queue is otherwise a FIFO that loses its
   oldest images, and no image is given out twice or out of turn. *)
ImageQueueIsLossyFifo == [][Images!Next \/ Image_Fifo_Init]_<<images, given>>
=============================================================================
