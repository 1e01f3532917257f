-------------------------- MODULE MCResourcePaths --------------------------
(***************************************************************************)
(* Three assets of one name: a HEIC photo and a HEIF photo with a smaller  *)
(* JPEG, in one batch, and a JPEG of unknown size.                         *)
(***************************************************************************)
EXTENDS ResourcePaths

CONSTANTS heic, plain, sizes

MCAddedAt == (heic :> 3) @@ (sizes :> 2) @@ (plain :> 1)
MCCreatedAt == [a \in Asset |-> 1]
MCName == [a \in Asset |-> "IMG"]
MCShortId == (heic :> "H") @@ (plain :> "P") @@ (sizes :> "S")
MCStamp == [a \in Asset |-> "20240101"]
MCTraits ==
    [a \in Asset |->
       [live |-> FALSE, hidden |-> FALSE, favorite |-> FALSE, video |-> FALSE, ext |-> "JPG"]]
Offer(version, ext) == [version |-> version, ext |-> ext, sized |-> TRUE]
MCVersions ==
    (heic :> <<Offer("original", "HEIC")>>) @@ (plain :> <<>>)
    @@ (sizes :> <<Offer("original", "HEIF"), Offer("medium", "JPG")>>)

Standard ==
    [policy |-> "suffix_asset_id", videos |-> TRUE, live |-> TRUE, liveSize |-> "original",
     sizes |-> {"original"}, posters |-> FALSE, raw |-> "both", convert |-> TRUE,
     jpegApart |-> FALSE, untilFound |-> 0, hidden |-> FALSE, favorites |-> FALSE, after |-> 0, before |-> 9]
MCConfigs ==
    {Standard, [Standard EXCEPT !.sizes = {"original", "medium"}],
     [Standard EXCEPT !.sizes = {"original", "medium"}, !.untilFound = 1],
     [Standard EXCEPT !.sizes = {"medium"}], [Standard EXCEPT !.policy = "error"]}

(***************************************************************************)
(* select_resources against CONFIGURATION.md:59-75, over every asset with  *)
(* up to three of these versions.                                          *)
(***************************************************************************)
Offers ==
    {Offer("original", "JPG"), Offer("original", "DNG"), Offer("alternative", "JPG"),
     Offer("alternative", "DNG"), Offer("medium", "JPG"), Offer("original", "MOV"),
     Offer("original_video", "MOV")}
Offered ==
    {os \in BoundedSeq(Offers, 3) :
       \A i, j \in DOMAIN os : os[i].version = os[j].version => i = j}
Typed(os, live) ==
    [i \in DOMAIN os |-> [version |-> os[i].version, type |->
                            ResourceType(os[i].version, os[i].ext, live)]]
Among(rs, types) == {r \in ToSet(rs) : r.type \in types}

\* Photographs with a RAW: the mode decides about the pair, and the modes with a
\* preference take exactly one of it, so that no photo is left out.
RawAsDocumented(rs, s, mode) ==
    LET raws == Among(rs, {"raw_original"})
        jpegs == Among(rs, {"photo_original", "jpeg_alternative"})
        taken == s \cap (raws \cup jpegs)
    IN raws # {} =>
         CASE mode = "both" -> taken = raws \cup jpegs
           [] mode = "raw_only" -> taken = raws
           [] mode = "jpeg_only" -> taken = jpegs
           [] mode = "prefer_raw" -> Cardinality(taken) = 1 /\ taken \subseteq raws
           [] mode = "prefer_jpeg" ->
                /\ Cardinality(taken) = 1
                /\ taken \subseteq (IF jpegs # {} THEN jpegs ELSE raws)

ASSUME SelectionAsDocumented ==
    \A os \in Offered, sizesWanted \in {{"original"}, {"medium"}, {"original", "medium"}},
       mode \in {"both", "raw_only", "jpeg_only", "prefer_raw", "prefer_jpeg"},
       videos \in BOOLEAN :
      LET rs == Typed(os, FALSE)
          s == ToSet(Select(rs, FALSE, [Standard EXCEPT !.sizes = sizesWanted, !.raw = mode,
                                                        !.videos = videos]))
      IN /\ s \subseteq ToSet(rs)
         /\ RawAsDocumented(rs, s, mode)
         /\ ~videos => s \cap Among(rs, VideoTypes) = {}
         /\ mode # "raw_only" /\ Among(rs, {"raw_original"}) = {} =>
              \A size \in sizesWanted :
                 Among(rs, {t \in DOMAIN SizeByType : SizeByType[t] = size} \ VideoTypes)
                   \subseteq s

ASSUME LivePhotosAsDocumented ==
    \A os \in Offered, size \in {"original", "medium", "thumb"}, on \in BOOLEAN :
      LET rs == Typed(os, TRUE)
          s == ToSet(Select(rs, TRUE, [Standard EXCEPT !.live = on, !.liveSize = size]))
      IN s \cap Among(rs, LiveTypes) =
           IF on THEN {r \in Among(rs, LiveTypes) : LiveSize(r) = size} ELSE {}

MCUserNames == {<< <<"IMG">>, "JPG" >>}
=============================================================================
