------------------------------ MODULE Filmstrip ------------------------------
(***************************************************************************)
(* The filmstrip of the timeline: the widget of ui/timeline.py that starts *)
(* a thumbnail worker for each layout of each source and shows what the    *)
(* workers send, the workers (jobs/thumbnails.py), and the thumbnail cache *)
(* on disk (jobs/cache.py) that every worker opens for itself, so that a   *)
(* superseded worker and its successor use one directory through two       *)
(* indexes.  The sources are versions of one file; an image is known by    *)
(* the version it was decoded from, its sample and its layout, and its     *)
(* name in the directory stands for the digest of these.                   *)
(***************************************************************************)
EXTENDS Integers, Sequences, FiniteSets, SequencesExt

CONSTANTS Layouts,        \* widths of the widget: [count |-> samples, cost |-> bytes of an image]
          DirectoryLimit, \* max_bytes of the directory
          MaxBatches, MaxRewrites

ASSUME FilmstripAssumption ==
    /\ Layouts \subseteq [count : Nat \ {0}, cost : Nat \ {0}] /\ Layouts # {}
    /\ DirectoryLimit \in Nat \ {0} /\ {MaxBatches, MaxRewrites} \subseteq Nat

VARIABLES
    film,        \* the widget: presented source, its revision, layout, generation, signature, samples
    pixmaps,     \* what the tiles show: [sample -> image]
    batches,     \* the thumbnail workers, by generation
    thumbnails,  \* results posted to the widget
    directory,   \* the images of the cache directory, least recently touched first
    sourceOnDisk \* the version of the source's file by now

filmVars == <<film, pixmaps, batches, thumbnails, directory, sourceOnDisk>>

NoSource == [id |-> 0, revision |-> 0]
Image(revision, sample, layout) == [revision |-> revision, sample |-> sample, layout |-> layout]
BytesOf(images) == FoldSeq(LAMBDA i, sum : sum + i.layout.cost, 0, images)
Without(images, gone) ==
    LET kept[n \in 0..Len(images)] ==
            IF n = 0 THEN << >>
            ELSE IF images[n] \in gone THEN kept[n - 1] ELSE Append(kept[n - 1], images[n])
    IN  kept[Len(images)]
Touched(images, i) == Append(Without(images, {i}), i)

\* filmstrip_timestamps: even samples of the whole source, as many as the width has room for.
FilmstripTimestamps(layout) == 1..layout.count
LayoutSignature(source, layout) == <<source.id, layout>>

---------------------------------------------------------------------------
(* The widget *)

Superseded(bs) == [g \in DOMAIN bs |-> [bs[g] EXCEPT !.cancelled = TRUE]]

ThumbnailBatch(source, layout) ==
    [source |-> source, layout |-> layout, cancelled |-> FALSE, phase |-> "start", sample |-> 1,
     cached |-> FALSE, index |-> << >>, fingerprint |-> 0, alone |-> FALSE, failed |-> {}]

\* _start_thumbnails: earlier workers are asked to stop, not waited for.
StartThumbnails(source, layout) ==
    /\ Len(batches) < MaxBatches
    /\ film' = [film EXCEPT !.source = source, !.layout = layout, !.generation = Len(batches) + 1,
                    !.signature = LayoutSignature(source, layout), !.samples = FilmstripTimestamps(layout)]
    /\ pixmaps' = << >>
    /\ batches' = Append(Superseded(batches), ThumbnailBatch(source, layout))

\* set_presentation: a new source, in the version its file has now.
PresentSource ==
    /\ film.source = NoSource
    /\ StartThumbnails([id |-> Len(batches) + 1, revision |-> sourceOnDisk], film.layout)
    /\ UNCHANGED <<thumbnails, directory, sourceOnDisk>>

\* Mutant: the tiles of the source that was closed stay.
PresentNothingKeepsTiles ==
    /\ film.source # NoSource
    /\ film' = [film EXCEPT !.source = NoSource, !.samples = {}]
    /\ batches' = Superseded(batches)
    /\ UNCHANGED <<pixmaps, thumbnails, directory, sourceOnDisk>>

\* set_presentation(None): another source is being loaded.
PresentNothing ==
    /\ film.source # NoSource
    /\ film' = [film EXCEPT !.source = NoSource, !.samples = {}]
    /\ batches' = Superseded(batches) /\ pixmaps' = << >>
    /\ UNCHANGED <<thumbnails, directory, sourceOnDisk>>

\* resizeEvent.
ResizeFilm(layout) ==
    /\ layout # film.layout
    /\ IF film.source # NoSource /\ LayoutSignature(film.source, layout) # film.signature
       THEN StartThumbnails(film.source, layout)
       ELSE film' = [film EXCEPT !.layout = layout] /\ UNCHANGED <<pixmaps, batches>>
    /\ UNCHANGED <<thumbnails, directory, sourceOnDisk>>

\* Mutant: a thumbnail of the same source is shown whatever layout it was made for.
ThumbnailReadyAnyGeneration(r) ==
    /\ thumbnails' = thumbnails \ {r}
    /\ pixmaps' = IF film.source # NoSource /\ r.source = film.source /\ r.image.sample \in film.samples
                  THEN [s \in DOMAIN pixmaps \cup {r.image.sample} |->
                           IF s = r.image.sample THEN r.image ELSE pixmaps[s]]
                  ELSE pixmaps
    /\ UNCHANGED <<film, batches, directory, sourceOnDisk>>

\* _thumbnail_ready: only the current source, revision and generation, and a sample of the strip.
ThumbnailReady(r) ==
    /\ thumbnails' = thumbnails \ {r}
    /\ pixmaps' = IF /\ film.source # NoSource /\ r.source = film.source
                     /\ r.generation = film.generation /\ r.image.sample \in film.samples
                  THEN [s \in DOMAIN pixmaps \cup {r.image.sample} |->
                           IF s = r.image.sample THEN r.image ELSE pixmaps[s]]
                  ELSE pixmaps
    /\ UNCHANGED <<film, batches, directory, sourceOnDisk>>

---------------------------------------------------------------------------
(* The cache directory, through the index of one worker *)

\* Mutant: what is evicted from the index stays in the directory.
EvictIndexOnly(index, images) ==
    LET kept == Min({k \in 1..Len(index) + 1 : BytesOf(SubSeq(index, k, Len(index))) <= DirectoryLimit})
    IN  [index |-> SubSeq(index, kept, Len(index)), images |-> images]

\* _evict: the least recently used of the worker's index, until the index is within the limit.
Evict(index, images) ==
    LET kept == Min({k \in 1..Len(index) + 1 : BytesOf(SubSeq(index, k, Len(index))) <= DirectoryLimit})
    IN  [index |-> SubSeq(index, kept, Len(index)),
         images |-> Without(images, ToSet(SubSeq(index, 1, kept - 1)))]

\* Where an image cannot be removed, _evict raises: it and what comes after it stay.
PartlyEvicted(index, images) ==
    {[index |-> SubSeq(index, k, Len(index)), images |-> Without(images, ToSet(SubSeq(index, 1, k - 1)))] :
        k \in {n \in 1..Len(index) : BytesOf(SubSeq(index, n, Len(index))) > DirectoryLimit}}

Busy(g) == batches[g].phase \notin {"start", "done"}
Step(g, changes) == batches' = [batches EXCEPT ![g] = changes]

\* A worker starts to get its thumbnails; no other is alone in the directory any more.
Begins(g, cached, index, alone) ==
    batches' = [h \in DOMAIN batches |->
        IF h = g THEN [batches[g] EXCEPT !.phase = "get", !.cached = cached, !.index = index,
                                         !.fingerprint = sourceOnDisk, !.alone = alone]
        ELSE [batches[h] EXCEPT !.alone = FALSE]]

\* ThumbnailDiskCache(): the index is what is there, least recently touched first.  Where
\* the directory, its temporaries or the eviction fail, the worker goes on without a cache.
OpenCache(g) ==
    /\ batches[g].phase = "start"
    /\ \/ LET left == Evict(directory, directory)
          IN  directory' = left.images /\ Begins(g, TRUE, left.index, \A o \in DOMAIN batches : ~Busy(o))
       \/ /\ directory' \in {directory} \cup {left.images : left \in PartlyEvicted(directory, directory)}
          /\ Begins(g, FALSE, << >>, FALSE)
    /\ UNCHANGED <<film, pixmaps, thumbnails, sourceOnDisk>>

\* The next sample, or the end: a cancelled worker stops between samples.
Following(b) ==
    IF b.cancelled \/ b.sample = b.layout.count
    THEN [b EXCEPT !.phase = "done", !.index = << >>]
    ELSE [b EXCEPT !.phase = "get", !.sample = @ + 1]

Key(b) == [Image(b.source.revision, b.sample, b.layout) EXCEPT !.revision = <<b.fingerprint, b.source.revision>>]
Result(g, version) ==
    [source |-> batches[g].source, generation |-> g,
     image |-> Image(version, batches[g].sample, batches[g].layout)]

\* What a get or a put leaves behind: it failed before it touched the image, or at an
\* eviction.
FailedUse(b) ==
    {[index |-> b.index, images |-> directory]}
        \cup PartlyEvicted(Touched(b.index, Key(b)), Touched(directory, Key(b)))

\* ThumbnailDiskCache.get: a hit is touched and counted again; a file another worker
\* evicted is a miss, and so is whatever fails.  The name's revision is that of the
\* pixels, for only those are put.
GetThumbnail(g) ==
    LET b == batches[g]
        hit == b.cached /\ Key(b) \in ToSet(directory)
    IN
    /\ b.phase = "get"
    /\ \/ /\ b.cancelled
          /\ Step(g, [b EXCEPT !.phase = "done", !.index = << >>]) /\ UNCHANGED <<thumbnails, directory>>
       \/ /\ ~b.cancelled /\ hit
          /\ LET left == Evict(Touched(b.index, Key(b)), Touched(directory, Key(b)))
             IN  directory' = left.images /\ Step(g, Following([b EXCEPT !.index = left.index]))
          /\ thumbnails' = thumbnails \cup {Result(g, b.source.revision)}
       \/ /\ ~b.cancelled /\ hit
          /\ \E left \in FailedUse(b) :
                /\ directory' = left.images
                /\ Step(g, [b EXCEPT !.phase = "decode", !.index = left.index, !.alone = FALSE])
          /\ UNCHANGED thumbnails
       \/ /\ ~b.cancelled /\ ~hit
          /\ Step(g, [b EXCEPT !.phase = "decode", !.index = Without(@, {Key(b)})])
          /\ UNCHANGED <<thumbnails, directory>>
    /\ UNCHANGED <<film, pixmaps, sourceOnDisk>>

\* generate_thumbnail: a frame of another revision, a bad sample or a cancellation
\* raises, and the worker goes on with the next sample.
GenerateThumbnail(g) ==
    LET b == batches[g] IN
    /\ b.phase = "decode"
    /\ \/ /\ sourceOnDisk = b.source.revision /\ ~b.cancelled
          /\ Step(g, [b EXCEPT !.phase = "put"])
       \/ Step(g, Following([b EXCEPT !.failed = @ \cup {b.sample}]))
    /\ UNCHANGED <<film, pixmaps, thumbnails, directory, sourceOnDisk>>

\* Mutant: a thumbnail the cache could not take is not sent.
PutOrNothing(g) ==
    LET b == batches[g] IN
    /\ b.phase = "put"
    /\ \/ LET left == Evict(Touched(b.index, Key(b)), Touched(directory, Key(b)))
          IN  /\ directory' = left.images /\ thumbnails' = thumbnails \cup {Result(g, b.source.revision)}
              /\ Step(g, Following([b EXCEPT !.index = left.index]))
       \/ Step(g, Following(b)) /\ UNCHANGED <<thumbnails, directory>>
    /\ UNCHANGED <<film, pixmaps, sourceOnDisk>>

\* put: saved under a temporary's name, renamed, and the index evicted.  A failure (the
\* disk, a temporary another worker cleaned away, an eviction) is swallowed, and the
\* thumbnail is sent all the same; without a cache there is nothing to put.
PutThumbnail(g) ==
    LET b == batches[g] IN
    /\ b.phase = "put"
    /\ \/ /\ b.cached
          /\ LET left == Evict(Touched(b.index, Key(b)), Touched(directory, Key(b)))
             IN  directory' = left.images /\ Step(g, Following([b EXCEPT !.index = left.index]))
       \/ /\ b.cached
          /\ \E left \in FailedUse(b) :
                /\ directory' = left.images
                /\ Step(g, Following([b EXCEPT !.index = left.index, !.alone = FALSE]))
       \/ ~b.cached /\ Step(g, Following(b)) /\ UNCHANGED directory
    /\ thumbnails' = thumbnails \cup {Result(g, b.source.revision)}
    /\ UNCHANGED <<film, pixmaps, sourceOnDisk>>

\* Another program rewrites the source's file.
RewriteSource ==
    /\ sourceOnDisk <= MaxRewrites /\ sourceOnDisk' = sourceOnDisk + 1
    /\ UNCHANGED <<film, pixmaps, batches, thumbnails, directory>>

---------------------------------------------------------------------------
FilmInit ==
    /\ \E layout \in Layouts :
          film = [source |-> NoSource, layout |-> layout, generation |-> 0,
                  signature |-> <<0, layout>>, samples |-> {}]
    /\ pixmaps = << >> /\ batches = << >> /\ thumbnails = {}
    /\ directory = << >> /\ sourceOnDisk = 1

FilmNext ==
    \/ PresentSource
    \/ PresentNothing
    \/ \E layout \in Layouts : ResizeFilm(layout)
    \/ RewriteSource
    \/ \E r \in thumbnails : ThumbnailReady(r)
    \/ \E g \in DOMAIN batches : OpenCache(g)
    \/ \E g \in DOMAIN batches : GetThumbnail(g)
    \/ \E g \in DOMAIN batches : GenerateThumbnail(g)
    \/ \E g \in DOMAIN batches : PutThumbnail(g)

FilmSpec == FilmInit /\ [][FilmNext]_filmVars

---------------------------------------------------------------------------
(* Types of the widget, its workers and the directory; a tile is only      *)
(* there for a sample of the strip.                                        *)
FilmTypeOK ==
    /\ film.layout \in Layouts /\ film.generation \in 0..MaxBatches
    /\ DOMAIN pixmaps \subseteq film.samples
    /\ \A g \in DOMAIN batches :
          batches[g].phase \in {"start", "get", "decode", "put", "done"} /\ batches[g].sample \in 1..batches[g].layout.count
    /\ Len(directory) = Cardinality(ToSet(directory))

(* A tile shows the picture of its own sample, in the strip's layout, of   *)
(* the version of the file the source was opened in: no result of a        *)
(* superseded worker, no cached picture and no rewritten file puts another *)
(* one there.                                                              *)
TilesShowTheSource ==
    \A s \in DOMAIN pixmaps : pixmaps[s] = Image(film.source.revision, s, film.layout)

(* When the current worker is done and its results are in, every sample it *)
(* could decode has its tile: neither a cache that cannot be opened, read  *)
(* or written, nor another worker that cleans away its temporaries or      *)
(* evicts its images, nor a bad sample keeps the rest of the strip empty.  *)
StripFillsUp ==
    (film.source # NoSource /\ batches[film.generation].phase = "done"
        /\ ~\E r \in thumbnails : r.generation = film.generation) =>
        film.samples \ batches[film.generation].failed \subseteq DOMAIN pixmaps

(* The directory is within its limit for as long as the worker that opened *)
(* it last is the only one that uses it and none of its uses failed.       *)
WithinLimitWhenAlone == \A g \in DOMAIN batches : batches[g].alone => BytesOf(directory) <= DirectoryLimit

\* The strip fills with the pictures of its own source, with workers of several
\* strips in one directory that is cleaned and evicted under them.
FilmstripCorrect ==
    /\ FilmTypeOK
    /\ TilesShowTheSource
    /\ StripFillsUp
    /\ WithinLimitWhenAlone
=============================================================================
