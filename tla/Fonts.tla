------------------------------- MODULE Fonts -------------------------------
(***************************************************************************)
(* The fonts of src/ui/FreeTypeGX.cpp: one face per size, each with a map  *)
(* of the glyphs it has rendered, and one budget for the textures of all.  *)
(* A GuiText measures its text once and is drawn with that width for as    *)
(* long as it lives.  The GUI lock makes each operation one step.          *)
(***************************************************************************)
EXTENDS Integers, Sequences, FiniteSets, SequencesExt, FiniteSetsExt

CONSTANTS
  Sizes, OverlaySizes,  \* MAX_FONT_SIZE; the sizes the banner prefers, 14..24
  Chars,
  GlyphIndex,      \* of a character: 0 if the font has none
  Advance,         \* pixels
  Texture,         \* bytes, 0 for a blank
  Pair,            \* kerning of a pair of indices
  Kerning,         \* FT_HAS_KERNING
  Texts, Message,  \* what is measured and drawn; what the banner says
  MaxGlyphs,       \* 512
  MaxTexture       \* 2 MiB

VARIABLES
  fontSystem,         \* size -> face
  glyphTextureBytes,  \* what is counted
  allocated,          \* and what is allocated
  g_fontLoadFailed,
  banner,             \* "none", "shown", "over": the overlay of ten seconds
  label               \* size -> a GuiText: its text and textWidth

vars == <<fontSystem, glyphTextureBytes, allocated, g_fontLoadFailed, banner, label>>

NoLabel == [text |-> <<>>, width |-> 0]
NoFace == [name |-> "none", data |-> <<>>]      \* NULL
Invalid == [name |-> "invalid", data |-> <<>>]
Opened == {"regular", "fallback"}   \* font_regular; font_bold or font_italic
isValid(s) == fontSystem[s].name \in Opened

Init ==
  /\ fontSystem = [s \in Sizes |-> NoFace]
  /\ glyphTextureBytes = 0 /\ allocated = 0
  /\ g_fontLoadFailed = FALSE /\ banner = "none"
  /\ label = [s \in Sizes |-> NoLabel]

-----------------------------------------------------------------------------
(* The glyphs.  A walk over a text carries the map, the two counts of      *)
(* bytes, and the pen; `memory` says whether memalign succeeds.            *)

Walk(s) == [data |-> fontSystem[s].data, counted |-> glyphTextureBytes, heap |-> allocated,
            x |-> 0, line |-> 0, drawn |-> {}, stop |-> FALSE]

With(data, c, glyph) == [d \in DOMAIN data \cup {c} |-> IF d = c THEN glyph ELSE data[d]]
Placeholder == [index |-> 0, advance |-> 0, texture |-> 0]   \* fontData[c] of a map without it

\* loadGlyphData: nothing for a blank, for what exceeds the budget, and
\* without memory; the entry stays without a texture then.
loadGlyphData(w, c, memory) ==
  IF Texture[c] > 0 /\ Texture[c] <= MaxTexture - w.counted /\ memory THEN Texture[c] ELSE 0

\* cacheGlyphData overwrites what the map has; NULL if the map is full.
Cacheable(w, c) == Cardinality(DOMAIN w.data) < MaxGlyphs /\ GlyphIndex[c] # 0
cacheGlyphData(w, c, memory) ==
  IF ~Cacheable(w, c) THEN w
  ELSE LET bytes == loadGlyphData(w, c, memory)
       IN [w EXCEPT !.data = With(@, c, [index |-> GlyphIndex[c], advance |-> Advance[c], texture |-> bytes]),
                    !.counted = @ + bytes, !.heap = @ + bytes]

Find(w, c, memory) == IF c \in DOMAIN w.data THEN w ELSE cacheGlyphData(w, c, memory)

\* The pair needs the glyph before; a character without one gets an entry.
Kern(w, before, glyph) ==
  IF ~Kerning THEN w
  ELSE LET data == IF before \in DOMAIN w.data THEN w.data ELSE With(w.data, before, Placeholder)
       IN [w EXCEPT !.data = data, !.x = @ + Pair[data[before].index, glyph.index]]

Advanced(w, text, i, memory) ==
  LET found == Find(w, text[i], memory)
      glyph == found.data[text[i]]
      kerned == IF i > 1 THEN Kern(found, text[i - 1], glyph) ELSE found
  IN IF text[i] \notin DOMAIN found.data THEN found
     ELSE [kerned EXCEPT !.x = @ + glyph.advance,
                         !.drawn = @ \cup (IF glyph.texture > 0 THEN {[at |-> kerned.x, char |-> text[i]]} ELSE {})]

Over(text, w, Step(_, _)) == FoldLeftDomain(Step, w, text)

getWidth(w, text, memory) == Over(text, w, LAMBDA v, i : Advanced(v, text, i, memory))

\* getOffset finds the glyphs of the text up to the limit, for their heights;
\* it knows no kerning.
getOffset(w, text, limit, memory) ==
  LET Height(v, i) ==
        LET found == Find(v, text[i], memory)
        IN CASE limit > 0 /\ v.x >= limit -> v
             [] text[i] \notin DOMAIN found.data -> found
             [] OTHER -> [found EXCEPT !.x = @ + found.data[text[i]].advance]
  IN [Over(text, [w EXCEPT !.x = 0], Height) EXCEPT !.x = w.x]

\* drawText: what begins beyond the limit is left out.
drawText(w, text, limit, memory) ==
  Over(text, getOffset(w, text, limit, memory),
       LAMBDA v, i : IF v.stop \/ (limit > 0 /\ v.x > limit) THEN [v EXCEPT !.stop = TRUE]
                     ELSE Advanced(v, text, i, memory))

\* drawLongText, scrolled by `start`: a line breaks after the glyph that
\* passes maxWidth, a blank there is left out; a tab is four blanks and is
\* cached as the blank.
drawLongText(w, text, maxLines, start, maxWidth, memory) ==
  LET Char(v, i) ==
        LET c == text[i]
            as == IF c = "tab" THEN "blank" ELSE c
            breaks == maxWidth > 0 /\ v.x > start + 1 + maxWidth
            broken == IF breaks THEN [v EXCEPT !.x = 0, !.line = @ + 1] ELSE v
            cached == c \in DOMAIN broken.data
            found == IF cached THEN broken ELSE cacheGlyphData(broken, as, memory)
            glyph == found.data[IF cached THEN c ELSE as]
            kerned == IF i > 1 THEN Kern(found, text[i - 1], glyph) ELSE found
            seen == glyph.texture > 0 /\ kerned.x + glyph.advance > start + 1
        IN CASE v.stop -> v
             [] breaks /\ c = "blank" -> broken
             [] c = "newline" -> [broken EXCEPT !.x = 0, !.line = @ + 1]
             [] maxLines > 0 /\ broken.line >= maxLines -> [broken EXCEPT !.stop = TRUE]
             [] ~cached /\ ~Cacheable(broken, as) -> broken
             [] OTHER -> [kerned EXCEPT
                   !.x = @ + (IF c = "tab" THEN 4 ELSE 1) * glyph.advance,
                   !.drawn = @ \cup {[at |-> kerned.x - start, line |-> kerned.line, char |-> d] :
                                       d \in IF seen THEN {c} ELSE {}}]
  IN Over(text, getOffset(w, text, maxWidth, memory), Char)

Keep(s, w) ==
  /\ fontSystem' = [fontSystem EXCEPT ![s].data = w.data]
  /\ glyphTextureBytes' = w.counted /\ allocated' = w.heap

-----------------------------------------------------------------------------
(* The faces.                                                              *)

Held(data) == MapThenSumSet(LAMBDA c : data[c].texture, DOMAIN data)

\* The destructor: every texture goes, and off the count.
Unloaded(s) == Held(fontSystem[s].data)

\* A size that has no face, or an invalid one, gets one before a text is
\* measured: the first font FreeType can open, none without FreeType or
\* without memory for the object.
Created(s) ==
  /\ ~isValid(s)
  /\ \E name \in Opened \cup {"invalid", "none"} :
       /\ fontSystem' = [fontSystem EXCEPT ![s] = [name |-> name, data |-> <<>>]]
       /\ g_fontLoadFailed' = (g_fontLoadFailed \/ name \in {"fallback", "invalid"})
  /\ glyphTextureBytes' = glyphTextureBytes - Unloaded(s) /\ allocated' = allocated - Unloaded(s)
  /\ label' = [label EXCEPT ![s] = NoLabel]
  /\ UNCHANGED banner

SetText(s, t) ==
  /\ isValid(s)
  /\ \E memory \in BOOLEAN :
       LET w == getWidth(Walk(s), t, memory)
       IN Keep(s, w) /\ label' = [label EXCEPT ![s] = [text |-> t, width |-> w.x]]
  /\ UNCHANGED <<g_fontLoadFailed, banner>>

\* A GuiText or a GuiLongText.
Draw(s) ==
  /\ isValid(s) /\ label[s] # NoLabel
  /\ \E memory \in BOOLEAN, limit \in {0, 2} : 
       \/ Keep(s, drawText(Walk(s), label[s].text, limit, memory))
       \/ \E start \in {0, 1} : Keep(s, drawLongText(Walk(s), label[s].text, 2, start, limit, memory))
  /\ UNCHANGED <<g_fontLoadFailed, banner, label>>

\* DrawFontErrorOverlay, in every frame once a font failed, for ten seconds.
Overlay ==
  /\ g_fontLoadFailed /\ banner # "over" /\ banner' \in {"shown", "over"}
  /\ LET valid == {s \in Sizes : isValid(s)}
         preferred == valid \cap OverlaySizes
         s == Min(IF preferred # {} THEN preferred ELSE valid)
     IN IF banner' = "over" \/ valid = {} THEN UNCHANGED <<fontSystem, glyphTextureBytes, allocated>>
        ELSE Keep(s, drawText(Walk(s), Message, 0, TRUE))
  /\ UNCHANGED <<g_fontLoadFailed, label>>

ClearFontData ==
  /\ fontSystem' = [s \in Sizes |-> NoFace]
  /\ LET all == MapThenSumSet(Unloaded, Sizes)
     IN glyphTextureBytes' = glyphTextureBytes - all /\ allocated' = allocated - all
  /\ label' = [s \in Sizes |-> NoLabel]
  /\ UNCHANGED <<g_fontLoadFailed, banner>>

Next ==
  \/ \E s \in Sizes : Created(s) \/ Draw(s) \/ \E t \in Texts : SetText(s, t)
  \/ Overlay \/ ClearFontData

Spec == Init /\ [][Next]_vars

-----------------------------------------------------------------------------
(* Properties.                                                             *)

\* A text keeps the width it was measured with for as long as its face lives,
\* whatever is measured and drawn in between and however full the map is, so
\* that a text is drawn as it was laid out, nothing of it beyond its limit;
\* a long text is never drawn past its lines.  The count of texture bytes is
\* what the maps hold and what is allocated, never more than the budget
\* (FreeTypeGX.cpp:354-482, 587-899).
TextStaysAsMeasured ==
  /\ \A s \in Sizes : label[s] # NoLabel =>
       LET t == label[s].text
       IN /\ getWidth(Walk(s), t, TRUE).x = label[s].width
          /\ drawText(Walk(s), t, 0, TRUE).x = label[s].width
          /\ \A d \in drawText(Walk(s), t, 2, TRUE).drawn : d.at <= 2
          /\ \A d \in drawLongText(Walk(s), t, 2, 1, 2, TRUE).drawn : d.line < 2 /\ d.at <= 3
  /\ glyphTextureBytes = MapThenSumSet(Unloaded, Sizes)
  /\ allocated = glyphTextureBytes /\ glyphTextureBytes \in 0..MaxTexture
  /\ ~g_fontLoadFailed => \A s \in Sizes : fontSystem[s].name \in {"none", "regular"}
=============================================================================
