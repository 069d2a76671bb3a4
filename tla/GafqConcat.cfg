\* Run "concat": gafqV_concat from OP_CONCAT and gafq_concat computes the
\* right-associative concatenation, metamethods and overflow included; the
\* pattern matcher of the string library (one call per state, from
\* initial states of its own) agrees with what the patterns mean; the
\* lexer, driven by gafqX_next and gafqX_lookahead, reads every chunk of
\* MC_Sources as written.
CONSTANTS
  Letters <- MC_Letters
  Nums <- MC_Nums
  MAXSTR <- MC_MAXSTR
  WIDTH <- MC_WIDTH
  MAXSTACK <- MC_MAXSTACK
  MAXCALLS <- MC_MAXCALLS
  COMPAT_LSTR = 1
  Sources <- MC_Sources
  LocalePoints <- MC_LocalePoints
SPECIFICATION MCSpec
PROPERTY ConcatAsFold
INVARIANTS FindAsSpecified GsubAgreesWithGmatch
  LookaheadTransparent LinesCounted StringsAsWritten NumeralsAsWritten
