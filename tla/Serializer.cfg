CONSTANTS
  BITS = 2
  PREFIX_LIMITS <- Limits
  MaxAdds = 3
  Trees <- SomeTrees
SPECIFICATION Spec
INVARIANTS PictureIsRight RoundTrip BestReference SingleAddIsPlain
