\* Every form of the studio, with two files that may be picked again and again: uploads overlap,
\* fail, and end after the form changed; stories of one or two scenes, one character added or
\* loaded at a time, three lines; slideshows of two or three pictures.
SPECIFICATION FormSpec
CONSTANTS
    Null = Null
    File = {f1, f2}
    Character = {c1, e1}
    Examples = {e1}
    MinScenes = 1
    MaxScenes = 2
    MinSlides = 2
    MaxSlides = 3
    MaxCharacters = 1
    MaxLines = 3
SYMMETRY AnyFile
INVARIANTS ShownIsSent InputPaidFor StoryConsistent
CHECK_DEADLOCK FALSE
