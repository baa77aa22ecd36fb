SPECIFICATION Spec
INVARIANTS WindowsInPlace FiguresAgree DaysAddUp SourcesFit
