SPECIFICATION Spec
CONSTANTS
  c1 = c1
  c2 = c2
  file = file
  link = link
  mark = mark
  task = task
  Null = Null
  Courses <- TwoCourses
  Items <- FourItems
  CourseOf <- FourCourses
  KindOf <- FourKinds
  Overlap = 1
  Behind = 0
  MaxTime = 1
  MaxChanges = 2
  MaxFails = 1
CHECK_DEADLOCK FALSE
PROPERTY
  ReturnedIsOffered
